------------------------- MODULE RecverState_proofs -------------------------
(***************************************************************************)
(* Proofs about RecverState: for data of any size, any pattern of losses   *)
(* and any interleaving of the two threads, no loss is forgotten, no       *)
(* packet is counted twice, no patch precedes what it depends on, and the  *)
(* completion that is reported is true.                                    *)
(*                                                                         *)
(* The argument is one invariant, RInv.  Its heart is UnderWay: the        *)
(* packets asked for and not yet written are each on the way exactly once, *)
(* as the report of a loss, a request to the sender or a patch.            *)
(***************************************************************************)
EXTENDS RecverState, FiniteSetTheorems, SequenceTheorems, TLAPS

-----------------------------------------------------------------------------
(* Packets and bytes.                                                      *)

LEMMA DivMod ==
    ASSUME NEW n \in Nat \ {0}, NEW a \in Nat
    PROVE  n * (a \div n) + (a % n) = a /\ a % n \in 0 .. (n - 1) /\ a \div n \in Nat
<1>1. n \in Int /\ n > 0 /\ a \in Int OBVIOUS
<1>2. n * (a \div n) + (a % n) = a BY <1>1
<1>3. a % n \in 0 .. (n - 1) /\ a \div n \in Int BY <1>1
<1>4. ASSUME a \div n <= -1 PROVE FALSE
  <2>1. n * (a \div n) + n <= n * 0 BY <1>1, <1>3, <1>4
  <2>2. QED BY <1>1, <1>2, <1>3, <2>1
<1>5. QED BY <1>2, <1>3, <1>4

LEMMA ModOf ==
    ASSUME NEW n \in Nat \ {0}, NEW k \in Nat, NEW m \in 0 .. n - 1
    PROVE  k * n + m \in Nat /\ (k * n + m) % n = m
<1> DEFINE a == k * n + m
<1>1. a \in Nat /\ k * n \in Nat OBVIOUS
<1>2. /\ n * (a \div n) + (a % n) = a /\ a % n \in 0 .. (n - 1) /\ a \div n \in Nat
      BY <1>1, DivMod
<1> HIDE DEF a
<1>3. a = n * k + m BY DEF a
<1> DEFINE q == a \div n
           r == a % n
<1>4. n * q + r = n * k + m /\ r \in 0 .. (n - 1) /\ q \in Nat BY <1>2, <1>3
<1> HIDE DEF q, r
<1>5. ASSUME q < k PROVE FALSE
  <2>1. n * q + n <= n * k BY <1>4, <1>5
  <2>2. QED BY <1>4, <2>1
<1>6. ASSUME k < q PROVE FALSE
  <2>1. n * k + n <= n * q BY <1>4, <1>6
  <2>2. QED BY <1>4, <2>1
<1>7. q = k BY <1>4, <1>5, <1>6
<1>8. r = m BY <1>4, <1>7
<1>9. QED BY <1>1, <1>8 DEF a, r

LEMMA Below ==
    ASSUME NEW n \in Nat \ {0}, NEW m \in 0 .. n - 1
    PROVE  (m - n) % n = m
<1> DEFINE a == m - n
           q == a \div n
           r == a % n
<1>1. n \in Int /\ n > 0 /\ a \in Int OBVIOUS
<1> HIDE DEF a
<1>2. n * q + r = a BY <1>1
<1>3. r \in 0 .. (n - 1) /\ q \in Int BY <1>1
<1> HIDE DEF q, r
<1>4. ASSUME q < -1 PROVE FALSE
  <2>1. n * q + n <= n * (-1) BY <1>1, <1>3, <1>4
  <2>2. QED BY <1>1, <1>2, <1>3, <2>1 DEF a
<1>5. ASSUME -1 < q PROVE FALSE
  <2>1. 0 <= n * q BY <1>1, <1>3, <1>5
  <2>2. QED BY <1>1, <1>2, <1>3, <2>1 DEF a
<1>6. q = -1 BY <1>3, <1>4, <1>5
<1>7. r = m BY <1>1, <1>2, <1>3, <1>6 DEF a
<1>8. QED BY <1>7 DEF a, r

LEMMA Small ==
    ASSUME NEW n \in Nat \ {0}, NEW m \in 0 .. n
    PROVE  m % n = IF m = n THEN 0 ELSE m
<1>1. CASE m = n
  <2>1. 1 * n + 0 = n OBVIOUS
  <2>2. (1 * n + 0) % n = 0 BY ModOf
  <2>3. QED BY <1>1, <2>1, <2>2
<1>2. CASE m # n
  <2>1. 0 * n + m = m OBVIOUS
  <2>2. (0 * n + m) % n = m BY <1>2, ModOf
  <2>3. QED BY <1>2, <2>1, <2>2
<1>3. QED BY <1>1, <1>2

(* The data in packets: all of them full but the last one.                 *)
LEMMA WholePackets ==
    ASSUME dataSize \in Sizes
    PROVE  /\ NSeq \in Nat \ {0} /\ Payload \in Nat \ {0} /\ dataSize \in Nat \ {0}
           /\ PayloadMin \in 1 .. Payload
           /\ dataSize = (NSeq - 1) * Payload + PayloadMin
           /\ NSeq < SEQNUM_MAX /\ SEQNUM_MAX \in Nat
           /\ SeqNums = 0 .. (NSeq - 1) /\ 0 \in SeqNums
<1> DEFINE D == dataSize
           P == Payload
           x == D + P - 1
           q == x \div P
<1>1. D \in Nat \ {0} /\ P \in Nat \ {0} /\ D < SEQNUM_MAX /\ SEQNUM_MAX \in Nat BY RecverAssumption
<1>2. x \in Nat /\ D \in Nat BY <1>1
<1>3. P * q + (x % P) = x /\ x % P \in 0 .. (P - 1) /\ q \in Nat BY <1>1, <1>2, DivMod
<1>4. P * (D \div P) + (D % P) = D /\ D % P \in 0 .. (P - 1) /\ D \div P \in Nat
      BY <1>1, <1>2, DivMod
<1>5. NSeq = q /\ PayloadMin = IF D % P = 0 THEN P ELSE D % P BY DEF NSeq, PayloadMin
<1> DEFINE d == D \div P
           m == D % P
           k == x % P
<1> HIDE DEF q, x, d, m, k
<1>6. P * q + k = D + P - 1 /\ k \in 0 .. P - 1 /\ P * d + m = D /\ m \in 0 .. P - 1
      /\ q \in Nat /\ d \in Nat
      BY <1>3, <1>4 DEF q, x, d, m, k
<1> DEFINE Goal == NSeq \in Nat \ {0} /\ PayloadMin \in 1 .. P /\ D = (NSeq - 1) * P + PayloadMin
<1>7. ASSUME m = 0 PROVE Goal
  <2>1. P * q + k = P * d + P - 1 BY <1>1, <1>6, <1>7
  <2>2. ASSUME q < d PROVE FALSE
    <3>1. P * q + P <= P * d BY <1>1, <1>6, <2>2
    <3>2. QED BY <1>1, <1>6, <2>1, <3>1
  <2>3. ASSUME d < q PROVE FALSE
    <3>1. P * d + P <= P * q BY <1>1, <1>6, <2>3
    <3>2. QED BY <1>1, <1>6, <2>1, <3>1
  <2>4. q = d BY <1>6, <2>2, <2>3
  <2>5. D = (q - 1) * P + P BY <1>1, <1>6, <1>7, <2>4
  <2>6. q # 0 BY <1>1, <1>6, <1>7, <2>4
  <2>7. PayloadMin = P BY <1>5, <1>7 DEF m
  <2>8. QED BY <1>1, <1>5, <1>6, <2>5, <2>6, <2>7
<1>8. ASSUME m # 0 PROVE Goal
  <2>1. P * q + k = P * d + P + (m - 1) /\ P * (d + 1) = P * d + P BY <1>1, <1>6
  <2>2. ASSUME q < d + 1 PROVE FALSE
    <3>1. P * q <= P * d BY <1>1, <1>6, <2>2
    <3>2. QED BY <1>1, <1>6, <1>8, <2>1, <3>1
  <2>3. ASSUME d + 1 < q PROVE FALSE
    <3>1. P * (d + 1) + P <= P * q BY <1>1, <1>6, <2>3
    <3>2. QED BY <1>1, <1>6, <2>1, <3>1
  <2>4. q = d + 1 BY <1>6, <2>2, <2>3
  <2>5. D = (q - 1) * P + m BY <1>1, <1>6, <2>4
  <2>6. PayloadMin = m BY <1>5, <1>8 DEF m
  <2>7. QED BY <1>1, <1>5, <1>6, <1>8, <2>4, <2>5, <2>6
<1>9. Goal BY <1>6, <1>7, <1>8
<1>10. NSeq - 1 <= (NSeq - 1) * P BY <1>1, <1>9
<1>11. NSeq <= D BY <1>1, <1>9, <1>10
<1>12. QED BY <1>1, <1>9, <1>11 DEF SeqNums

-----------------------------------------------------------------------------
(* What a request stands for.                                              *)

Length(from, to) == IF to > from THEN to - from ELSE 0

LEMMA IntervalAt ==
    ASSUME NEW from \in Nat, NEW to \in Nat
    PROVE  /\ Len(Interval(from, to)) = Length(from, to)
           /\ \A i \in 1 .. Length(from, to) : Interval(from, to)[i] = from + i - 1
<1>1. Length(from, to) \in Nat BY DEF Length
<1>2. Interval(from, to) = [i \in 1 .. Length(from, to) |-> from + i - 1] BY DEF Interval, Length
<1>3. QED BY <1>1, <1>2

LEMMA IntervalType ==
    ASSUME NEW n \in Nat, NEW from \in Nat, NEW to \in Nat, to <= n
    PROVE  Interval(from, to) \in Seq(0 .. n - 1)
<1>1. Length(from, to) \in Nat BY DEF Length
<1>2. Interval(from, to) = [i \in 1 .. Length(from, to) |-> from + i - 1] BY DEF Interval, Length
<1>3. \A i \in 1 .. Length(from, to) : from + i - 1 \in 0 .. n - 1 BY DEF Length
<1>4. QED BY <1>1, <1>2, <1>3

(* The packets of the request <<a, b>> to a sender that knows f.           *)
Within(a, b, f, n) ==
    LET s == IF a = n THEN 0 ELSE a
        e == IF b = SEQ2WARDTHEEND THEN f ELSE b
    IN  {x \in 0 .. n - 1 : IF s <= e THEN s <= x /\ x < e ELSE x < e \/ s <= x}

LEMMA PatchSeqsAre ==
    ASSUME NEW n \in Nat \ {0}, n < SEQNUM_MAX, SEQNUM_MAX \in Nat,
           NEW a \in 1 .. n, NEW b \in (0 .. n) \union {SEQ2WARDTHEEND}, NEW f,
           b = SEQ2WARDTHEEND => f \in Nat
    PROVE  LET q == PatchSeqs(a, b, f, n)
           IN  /\ q \in Seq(0 .. n - 1)
               /\ \A i, j \in 1 .. Len(q) : q[i] = q[j] => i = j
               /\ {q[i] : i \in 1 .. Len(q)} = Within(a, b, f % n, n)
               /\ \A i \in 1 .. Len(q) : q[i] = 0 => i = 1
<1> DEFINE s == a % n
           e == IF b = SEQ2WARDTHEEND THEN f % n ELSE b
           q == PatchSeqs(a, b, f, n)
           W == {x \in 0 .. n - 1 : IF s <= e THEN s <= x /\ x < e ELSE x < e \/ s <= x}
<1>1. s = IF a = n THEN 0 ELSE a
  <2>1. a \in 0 .. n OBVIOUS
  <2>2. QED BY <2>1, Small
<1>2. s \in 0 .. n - 1 BY <1>1
<1>3. e \in 0 .. n
  <2>1. CASE b = SEQ2WARDTHEEND
    <3>1. f % n \in 0 .. n - 1 BY <2>1, DivMod
    <3>2. QED BY <2>1, <3>1
  <2>2. CASE b # SEQ2WARDTHEEND BY <2>2
  <2>3. QED BY <2>1, <2>2
<1>4. W = Within(a, b, f % n, n) BY <1>1 DEF Within
<1>5. Elements(a, b, f, n) = CASE s < e -> <<<<s, e>>>>
                               [] s > e -> <<<<0, e>>, <<s, n>>>>
                               [] OTHER -> <<>>
      BY DEF Elements
<1> HIDE DEF s, e, W
<1> SUFFICES /\ q \in Seq(0 .. n - 1)
             /\ \A i, j \in 1 .. Len(q) : q[i] = q[j] => i = j
             /\ {q[i] : i \in 1 .. Len(q)} = W
             /\ \A i \in 1 .. Len(q) : q[i] = 0 => i = 1
    BY <1>4
<1>6. CASE s = e
  <2>1. Elements(a, b, f, n) = <<>> BY <1>2, <1>3, <1>5, <1>6
  <2>2. q = <<>> BY <2>1 DEF PatchSeqs
  <2>3. W = {} BY <1>2, <1>3, <1>6 DEF W
  <2> HIDE DEF q
  <2>4. q \in Seq(0 .. n - 1) /\ Len(q) = 0 BY <2>2
  <2>5. QED BY <2>3, <2>4
<1>7. CASE s < e
  <2>1. Elements(a, b, f, n) = <<<<s, e>>>> BY <1>2, <1>3, <1>5, <1>7
  <2>2. q = Interval(s, e) BY <2>1 DEF PatchSeqs
  <2> HIDE DEF q
  <2>9. n \in Nat /\ s \in Nat /\ e \in Nat /\ e <= n /\ e > s BY <1>2, <1>3, <1>7
  <2>3. q \in Seq(0 .. n - 1) /\ Len(q) = e - s /\ \A i \in 1 .. Len(q) : q[i] = s + i - 1
    <3>1. q \in Seq(0 .. n - 1) BY <2>9, <2>2, IntervalType
    <3>2. /\ Len(q) = Length(s, e) /\ Length(s, e) = e - s
          /\ \A i \in 1 .. Length(s, e) : q[i] = s + i - 1
          BY <2>9, <2>2, IntervalAt DEF Length
    <3>3. QED BY <3>1, <3>2
  <2>4. {q[i] : i \in 1 .. Len(q)} = W
    <3>1. ASSUME NEW i \in 1 .. Len(q) PROVE q[i] \in W
          BY <1>2, <1>3, <1>7, <2>3 DEF W
    <3>2. ASSUME NEW x \in W PROVE \E i \in 1 .. Len(q) : x = q[i]
      <4>1. x \in 0 .. n - 1 /\ s <= x /\ x < e BY <1>7, <1>2, <1>3 DEF W
      <4>2. x - s + 1 \in 1 .. Len(q) /\ x = q[x - s + 1] BY <1>2, <1>3, <2>3, <4>1
      <4>3. QED BY <4>2
    <3>3. QED BY <3>1, <3>2
  <2>5. \A i, j \in 1 .. Len(q) : q[i] = q[j] => i = j BY <1>2, <1>3, <1>7, <2>3
  <2>6. \A i \in 1 .. Len(q) : q[i] = 0 => i = 1 BY <1>2, <1>3, <1>7, <2>3
  <2>7. QED BY <2>3, <2>4, <2>5, <2>6
<1>8. CASE s > e
  <2> DEFINE u == Interval(0, e)
             v == Interval(s, n)
  <2>1. Elements(a, b, f, n) = <<<<0, e>>, <<s, n>>>> BY <1>2, <1>3, <1>5, <1>8
  <2>2. q = u \o v BY <2>1 DEF PatchSeqs
  <2>9. /\ n \in Nat /\ s \in Nat /\ e \in Nat /\ e <= n /\ s < n /\ n <= n /\ 0 \in Nat
        BY <1>2, <1>3
  <2>3. u \in Seq(0 .. n - 1) /\ Len(u) = e /\ \A i \in 1 .. Len(u) : u[i] = i - 1
    <3> HIDE DEF u
    <3>1. u = Interval(0, e) BY DEF u
    <3>2. u \in Seq(0 .. n - 1) BY <2>9, <3>1, IntervalType
    <3>3. /\ Len(u) = Length(0, e) /\ Length(0, e) = e
          /\ \A i \in 1 .. Length(0, e) : u[i] = 0 + i - 1
      <4> DEFINE z == 0
      <4>1. z \in Nat /\ z = 0 OBVIOUS
      <4> HIDE DEF z
      <4>2. u = Interval(z, e) BY <3>1, <4>1
      <4>3. Len(u) = Length(z, e) /\ \A i \in 1 .. Length(z, e) : u[i] = z + i - 1
            BY <2>9, <4>1, <4>2, IntervalAt
      <4>4. Length(z, e) = e BY <2>9, <4>1 DEF Length
      <4>5. QED BY <4>1, <4>3, <4>4
    <3>4. QED BY <2>9, <3>2, <3>3
  <2>4. v \in Seq(0 .. n - 1) /\ Len(v) = n - s /\ \A i \in 1 .. Len(v) : v[i] = s + i - 1
    <3> HIDE DEF v
    <3>1. v = Interval(s, n) BY DEF v
    <3>2. v \in Seq(0 .. n - 1) BY <2>9, <3>1, IntervalType
    <3>3. /\ Len(v) = Length(s, n) /\ Length(s, n) = n - s
          /\ \A i \in 1 .. Length(s, n) : v[i] = s + i - 1
          BY <2>9, <3>1, IntervalAt DEF Length
    <3>4. QED BY <3>2, <3>3
  <2> HIDE DEF q, u, v
  <2>5. /\ q \in Seq(0 .. n - 1) /\ Len(q) = e + (n - s)
        /\ \A i \in 1 .. e + (n - s) : q[i] = IF i <= e THEN u[i] ELSE v[i - e]
    <3> DEFINE S == 0 .. n - 1
    <3> HIDE DEF S
    <3>1. u \in Seq(S) /\ v \in Seq(S) BY <2>3, <2>4 DEF S
    <3>2. /\ q \in Seq(S) /\ Len(q) = Len(u) + Len(v)
          /\ \A i \in 1 .. Len(u) + Len(v) : q[i] = IF i <= Len(u) THEN u[i] ELSE v[i - Len(u)]
          BY <2>2, <3>1, ConcatProperties
    <3>3. QED BY <2>3, <2>4, <2>9, <3>2 DEF S
  <2>6. \A i \in 1 .. e + (n - s) : q[i] = IF i <= e THEN i - 1 ELSE s + (i - e) - 1
        BY <1>2, <1>3, <2>3, <2>4, <2>5
  <2>7. {q[i] : i \in 1 .. Len(q)} = W
    <3>1. ASSUME NEW i \in 1 .. Len(q) PROVE q[i] \in W
          BY <1>2, <1>3, <1>8, <2>5, <2>6 DEF W
    <3>2. ASSUME NEW x \in W PROVE \E i \in 1 .. Len(q) : x = q[i]
      <4>1. x \in 0 .. n - 1 /\ (x < e \/ s <= x) BY <1>8, <1>2, <1>3 DEF W
      <4>2. CASE x < e
        <5>1. x + 1 \in 1 .. Len(q) /\ x = q[x + 1] BY <1>2, <1>3, <2>5, <2>6, <4>1, <4>2
        <5>2. QED BY <5>1
      <4>3. CASE s <= x
        <5>1. x - s + e + 1 \in 1 .. Len(q) /\ x = q[x - s + e + 1]
              BY <1>2, <1>3, <2>5, <2>6, <4>1, <4>3
        <5>2. QED BY <5>1
      <4>4. QED BY <4>1, <4>2, <4>3
    <3>3. QED BY <3>1, <3>2
  <2>12. Len(q) = e + (n - s) BY <2>5
  <2> HIDE DEF q
  <2>13. \A i \in 1 .. Len(q) : q[i] = IF i <= e THEN i - 1 ELSE s + (i - e) - 1
        BY <2>6, <2>12
  <2>14. Len(q) \in Nat BY <2>9, <2>12
  <2>8. \A i, j \in 1 .. Len(q) : q[i] = q[j] => i = j BY <2>9, <1>8, <2>13, <2>14
  <2>10. \A i \in 1 .. Len(q) : q[i] = 0 => i = 1 BY <2>9, <1>8, <2>13, <2>14
  <2>11. QED BY <2>5, <2>7, <2>8, <2>10
<1>9. QED BY <1>2, <1>3, <1>6, <1>7, <1>8

LEMMA AskedFor ==
    ASSUME dataSize \in Sizes, NEW a \in 1 .. NSeq, NEW b \in (0 .. NSeq) \union {SEQ2WARDTHEEND},
           NEW f \in SeqNums
    PROVE  SeqsOf(a, b, f) = Within(a, b, f, NSeq) /\ SeqsOf(a, b, f) \subseteq SeqNums
<1>1. /\ NSeq \in Nat \ {0} /\ NSeq < SEQNUM_MAX /\ SEQNUM_MAX \in Nat /\ SeqNums = 0 .. (NSeq - 1)
      BY WholePackets
<1>2. f \in Nat /\ f \in 0 .. NSeq /\ f # NSeq BY <1>1
<1>3. f % NSeq = f BY <1>1, <1>2, Small
<1>4. SeqsOf(a, b, f) = Within(a, b, f % NSeq, NSeq) BY <1>1, <1>2, PatchSeqsAre DEF SeqsOf
<1>5. Within(a, b, f, NSeq) \subseteq 0 .. NSeq - 1 BY DEF Within
<1>6. QED BY <1>1, <1>3, <1>4, <1>5

-----------------------------------------------------------------------------
(* The packets the stream has gone past.                                   *)

Past(first, lst, n) == IF lst >= first THEN first .. lst ELSE (0 .. lst) \union (first .. (n - 1))

(* Which packets are accepted, and what they add.                          *)
Joins(first, lst, s, J) ==
    /\ s \notin Past(first, lst, NSeq) /\ s \notin J
    /\ J \intersect Past(first, lst, NSeq) = {}
    /\ Past(first, s, NSeq) = Past(first, lst, NSeq) \union {s} \union J

LEMMA JoinNext ==
    ASSUME dataSize \in Sizes, NEW first \in SeqNums, NEW lst \in SeqNums, NEW s \in SeqNums,
           s = lst + 1, s # first
    PROVE  Joins(first, lst, s, {})
  BY WholePackets DEF Joins, Past

LEMMA JoinForward ==
    ASSUME dataSize \in Sizes, NEW first \in SeqNums, NEW lst \in SeqNums, NEW s \in SeqNums,
           s > lst + 1, (first > lst /\ first > s) \/ lst >= first
    PROVE  Joins(first, lst, s, SeqsOf(lst + 1, s, first))
<1>1. NSeq \in Nat \ {0} /\ SeqNums = 0 .. (NSeq - 1) BY WholePackets
<1>2. lst + 1 \in 1 .. NSeq /\ s \in (0 .. NSeq) \union {SEQ2WARDTHEEND} BY <1>1
<1>3. SeqsOf(lst + 1, s, first) = Within(lst + 1, s, first, NSeq) BY <1>2, AskedFor
<1>4. s # SEQ2WARDTHEEND BY <1>1, WholePackets DEF SEQ2WARDTHEEND
<1>5. Within(lst + 1, s, first, NSeq) = (lst + 1) .. (s - 1) BY <1>1, <1>2, <1>4 DEF Within
<1>6. QED BY <1>1, <1>3, <1>5 DEF Joins, Past

LEMMA JoinZero ==
    ASSUME dataSize \in Sizes, NEW first \in SeqNums, first # 0
    PROVE  Joins(first, NSeq - 1, 0, {})
  BY WholePackets DEF Joins, Past

LEMMA JoinZeroLoss ==
    ASSUME dataSize \in Sizes, NEW first \in SeqNums, NEW lst \in SeqNums, first # 0,
           lst > first, lst # NSeq - 1
    PROVE  Joins(first, lst, 0, SeqsOf(lst + 1, NSeq, first))
<1>1. NSeq \in Nat \ {0} /\ SeqNums = 0 .. (NSeq - 1) BY WholePackets
<1>2. lst + 1 \in 1 .. NSeq /\ NSeq \in (0 .. NSeq) \union {SEQ2WARDTHEEND} BY <1>1
<1>3. SeqsOf(lst + 1, NSeq, first) = Within(lst + 1, NSeq, first, NSeq) BY <1>2, AskedFor
<1>4. NSeq # SEQ2WARDTHEEND BY <1>1, WholePackets DEF SEQ2WARDTHEEND
<1>5. Within(lst + 1, NSeq, first, NSeq) = (lst + 1) .. (NSeq - 1) BY <1>1, <1>2, <1>4 DEF Within
<1>6. QED BY <1>1, <1>3, <1>5 DEF Joins, Past

LEMMA JoinWrap ==
    ASSUME dataSize \in Sizes, NEW first \in SeqNums, NEW lst \in SeqNums, NEW s \in SeqNums,
           s # 0, s < first, first < lst
    PROVE  /\ Joins(first, lst, s, SeqsOf(lst + 1, s, first))
           /\ 0 \in SeqsOf(lst + 1, s, first)
<1>1. NSeq \in Nat \ {0} /\ SeqNums = 0 .. (NSeq - 1) BY WholePackets
<1>2. lst + 1 \in 1 .. NSeq /\ s \in (0 .. NSeq) \union {SEQ2WARDTHEEND} BY <1>1
<1>3. SeqsOf(lst + 1, s, first) = Within(lst + 1, s, first, NSeq) BY <1>2, AskedFor
<1>4. s # SEQ2WARDTHEEND BY <1>1, WholePackets DEF SEQ2WARDTHEEND
<1>5. Within(lst + 1, s, first, NSeq) = (0 .. s - 1) \union ((lst + 1) .. (NSeq - 1))
      BY <1>1, <1>2, <1>4 DEF Within
<1>6. QED BY <1>1, <1>3, <1>5 DEF Joins, Past

-----------------------------------------------------------------------------
(* The invariant.                                                          *)

Recver ==
    [lock : BOOLEAN, is_fastpath : BOOLEAN, is_finished : BOOLEAN,
     is_seq_fst : BOOLEAN, seq_fst : Nat, seq_lst : Nat, seq_tail : Nat,
     is_seq_zero : BOOLEAN, seq_max : Nat, tail_len : Nat,
     start : Int, jump : Int, tell : Nat, num_fast : Nat, num_slow : Nat,
     file : [SeqNums -> Nat \union {Unwritten}], buf : [SeqNums -> Nat \union {Unwritten}]]

Packets == {"last", "finish", "notify"}     \* a packet has been decided on

Tuple == Nat \X Nat
Report == [type : {"FIRST"}, seq : Nat] \union [type : {"ZERO", "ALL"}]
          \union [type : {"JUMP"}, stt : Nat, end : Nat]
Message == [type : {"FIRST_SEQ"}, seq : Nat] \union [type : {"ALL_DONE"}]
           \union [type : {"PATCH_REQ"}, stt : Nat, end : Nat]

Thread == [pc : {"idle", "test", "accept"} \union Packets, seq : Int, first : BOOLEAN,
           zero : BOOLEAN, all : BOOLEAN, jump : Tuple \union {<<>>}]
Stream == [seq_cur : Nat, seqEnd : Nat \union {NoSeq},
           fast_done : {"no", "sent", "read"}, all_done : Nat]

(* The data fits the code's signed 32-bit values: 2 GiB.                   *)
AllFitInt == \A z \in Sizes : 2 * z <= Word

Types ==
    /\ dataSize \in Sizes /\ 2 * dataSize <= Word
    /\ recv \in Recver
    /\ recv.seq_fst \in SeqNums /\ recv.seq_lst \in SeqNums /\ recv.seq_tail \in SeqNums
    /\ nm \in Thread
    /\ nm.pc # "idle" => nm.seq \in SeqNums
    /\ nm.pc \notin Packets => nm.jump = <<>>
    /\ rc \in {"idle", "patched", "finish", "fast_done", "stopped"}
    /\ nic \in Seq(SeqNums) /\ patches \in Seq(SeqNums)
    /\ n2c \in Seq(Report) /\ up \in Seq(Message) /\ c2i \in Seq({"SEQ_ZERO", "SEQ_ALL"})
    /\ snd \in Stream
    /\ requested \subseteq SeqNums
    /\ crash \in {"no", "seq_tail", "start", "tail_buffer", "no_start", "finished"}

(* Before the first packet nothing has happened.                           *)
Fresh ==
    ~recv.is_seq_fst =>
        /\ recv = [NewRecver EXCEPT !.lock = recv.lock, !.is_fastpath = recv.is_fastpath]
        /\ n2c = <<>> /\ up = <<>> /\ patches = <<>> /\ requested = {}
        /\ snd.seqEnd = NoSeq /\ rc = "idle" /\ nm.pc \notin Packets

(* The stream has gone past every packet of the data.                      *)
Complete(r) == r.is_seq_fst /\ (r.seq_lst + 1 = r.seq_fst \/ (r.seq_fst = 0 /\ r.seq_lst + 1 = NSeq))

(* The lock and the flag: no packet is accepted once the rest is requested.*)
Threads ==
    /\ recv.lock <=> nm.pc # "idle"
    /\ nm.pc = "accept" => ~Complete(recv) /\ (recv.is_fastpath \/ rc = "stopped")
    /\ recv.is_fastpath /\ Complete(recv) => nm.pc = "last" /\ nm.seq = recv.seq_lst
    /\ rc \in {"fast_done", "stopped"} => snd.fast_done = "read"
    /\ rc = "stopped" => ~recv.is_fastpath
    /\ snd.fast_done # "no" => snd.seqEnd # NoSeq
    /\ RestRequested => nm.pc # "accept" /\ (recv.is_fastpath => Complete(recv))

(* What the RecverState says of itself once there is a first packet.       *)
TailLen == (NSeq - recv.seq_tail - 2) * Payload + PayloadMin
Shape ==
    /\ recv.seq_max = IF recv.is_seq_zero THEN NSeq ELSE 0
    /\ recv.is_seq_fst /\ recv.seq_fst = 0 => recv.is_seq_zero
    /\ recv.seq_tail # 0 => recv.seq_lst < recv.seq_fst /\ recv.seq_fst < recv.seq_tail
    /\ recv.seq_lst < recv.seq_fst => recv.is_seq_zero \/ recv.seq_tail # 0
    /\ recv.is_seq_zero \/ recv.seq_tail # 0 => recv.start >= 0
    /\ recv.tail_len = IF recv.is_seq_zero /\ recv.seq_tail # 0 /\ TailLen > 0 THEN TailLen ELSE 0
    /\ \A s \in SeqNums : recv.buf[s] # Unwritten =>
           recv.seq_tail # 0 /\ s > recv.seq_tail /\ recv.is_seq_zero
    /\ 0 \in Written(recv) => recv.is_seq_zero
    /\ recv.is_seq_fst => recv.seq_fst \in Written(recv) \ requested

(* What is asked for is under way as one report, request or patch.         *)
Asks(m, f, n) == IF m.type \in {"JUMP", "PATCH_REQ"} THEN Within(m.stt, m.end, f, n) ELSE {}
AskedBy(msgs, f, n) == UNION {Asks(m, f, n) : m \in Range(msgs)}
Once(msgs, f, n) ==
    \A i, j \in DOMAIN msgs : i # j => Asks(msgs[i], f, n) \intersect Asks(msgs[j], f, n) = {}
NotedBy(jump, f, n) == IF jump = <<>> THEN {} ELSE Within(jump[1], jump[2], f, n)

Reported == NotedBy(nm.jump, recv.seq_fst, NSeq)
Piped == AskedBy(n2c, recv.seq_fst, NSeq)
Sent == AskedBy(up, recv.seq_fst, NSeq)
Coming == Range(patches)
Apart(A, B, C, D) ==
    /\ A \intersect B = {} /\ A \intersect C = {} /\ A \intersect D = {}
    /\ B \intersect C = {} /\ B \intersect D = {} /\ C \intersect D = {}

Requests ==
    /\ nm.jump # <<>> => nm.jump[1] \in 1 .. NSeq /\ nm.jump[2] \in 1 .. NSeq
    /\ \A m \in Range(n2c) : m.type = "JUMP" => m.stt \in 1 .. NSeq /\ m.end \in 1 .. NSeq
    /\ \A m \in Range(up) : m.type = "PATCH_REQ" =>
           /\ m.stt \in 1 .. NSeq /\ m.end \in (0 .. NSeq) \union {SEQ2WARDTHEEND}
           /\ m.end = SEQ2WARDTHEEND => snd.seqEnd # NoSeq

UnderWay ==
    /\ Reported \union Piped \union Sent \union Coming \subseteq requested \ Written(recv)
    /\ Apart(Reported, Piped, Sent, Coming)
    /\ Once(n2c, recv.seq_fst, NSeq) /\ Once(up, recv.seq_fst, NSeq)
    /\ \A i, j \in DOMAIN patches : patches[i] = patches[j] => i = j

(* Packets that cannot be placed without the zero packet come behind it.   *)
NeedsZero(s, first, last) == IF last # 0 THEN s > last ELSE s < first
ZeroIn(S, first, last) == (\E s \in S : NeedsZero(s, first, last)) => 0 \in S
ZeroFirst ==
    ~recv.is_seq_zero =>
        /\ ZeroIn(Reported, recv.seq_fst, recv.seq_tail)
        /\ \A m \in Range(n2c) \union Range(up) :
               ZeroIn(Asks(m, recv.seq_fst, NSeq), recv.seq_fst, recv.seq_tail)
        /\ \A j \in DOMAIN patches : NeedsZero(patches[j], recv.seq_fst, recv.seq_tail) =>
               \E i \in 1 .. j : patches[i] = 0

(* The first packet is reported as what it is.                             *)
Firsts ==
    /\ nm.pc \in Packets /\ nm.first => nm.seq = recv.seq_fst
    /\ \A m \in Range(n2c) : m.type = "FIRST" => m.seq = recv.seq_fst
    /\ \A m \in Range(up) : m.type = "FIRST_SEQ" => m.seq = recv.seq_fst
    /\ snd.seqEnd # NoSeq => snd.seqEnd % NSeq = recv.seq_fst

(* Completion is reported when it has been reached.                        *)
AllWritten == \A s \in SeqNums : recv.file[s] # Unwritten
Tells(m) == m.type \in {"ALL", "ALL_DONE"} \/ (m.type \in {"FIRST", "FIRST_SEQ"} /\ NSeq = 1)
Told ==
    \/ nm.pc = "notify" /\ (nm.all \/ (nm.first /\ NSeq = 1))
    \/ \E m \in Range(n2c) \union Range(up) : Tells(m)
    \/ "SEQ_ALL" \in Range(c2i) \/ snd.all_done > 0
Finished ==
    /\ nm.pc = "finish" \/ rc = "finish" => Written(recv) = SeqNums
    /\ recv.is_finished => AllWritten
    /\ Told => recv.is_finished

RInv == /\ Types /\ Fresh /\ Threads /\ Shape /\ Requests /\ UnderWay /\ ZeroFirst /\ Firsts
        /\ Finished /\ EveryLossRequested /\ CountsAreExact /\ PatchesAreReady

-----------------------------------------------------------------------------
(* Queues of messages.                                                     *)

LEMMA ByIndex ==
    ASSUME NEW S, NEW q \in Seq(S)
    PROVE  /\ DOMAIN q = 1 .. Len(q) /\ Len(q) \in Nat
           /\ \A i \in DOMAIN q : q[i] \in S
           /\ \A x : x \in Range(q) <=> \E i \in DOMAIN q : q[i] = x
<1>1. DOMAIN q = 1 .. Len(q) /\ Len(q) \in Nat BY LenProperties
<1>2. \A i \in DOMAIN q : q[i] \in S BY <1>1, ElementOfSeq
<1>3. \A x : x \in Range(q) <=> \E i \in DOMAIN q : q[i] = x BY DEF Range
<1>4. QED BY <1>1, <1>2, <1>3

LEMMA TakeOne ==
    ASSUME NEW S, NEW q \in Seq(S), q # <<>>
    PROVE  /\ Head(q) \in S /\ Tail(q) \in Seq(S)
           /\ DOMAIN Tail(q) = 1 .. Len(q) - 1 /\ Len(q) \in Nat \ {0}
           /\ \A i \in DOMAIN Tail(q) : Tail(q)[i] = q[i + 1]
           /\ q[1] = Head(q)
           /\ Range(q) = {Head(q)} \union Range(Tail(q))
<1>1. /\ Head(q) \in S /\ Tail(q) \in Seq(S) /\ Len(Tail(q)) = Len(q) - 1
      /\ \A i \in 1 .. Len(Tail(q)) : Tail(q)[i] = q[i + 1]
      BY HeadTailProperties
<1>2. Len(q) \in Nat \ {0} BY EmptySeq
<1>3. DOMAIN q = 1 .. Len(q) /\ DOMAIN Tail(q) = 1 .. Len(q) - 1 BY <1>1, <1>2, LenProperties
<1>4. q[1] = Head(q) BY <1>2
<1>5. ASSUME NEW x \in Range(q) PROVE x = Head(q) \/ x \in Range(Tail(q))
  <2>1. PICK i \in DOMAIN q : q[i] = x BY <1>5, ByIndex
  <2>2. CASE i = 1 BY <1>4, <2>1, <2>2
  <2>3. CASE i # 1
    <3>1. i - 1 \in DOMAIN Tail(q) /\ i - 1 + 1 = i BY <1>2, <1>3, <2>1, <2>3
    <3>2. Tail(q)[i - 1] = q[i] BY <1>1, <1>3, <3>1
    <3>3. QED BY <1>1, <2>1, <3>1, <3>2, ByIndex
  <2>4. QED BY <2>2, <2>3
<1>6. ASSUME NEW x \in Range(Tail(q)) PROVE x \in Range(q)
  <2>1. PICK i \in DOMAIN Tail(q) : Tail(q)[i] = x BY <1>1, <1>6, ByIndex
  <2>2. i + 1 \in DOMAIN q /\ q[i + 1] = x BY <1>1, <1>2, <1>3, <2>1
  <2>3. QED BY <2>2, ByIndex
<1>7. Head(q) \in Range(q)
  <2>1. 1 \in DOMAIN q BY <1>2, <1>3
  <2>2. QED BY <1>4, <2>1, ByIndex
<1>8. QED BY <1>1, <1>2, <1>3, <1>4, <1>5, <1>6, <1>7

LEMMA JoinTwo ==
    ASSUME NEW S, NEW p \in Seq(S), NEW q \in Seq(S)
    PROVE  /\ p \o q \in Seq(S) /\ DOMAIN (p \o q) = 1 .. Len(p) + Len(q)
           /\ Len(p) \in Nat /\ Len(q) \in Nat
           /\ \A i \in DOMAIN p : (p \o q)[i] = p[i]
           /\ \A i \in 1 .. Len(p) + Len(q) :
                  IF i <= Len(p) THEN i \in DOMAIN p /\ (p \o q)[i] = p[i]
                  ELSE i - Len(p) \in DOMAIN q /\ (p \o q)[i] = q[i - Len(p)]
           /\ Range(p \o q) = Range(p) \union Range(q)
<1>1. /\ p \o q \in Seq(S) /\ Len(p \o q) = Len(p) + Len(q)
      /\ \A i \in 1 .. Len(p) + Len(q) :
             (p \o q)[i] = IF i <= Len(p) THEN p[i] ELSE q[i - Len(p)]
      BY ConcatProperties
<1>2. /\ DOMAIN p = 1 .. Len(p) /\ DOMAIN q = 1 .. Len(q) /\ Len(p) \in Nat /\ Len(q) \in Nat
      /\ DOMAIN (p \o q) = 1 .. Len(p \o q)
      BY <1>1, LenProperties
<1>3. Range(p \o q) = Range(p) \union Range(q) BY RangeConcatenation
<1>4. \A i \in DOMAIN p : (p \o q)[i] = p[i] BY <1>1, <1>2
<1>5. \A i \in 1 .. Len(p) + Len(q) :
          IF i <= Len(p) THEN i \in DOMAIN p /\ (p \o q)[i] = p[i]
          ELSE i - Len(p) \in DOMAIN q /\ (p \o q)[i] = q[i - Len(p)]
      BY <1>1, <1>2
<1>6. QED BY <1>1, <1>2, <1>3, <1>4, <1>5

LEMMA OneMessage ==
    ASSUME NEW S, NEW m \in S
    PROVE  /\ <<m>> \in Seq(S) /\ Range(<<m>>) = {m} /\ DOMAIN <<m>> = {1} /\ <<m>>[1] = m
<1>1. <<m>> \in Seq(S) /\ DOMAIN <<m>> = {1} /\ <<m>>[1] = m OBVIOUS
<1>2. Range(<<m>>) = {m} BY <1>1 DEF Range
<1>3. QED BY <1>1, <1>2

LEMMA NoMessage ==
    ASSUME NEW S
    PROVE  <<>> \in Seq(S) /\ Range(<<>>) = {} /\ DOMAIN <<>> = {}
  BY EmptySeq DEF Range

LEMMA AddOne ==
    ASSUME NEW S, NEW q \in Seq(S), NEW m \in S
    PROVE  /\ Append(q, m) \in Seq(S)
           /\ Range(Append(q, m)) = Range(q) \union {m}
<1> DEFINE one == <<m>>
<1>1. Append(q, m) \in Seq(S) /\ Append(q, m) = q \o one BY AppendProperties, AppendIsConcat
<1>2. one \in Seq(S) /\ Range(one) = {m} BY OneMessage
<1> HIDE DEF one
<1>3. Range(q \o one) = Range(q) \union Range(one) BY <1>2, JoinTwo
<1>4. QED BY <1>1, <1>2, <1>3 DEF one

(* What is asked for by the messages of a queue.                           *)
LEMMA AskedOfTwo ==
    ASSUME NEW S, NEW p \in Seq(S), NEW q \in Seq(S), NEW f, NEW n
    PROVE  /\ AskedBy(p \o q, f, n) = AskedBy(p, f, n) \union AskedBy(q, f, n)
           /\ Once(p, f, n) /\ Once(q, f, n) /\ AskedBy(p, f, n) \intersect AskedBy(q, f, n) = {}
              => Once(p \o q, f, n)
<1> DEFINE pq == p \o q
           A(m) == Asks(m, f, n)
<1>1. /\ pq \in Seq(S) /\ DOMAIN pq = 1 .. Len(p) + Len(q) /\ Len(p) \in Nat /\ Len(q) \in Nat
      /\ Range(pq) = Range(p) \union Range(q)
      /\ \A i \in 1 .. Len(p) + Len(q) :
             IF i <= Len(p) THEN i \in DOMAIN p /\ pq[i] = p[i]
             ELSE i - Len(p) \in DOMAIN q /\ pq[i] = q[i - Len(p)]
      BY JoinTwo
<1> HIDE DEF pq
<1>2. AskedBy(pq, f, n) = AskedBy(p, f, n) \union AskedBy(q, f, n) BY <1>1 DEF AskedBy
<1>3. ASSUME Once(p, f, n), Once(q, f, n), AskedBy(p, f, n) \intersect AskedBy(q, f, n) = {}
      PROVE  Once(pq, f, n)
  <2>1. \A i \in DOMAIN p : p[i] \in Range(p) BY ByIndex
  <2>2. \A i \in DOMAIN q : q[i] \in Range(q) BY ByIndex
  <2>3. \A i \in DOMAIN p, j \in DOMAIN q : A(p[i]) \intersect A(q[j]) = {}
    <3>1. \A i \in DOMAIN p : A(p[i]) \subseteq AskedBy(p, f, n) BY <2>1 DEF AskedBy
    <3>2. \A i \in DOMAIN q : A(q[i]) \subseteq AskedBy(q, f, n) BY <2>2 DEF AskedBy
    <3>3. QED BY <1>3, <3>1, <3>2
  <2>4. \A i, j \in DOMAIN p : i # j => A(p[i]) \intersect A(p[j]) = {} BY <1>3 DEF Once
  <2>5. \A i, j \in DOMAIN q : i # j => A(q[i]) \intersect A(q[j]) = {} BY <1>3 DEF Once
  <2> SUFFICES ASSUME NEW i \in DOMAIN pq, NEW j \in DOMAIN pq, i # j
               PROVE  A(pq[i]) \intersect A(pq[j]) = {}
      BY DEF Once
  <2> HIDE DEF A
  <2>6. CASE i <= Len(p) /\ j <= Len(p) BY <1>1, <2>4, <2>6
  <2>7. CASE i <= Len(p) /\ ~(j <= Len(p)) BY <1>1, <2>3, <2>7
  <2>8. CASE ~(i <= Len(p)) /\ j <= Len(p) BY <1>1, <2>3, <2>8
  <2>9. CASE ~(i <= Len(p)) /\ ~(j <= Len(p))
    <3>1. i - Len(p) # j - Len(p) BY <1>1
    <3>2. /\ i - Len(p) \in DOMAIN q /\ pq[i] = q[i - Len(p)]
          /\ j - Len(p) \in DOMAIN q /\ pq[j] = q[j - Len(p)]
          BY <1>1, <2>9
    <3>3. QED BY <2>5, <3>1, <3>2
  <2>10. QED BY <2>6, <2>7, <2>8, <2>9
<1>4. QED BY <1>2, <1>3 DEF pq

LEMMA AskedOfOne ==
    ASSUME NEW S, NEW m \in S, NEW f, NEW n
    PROVE  AskedBy(<<m>>, f, n) = Asks(m, f, n) /\ Once(<<m>>, f, n)
  BY OneMessage DEF AskedBy, Once

LEMMA AskedOfNone ==
    ASSUME NEW f, NEW n
    PROVE  AskedBy(<<>>, f, n) = {} /\ Once(<<>>, f, n)
  BY NoMessage DEF AskedBy, Once

LEMMA AskedWithOne ==
    ASSUME NEW S, NEW q \in Seq(S), NEW m \in S, NEW f, NEW n
    PROVE  /\ AskedBy(Append(q, m), f, n) = AskedBy(q, f, n) \union Asks(m, f, n)
           /\ Once(q, f, n) /\ AskedBy(q, f, n) \intersect Asks(m, f, n) = {}
              => Once(Append(q, m), f, n)
<1> DEFINE one == <<m>>
<1>1. one \in Seq(S) /\ Append(q, m) = q \o one BY OneMessage, AppendIsConcat
<1>2. AskedBy(one, f, n) = Asks(m, f, n) /\ Once(one, f, n) BY AskedOfOne
<1> HIDE DEF one
<1>3. QED BY <1>1, <1>2, AskedOfTwo

LEMMA AskedOfRest ==
    ASSUME NEW S, NEW q \in Seq(S), q # <<>>, NEW f, NEW n
    PROVE  /\ AskedBy(q, f, n) = Asks(Head(q), f, n) \union AskedBy(Tail(q), f, n)
           /\ Once(q, f, n) => /\ Once(Tail(q), f, n)
                               /\ Asks(Head(q), f, n) \intersect AskedBy(Tail(q), f, n) = {}
<1> DEFINE t == Tail(q)
           A(m) == Asks(m, f, n)
<1>1. /\ t \in Seq(S) /\ DOMAIN t = 1 .. Len(q) - 1 /\ Len(q) \in Nat \ {0}
      /\ \A i \in DOMAIN t : t[i] = q[i + 1]
      /\ q[1] = Head(q) /\ Range(q) = {Head(q)} \union Range(t)
      BY TakeOne
<1>2. DOMAIN q = 1 .. Len(q) BY ByIndex
<1> HIDE DEF t
<1>3. AskedBy(q, f, n) = Asks(Head(q), f, n) \union AskedBy(t, f, n) BY <1>1 DEF AskedBy
<1>4. ASSUME Once(q, f, n)
      PROVE  Once(t, f, n) /\ A(Head(q)) \intersect AskedBy(t, f, n) = {}
  <2>1. \A i, j \in DOMAIN q : i # j => A(q[i]) \intersect A(q[j]) = {} BY <1>4 DEF Once
  <2>2. \A i \in DOMAIN t : i + 1 \in DOMAIN q /\ i + 1 # 1 BY <1>1, <1>2
  <2>6. 1 \in DOMAIN q BY <1>1, <1>2
  <2> HIDE DEF A
  <2>3. \A i, j \in DOMAIN t : i # j => A(t[i]) \intersect A(t[j]) = {}
    <3> TAKE i \in DOMAIN t, j \in DOMAIN t
    <3>1. HAVE i # j
    <3>2. i + 1 # j + 1 BY <1>1, <3>1
    <3>3. A(q[i + 1]) \intersect A(q[j + 1]) = {} BY <2>1, <2>2, <3>2
    <3>4. QED BY <1>1, <3>3
  <2>4. \A i \in DOMAIN t : A(q[1]) \intersect A(t[i]) = {}
    <3> TAKE i \in DOMAIN t
    <3>1. A(q[1]) \intersect A(q[i + 1]) = {} BY <2>1, <2>2, <2>6
    <3>2. QED BY <1>1, <3>1
  <2>5. \A m \in Range(t) : A(q[1]) \intersect A(m) = {} BY <1>1, <2>4, ByIndex
  <2>7. A(q[1]) \intersect AskedBy(t, f, n) = {} BY <2>5 DEF AskedBy, A
  <2>8. QED BY <1>1, <2>3, <2>7 DEF Once, A
<1>5. QED BY <1>3, <1>4 DEF t

-----------------------------------------------------------------------------
(* What a step leaves alone.                                               *)

SameData ==
    /\ dataSize' = dataSize /\ requested' = requested
    /\ Written(recv)' = Written(recv) /\ recv'.buf = recv.buf
    /\ recv'.is_seq_fst = recv.is_seq_fst /\ recv'.seq_fst = recv.seq_fst
    /\ recv'.seq_lst = recv.seq_lst /\ recv'.seq_tail = recv.seq_tail
    /\ recv'.is_seq_zero = recv.is_seq_zero /\ recv'.seq_max = recv.seq_max
    /\ recv'.tail_len = recv.tail_len /\ recv'.start = recv.start
    /\ recv'.num_fast = recv.num_fast /\ recv'.num_slow = recv.num_slow

SameMessages ==
    /\ nm'.jump = nm.jump /\ n2c' = n2c /\ up' = up /\ patches' = patches
    /\ snd'.seqEnd = snd.seqEnd

LEMMA SameSize ==
    ASSUME dataSize' = dataSize
    PROVE  /\ NSeq' = NSeq /\ SeqNums' = SeqNums /\ PayloadMin' = PayloadMin
           /\ Recver' = Recver /\ NewRecver' = NewRecver
<1>1. NSeq' = NSeq /\ PayloadMin' = PayloadMin BY DEF NSeq, PayloadMin
<1>2. SeqNums' = SeqNums BY <1>1 DEF SeqNums
<1>3. QED BY <1>1, <1>2 DEF Recver, NewRecver

LEMMA DataKept ==
    ASSUME SameData
    PROVE  /\ Written(recv)' = Written(recv) /\ Span(recv)' = Span(recv)
           /\ Complete(recv)' = Complete(recv) /\ TailLen' = TailLen
           /\ Shape => Shape'
           /\ CountsAreExact => CountsAreExact'
<1>1. NSeq' = NSeq /\ SeqNums' = SeqNums /\ PayloadMin' = PayloadMin BY SameSize DEF SameData
<1>2. Written(recv)' = Written(recv) BY DEF SameData
<1>3. Span(recv)' = Span(recv) BY <1>1 DEF SameData, Span
<1>4. Complete(recv)' = Complete(recv) BY <1>1 DEF SameData, Complete
<1>5. TailLen' = TailLen BY <1>1 DEF SameData, TailLen
<1>6. Shape => Shape' BY <1>1, <1>2, <1>5 DEF SameData, Shape
<1>7. CountsAreExact => CountsAreExact' BY <1>2 DEF SameData, CountsAreExact
<1>8. QED BY <1>2, <1>3, <1>4, <1>5, <1>6, <1>7

LEMMA MessagesKept ==
    ASSUME SameData, SameMessages
    PROVE  /\ Requests => Requests'
           /\ UnderWay => UnderWay'
           /\ ZeroFirst => ZeroFirst'
<1>1. NSeq' = NSeq BY SameSize DEF SameData
<1>2. Reported' = Reported /\ Piped' = Piped /\ Sent' = Sent /\ Coming' = Coming
      BY <1>1 DEF SameData, SameMessages, Reported, Piped, Sent, Coming
<1>3. Requests => Requests' BY <1>1 DEF SameMessages, Requests
<1>4. UnderWay => UnderWay' BY <1>1, <1>2, DataKept DEF SameData, SameMessages, UnderWay
<1>5. ZeroFirst => ZeroFirst' BY <1>1, <1>2 DEF SameData, SameMessages, ZeroFirst
<1>6. QED BY <1>3, <1>4, <1>5

(* The whole data lies between the first packet and the one before it.     *)
LEMMA WholeSpan ==
    ASSUME Types, recv.is_seq_fst
    PROVE  Complete(recv) <=> Span(recv) = SeqNums
<1> DEFINE f == recv.seq_fst
           l == recv.seq_lst
<1>1. /\ NSeq \in Nat \ {0} /\ SeqNums = 0 .. (NSeq - 1) /\ f \in 0 .. (NSeq - 1) /\ l \in 0 .. (NSeq - 1)
      BY WholePackets DEF Types
<1>2. Span(recv) = IF l >= f THEN f .. l ELSE (0 .. l) \union (f .. (NSeq - 1)) BY DEF Span
<1>3. Complete(recv) <=> (l + 1 = f \/ (f = 0 /\ l + 1 = NSeq)) BY DEF Complete
<1> HIDE DEF f, l
<1>4. CASE l >= f
  <2>1. Span(recv) = f .. l BY <1>2, <1>4
  <2>2. ASSUME f .. l = SeqNums PROVE f = 0 /\ l + 1 = NSeq
    <3>1. 0 \in f .. l /\ NSeq - 1 \in f .. l BY <1>1, <2>2
    <3>2. QED BY <1>1, <3>1
  <2>3. QED BY <1>1, <1>3, <1>4, <2>1, <2>2
<1>5. CASE ~(l >= f)
  <2>1. Span(recv) = (0 .. l) \union (f .. (NSeq - 1)) BY <1>2, <1>5
  <2>2. ASSUME Span(recv) = SeqNums PROVE l + 1 = f
    <3>1. l + 1 \in SeqNums BY <1>1, <1>5
    <3>4. l + 1 \in (0 .. l) \union (f .. (NSeq - 1)) BY <2>1, <2>2, <3>1
    <3>2. l + 1 \in f .. (NSeq - 1) BY <1>1, <3>4
    <3>3. QED BY <1>1, <1>5, <3>2
  <2>3. ASSUME l + 1 = f PROVE Span(recv) = SeqNums BY <1>1, <1>5, <2>1, <2>3
  <2>4. QED BY <1>1, <1>3, <1>5, <2>2, <2>3
<1>6. QED BY <1>4, <1>5

LEMMA WrittenFinite ==
    ASSUME Types
    PROVE  /\ Written(recv) \subseteq SeqNums /\ IsFiniteSet(Written(recv))
           /\ IsFiniteSet(SeqNums) /\ Cardinality(SeqNums) = NSeq
           /\ Cardinality(Written(recv)) \in Nat
           /\ \A s \in SeqNums : s \in Written(recv) <=> (recv.file[s] # Unwritten \/ recv.buf[s] # Unwritten)
<1>1. NSeq \in Nat \ {0} /\ SeqNums = 0 .. (NSeq - 1) BY WholePackets DEF Types
<1>2. DOMAIN recv.file = SeqNums BY DEF Types, Recver
<1>3. Written(recv) \subseteq SeqNums BY <1>2 DEF Written
<1>4. IsFiniteSet(SeqNums) /\ Cardinality(SeqNums) = NSeq
  <2>1. 0 \in Int /\ NSeq - 1 \in Int /\ ~(0 > NSeq - 1) BY <1>1
  <2>2. IsFiniteSet(0 .. (NSeq - 1)) /\ Cardinality(0 .. (NSeq - 1)) = (NSeq - 1) - 0 + 1
        BY <2>1, FS_Interval
  <2>3. QED BY <1>1, <2>2
<1>5. IsFiniteSet(Written(recv)) BY <1>3, <1>4, FS_Subset
<1>6. Cardinality(Written(recv)) \in Nat BY <1>5, FS_CardinalityType
<1>7. QED BY <1>2, <1>3, <1>4, <1>5, <1>6 DEF Written

(* The counts add up to the packets written.                               *)
LEMMA CountOfBoth ==
    ASSUME Types, CountsAreExact
    PROVE  recv.num_fast + recv.num_slow = Cardinality(Written(recv))
<1> DEFINE W == Written(recv)
           A == W \ requested
           B == W \intersect requested
<1>1. IsFiniteSet(W) BY WrittenFinite
<1>2. IsFiniteSet(A) /\ IsFiniteSet(B) BY <1>1, FS_Subset
<1>3. A \union B = W /\ A \intersect B = {} OBVIOUS
<1>4. Cardinality(A) \in Nat /\ Cardinality(B) \in Nat BY <1>2, FS_CardinalityType
<1>5. Cardinality({}) = 0 BY FS_EmptySet
<1>6. Cardinality(A \union B) = Cardinality(A) + Cardinality(B) - Cardinality(A \intersect B)
      BY <1>2, FS_Union
<1>7. recv.num_fast = Cardinality(A) /\ recv.num_slow = Cardinality(B) BY DEF CountsAreExact
<1>8. QED BY <1>3, <1>4, <1>5, <1>6, <1>7

(* recverState_hasGottenAllData tells the truth.                           *)
LEMMA GotAll ==
    ASSUME Types, Shape, CountsAreExact, recv.is_seq_fst, HasGottenAllData(recv)
    PROVE  Written(recv) = SeqNums
<1>1. /\ Written(recv) \subseteq SeqNums /\ IsFiniteSet(Written(recv)) /\ IsFiniteSet(SeqNums)
      /\ Cardinality(SeqNums) = NSeq /\ Cardinality(Written(recv)) \in Nat
      BY WrittenFinite
<1>2. Cardinality(Written(recv)) = recv.seq_max BY CountOfBoth DEF HasGottenAllData
<1>3. recv.seq_fst \in Written(recv) BY DEF Shape
<1>4. Cardinality(Written(recv)) # 0 BY <1>1, <1>3, FS_EmptySet
<1>5. Cardinality(Written(recv)) = NSeq BY <1>2, <1>4 DEF Shape
<1>6. QED BY <1>1, <1>5, FS_Subset

(* A finished transfer has gone past all of the data.                      *)
LEMMA FinishedIsComplete ==
    ASSUME Types, Fresh, EveryLossRequested, Written(recv) = SeqNums
    PROVE  recv.is_seq_fst /\ (Complete(recv) \/ RestRequested)
<1>1. NSeq \in Nat \ {0} /\ SeqNums = 0 .. (NSeq - 1) /\ 0 \in SeqNums /\ requested \subseteq SeqNums
      BY WholePackets DEF Types
<1>2. recv.is_seq_fst
  <2>1. SUFFICES ASSUME ~recv.is_seq_fst PROVE FALSE OBVIOUS
  <2>2. recv.file = [s \in SeqNums |-> Unwritten] /\ recv.buf = [s \in SeqNums |-> Unwritten]
        BY <2>1 DEF Fresh, NewRecver
  <2>3. 0 \notin Written(recv) BY <1>1, <2>2 DEF Written
  <2>4. QED BY <1>1, <2>3
<1>3. Span(recv) \subseteq SeqNums BY <1>1 DEF Types, Span
<1>4. Span(recv) = SeqNums \/ RestRequested BY <1>1, <1>2 DEF EveryLossRequested
<1>5. QED BY <1>2, <1>4, WholeSpan

-----------------------------------------------------------------------------
(* One lemma for each action: the sender.                                  *)

LEMMA KeepsRequested ==
    ASSUME SameData, RestRequested' <=> RestRequested, EveryLossRequested
    PROVE  EveryLossRequested'
<1>1. Written(recv)' = Written(recv) /\ Span(recv)' = Span(recv) /\ SeqNums' = SeqNums
      BY DataKept, SameSize DEF SameData
<1>2. QED BY <1>1 DEF SameData, EveryLossRequested

LEMMA KeepsFresh ==
    ASSUME Types, Fresh, dataSize' = dataSize, requested' = requested,
           NEW l, NEW p, recv' = [recv EXCEPT !.lock = l, !.is_fastpath = p],
           n2c' = n2c, up' = up, patches' = patches,
           ~recv.is_seq_fst => snd'.seqEnd = snd.seqEnd /\ rc' = "idle" /\ nm'.pc \notin Packets
    PROVE  Fresh'
<1>1. NewRecver' = NewRecver BY SameSize
<1>2. recv \in Recver BY DEF Types
<1>3. recv'.is_seq_fst = recv.is_seq_fst /\ recv'.lock = l /\ recv'.is_fastpath = p
      BY <1>2 DEF Recver
<1>4. SUFFICES ASSUME ~recv.is_seq_fst PROVE Fresh' BY <1>3 DEF Fresh
<1>5. recv = [NewRecver EXCEPT !.lock = recv.lock, !.is_fastpath = recv.is_fastpath]
      BY <1>4 DEF Fresh
<1>6. recv' = [NewRecver EXCEPT !.lock = l, !.is_fastpath = p] BY <1>5 DEF NewRecver
<1>7. QED BY <1>1, <1>3, <1>4, <1>6 DEF Fresh

LEMMA SameRecver ==
    ASSUME Types, recv' = recv, dataSize' = dataSize, requested' = requested
    PROVE  SameData /\ recv' = [recv EXCEPT !.lock = recv.lock, !.is_fastpath = recv.is_fastpath]
<1>1. recv \in Recver BY DEF Types
<1>2. recv = [recv EXCEPT !.lock = recv.lock, !.is_fastpath = recv.is_fastpath] BY <1>1 DEF Recver
<1>3. Written(recv)' = Written(recv) BY DEF Written
<1>4. QED BY <1>2, <1>3 DEF SameData

LEMMA TransmitStep ==
    ASSUME RInv, Transmit
    PROVE  RInv'
<1> USE DEF RInv
<1>1. /\ dataSize' = dataSize /\ recv' = recv /\ nm' = nm /\ rc' = rc /\ n2c' = n2c /\ c2i' = c2i
      /\ up' = up /\ patches' = patches /\ requested' = requested /\ crash' = crash
      /\ snd' = [snd EXCEPT !.seq_cur = snd.seq_cur + 1]
      /\ (nic' = nic \/ nic' = Append(nic, snd.seq_cur % NSeq))
      BY DEF Transmit
<1>2. snd \in Stream BY DEF Types
<1>3. /\ snd' \in Stream
      /\ snd'.seqEnd = snd.seqEnd /\ snd'.fast_done = snd.fast_done /\ snd'.all_done = snd.all_done
      BY <1>1, <1>2 DEF Stream
<1>4. nic' \in Seq(SeqNums)
  <2> DEFINE S == SeqNums
             s == snd.seq_cur % NSeq
  <2>1. NSeq \in Nat \ {0} /\ SeqNums = 0 .. (NSeq - 1) /\ snd.seq_cur \in Nat
        BY <1>2, WholePackets DEF Types, Stream
  <2>2. s \in S BY <2>1, DivMod
  <2>3. nic \in Seq(S) BY DEF Types
  <2> HIDE DEF S, s
  <2>4. Append(nic, s) \in Seq(S) BY <2>2, <2>3, AppendProperties
  <2>5. QED BY <1>1, <2>3, <2>4 DEF S, s
<1>5. SameData /\ SameMessages BY <1>1, <1>3, SameRecver DEF SameMessages
<1>6. SeqNums' = SeqNums /\ NSeq' = NSeq /\ Recver' = Recver BY <1>1, SameSize
<1>7. Types' BY <1>1, <1>3, <1>4, <1>6 DEF Types
<1>8. Fresh' BY <1>1, <1>3, SameRecver, KeepsFresh DEF Fresh
<1>9. RestRequested' <=> RestRequested BY <1>1, <1>3 DEF RestRequested
<1>10. Threads' BY <1>1, <1>3, <1>5, <1>9, DataKept DEF Threads
<1>11. Shape' /\ CountsAreExact' BY <1>5, DataKept
<1>12. Requests' /\ UnderWay' /\ ZeroFirst' BY <1>5, MessagesKept
<1>13. Firsts' BY <1>1, <1>3, <1>6 DEF Firsts
<1>14. Finished'
  <2>1. Told' = Told BY <1>1, <1>3, <1>6 DEF Told, Tells
  <2>2. QED BY <1>1, <1>5, <1>6, <2>1, DataKept DEF Finished, AllWritten
<1>15. EveryLossRequested' BY <1>5, <1>9, KeepsRequested
<1>16. PatchesAreReady' BY <1>1 DEF PatchesAreReady
<1>17. QED BY <1>7, <1>8, <1>10, <1>11, <1>12, <1>13, <1>14, <1>15, <1>16

LEMMA SenderFastDoneStep ==
    ASSUME RInv, SenderFastDone
    PROVE  RInv'
<1> USE DEF RInv
<1>1. /\ dataSize' = dataSize /\ recv' = recv /\ nm' = nm /\ rc' = rc /\ n2c' = n2c /\ c2i' = c2i
      /\ up' = up /\ patches' = patches /\ requested' = requested /\ crash' = crash /\ nic' = nic
      /\ snd' = [snd EXCEPT !.fast_done = "sent"] /\ snd.fast_done = "no" /\ snd.seqEnd # NoSeq
      BY DEF SenderFastDone
<1>2. /\ snd' \in Stream
      /\ snd'.seqEnd = snd.seqEnd /\ snd'.fast_done = "sent" /\ snd'.all_done = snd.all_done
      BY <1>1 DEF Types, Stream
<1>3. SameData /\ SameMessages BY <1>1, <1>2, SameRecver DEF SameMessages
<1>4. SeqNums' = SeqNums /\ NSeq' = NSeq /\ Recver' = Recver BY <1>1, SameSize
<1>5. Types' BY <1>1, <1>2, <1>4 DEF Types
<1>6. Fresh' BY <1>1, <1>2, SameRecver, KeepsFresh DEF Fresh
<1>7. ~RestRequested /\ ~RestRequested' BY <1>1, <1>2 DEF RestRequested
<1>8. Threads' BY <1>1, <1>2, <1>3, <1>7, DataKept DEF Threads
<1>9. Shape' /\ CountsAreExact' BY <1>3, DataKept
<1>10. Requests' /\ UnderWay' /\ ZeroFirst' BY <1>3, MessagesKept
<1>11. Firsts' BY <1>1, <1>2, <1>4 DEF Firsts
<1>12. Finished'
  <2>1. Told' = Told BY <1>1, <1>2, <1>4 DEF Told, Tells
  <2>2. QED BY <1>1, <1>3, <1>4, <2>1, DataKept DEF Finished, AllWritten
<1>13. EveryLossRequested' BY <1>3, <1>7, KeepsRequested
<1>14. PatchesAreReady' BY <1>1 DEF PatchesAreReady
<1>15. QED BY <1>5, <1>6, <1>8, <1>9, <1>10, <1>11, <1>12, <1>13, <1>14

-----------------------------------------------------------------------------
(* The netmap thread.                                                      *)

(* Only the lock, the flag and the positions of the file change.           *)
LEMMA OnlyFlags ==
    ASSUME Types, dataSize' = dataSize, requested' = requested,
           NEW l \in BOOLEAN, NEW p \in BOOLEAN, NEW j \in Int,
           recv' = [recv EXCEPT !.lock = l, !.is_fastpath = p, !.jump = j]
    PROVE  /\ SameData /\ recv' \in Recver /\ recv'.lock = l /\ recv'.is_fastpath = p
           /\ recv'.file = recv.file /\ recv'.is_finished = recv.is_finished
           /\ AllWritten' = AllWritten
<1>1. recv \in Recver BY DEF Types
<1>2. recv' \in Recver BY <1>1 DEF Recver
<1>3. /\ recv'.lock = l /\ recv'.is_fastpath = p
      /\ recv'.file = recv.file /\ recv'.buf = recv.buf
      /\ recv'.is_seq_fst = recv.is_seq_fst /\ recv'.seq_fst = recv.seq_fst
      /\ recv'.seq_lst = recv.seq_lst /\ recv'.seq_tail = recv.seq_tail
      /\ recv'.is_seq_zero = recv.is_seq_zero /\ recv'.seq_max = recv.seq_max
      /\ recv'.tail_len = recv.tail_len /\ recv'.start = recv.start
      /\ recv'.num_fast = recv.num_fast /\ recv'.num_slow = recv.num_slow
      /\ recv'.is_finished = recv.is_finished
      BY <1>1 DEF Recver
<1>4. Written(recv)' = Written(recv) BY <1>3 DEF Written
<1>5. AllWritten' = AllWritten BY <1>3, SameSize DEF AllWritten
<1>6. QED BY <1>2, <1>3, <1>4, <1>5 DEF SameData

LEMMA FlagsOnly ==
    ASSUME Types, NEW l, NEW p
    PROVE  [recv EXCEPT !.lock = l, !.is_fastpath = p]
               = [recv EXCEPT !.lock = l, !.is_fastpath = p, !.jump = recv.jump]
<1>1. recv \in Recver BY DEF Types
<1>2. QED BY <1>1 DEF Recver

LEMMA NetmapTakeStep ==
    ASSUME RInv, NetmapTake, ~StoreDelay
    PROVE  RInv'
<1> USE DEF RInv
<1> DEFINE p == recv.is_fastpath \/ ~recv.is_seq_fst
<1>1. /\ dataSize' = dataSize /\ rc' = rc /\ n2c' = n2c /\ c2i' = c2i /\ snd' = snd
      /\ up' = up /\ patches' = patches /\ requested' = requested /\ crash' = crash
      /\ nm.pc = "idle" /\ nic # <<>> /\ nic' = Tail(nic)
      /\ nm' = [NmIdle EXCEPT !.pc = "test", !.seq = Head(nic)]
      /\ recv' = [recv EXCEPT !.lock = ~StoreDelay, !.is_fastpath = p]
      BY DEF NetmapTake
<1>2. recv \in Recver /\ recv.is_fastpath \in BOOLEAN /\ recv.is_seq_fst \in BOOLEAN
      BY DEF Types, Recver
<1>3. nic' \in Seq(SeqNums) /\ Head(nic) \in SeqNums
  <2>1. nic \in Seq(SeqNums) BY DEF Types
  <2>2. QED BY <1>1, <2>1, TakeOne
<1>4. /\ nm' \in Thread /\ nm'.pc = "test" /\ nm'.seq \in SeqNums /\ nm'.jump = <<>>
      /\ nm'.pc # "idle" /\ nm'.pc # "accept" /\ nm'.pc \notin Packets
      /\ nm'.pc # "finish" /\ nm'.pc # "notify" /\ nm'.pc # "last"
  <2>1. SeqNums \subseteq Int BY WholePackets DEF Types
  <2>2. QED BY <1>1, <1>3, <2>1 DEF NmIdle, Thread, Packets, Tuple
<1>5. p \in BOOLEAN /\ ~StoreDelay = TRUE BY <1>2, RecverAssumption
<1>6. nm.jump = <<>> BY <1>1 DEF Types, Packets
<1>7. recv' = [recv EXCEPT !.lock = TRUE, !.is_fastpath = p] BY <1>1, <1>5
<1>8. /\ SameData /\ recv' \in Recver /\ recv'.lock = TRUE /\ recv'.is_fastpath = p
      /\ recv'.file = recv.file /\ recv'.is_finished = recv.is_finished
      /\ AllWritten' = AllWritten
  <2>1. recv.jump \in Int BY <1>2 DEF Recver
  <2>2. recv' = [recv EXCEPT !.lock = TRUE, !.is_fastpath = p, !.jump = recv.jump]
        BY <1>7, FlagsOnly
  <2> HIDE DEF p
  <2>3. QED BY <1>1, <1>5, <2>1, <2>2, OnlyFlags
<1>9. SameMessages BY <1>1, <1>4, <1>6 DEF SameMessages
<1>10. SeqNums' = SeqNums /\ NSeq' = NSeq /\ Recver' = Recver BY <1>1, SameSize
<1>11. Types' BY <1>1, <1>3, <1>4, <1>8, <1>10 DEF Types, SameData
<1>12. Fresh'
  <2>1. ~recv.is_seq_fst => snd'.seqEnd = snd.seqEnd /\ rc' = "idle" /\ nm'.pc \notin Packets
        BY <1>1, <1>4 DEF Fresh
  <2> HIDE DEF p
  <2>2. QED BY <1>1, <1>7, <2>1, KeepsFresh
<1>13. RestRequested' <=> RestRequested BY <1>1 DEF RestRequested
<1>14. Threads'
  <2>1. recv'.lock /\ recv'.is_seq_fst = recv.is_seq_fst BY <1>8 DEF SameData
  <2>2. Complete(recv)' = Complete(recv) BY <1>8, DataKept
  <2>3. ~(recv'.is_fastpath /\ Complete(recv))
    <3>1. Complete(recv) => recv.is_seq_fst BY DEF Complete
    <3>2. ~(recv.is_fastpath /\ Complete(recv)) BY <1>1 DEF Threads
    <3>3. QED BY <1>8, <3>1, <3>2
  <2>4. rc = "stopped" => ~recv'.is_fastpath
    <3>1. rc = "stopped" => recv.is_seq_fst BY DEF Fresh
    <3>2. QED BY <1>8, <3>1 DEF Threads
  <2>5. RestRequested => ~recv'.is_fastpath
    <3>1. RestRequested => recv.is_seq_fst BY DEF RestRequested, Threads, Fresh
    <3>2. RestRequested => ~recv.is_fastpath BY <1>1 DEF Threads
    <3>3. QED BY <1>8, <3>1, <3>2
  <2>6. /\ rc \in {"fast_done", "stopped"} => snd.fast_done = "read"
        /\ snd.fast_done # "no" => snd.seqEnd # NoSeq
        BY DEF Threads
  <2>7. QED BY <1>1, <1>4, <1>13, <2>1, <2>2, <2>3, <2>4, <2>5, <2>6 DEF Threads
<1>15. Shape' /\ CountsAreExact' BY <1>8, DataKept
<1>16. Requests' /\ UnderWay' /\ ZeroFirst' BY <1>8, <1>9, MessagesKept
<1>17. Firsts' BY <1>1, <1>4, <1>8, <1>10 DEF Firsts, SameData
<1>18. Finished'
  <2>1. Told' => Told BY <1>1, <1>4, <1>10 DEF Told, Tells
  <2>2. QED BY <1>1, <1>4, <1>8, <1>10, <2>1, DataKept DEF Finished
<1>19. EveryLossRequested' BY <1>8, <1>13, KeepsRequested
<1>20. PatchesAreReady' BY <1>1 DEF PatchesAreReady
<1>21. QED BY <1>11, <1>12, <1>14, <1>15, <1>16, <1>17, <1>18, <1>19, <1>20

LEMMA NetmapTestStep ==
    ASSUME RInv, NetmapTest
    PROVE  RInv'
<1> USE DEF RInv
<1>1. /\ dataSize' = dataSize /\ rc' = rc /\ n2c' = n2c /\ c2i' = c2i /\ snd' = snd /\ nic' = nic
      /\ up' = up /\ patches' = patches /\ requested' = requested /\ crash' = crash
      /\ nm.pc = "test"
      /\ nm' = IF recv.is_fastpath THEN [nm EXCEPT !.pc = "accept"] ELSE NmIdle
      /\ recv' = IF recv.is_fastpath THEN recv ELSE [recv EXCEPT !.lock = FALSE]
      BY DEF NetmapTest
<1>2. /\ recv \in Recver /\ recv.lock \in BOOLEAN /\ recv.is_fastpath \in BOOLEAN /\ recv.jump \in Int
      /\ nm \in Thread /\ nm.seq \in SeqNums /\ recv.lock
      BY <1>1 DEF Types, Recver, Threads
<1>3. nm.jump = <<>> BY <1>1 DEF Types, Packets
<1>4. /\ nm' \in Thread /\ nm'.pc \in {"idle", "accept"} /\ nm'.jump = <<>>
      /\ nm'.pc = IF recv.is_fastpath THEN "accept" ELSE "idle"
      /\ nm'.pc # "idle" => nm'.seq = nm.seq
      BY <1>1, <1>2, <1>3 DEF NmIdle, Thread, Packets, NoSeq, Tuple
<1>5. nm'.pc \notin Packets /\ nm'.pc # "finish" /\ nm'.pc # "notify" /\ nm'.pc # "last"
      BY <1>4 DEF Packets
<1> DEFINE l == IF recv.is_fastpath THEN recv.lock ELSE FALSE
<1>6. recv' = [recv EXCEPT !.lock = l, !.is_fastpath = recv.is_fastpath] BY <1>1, <1>2 DEF Recver
<1>7. /\ SameData /\ recv' \in Recver /\ recv'.lock = l /\ recv'.is_fastpath = recv.is_fastpath
      /\ recv'.file = recv.file /\ recv'.is_finished = recv.is_finished
      /\ AllWritten' = AllWritten
  <2>1. recv' = [recv EXCEPT !.lock = l, !.is_fastpath = recv.is_fastpath, !.jump = recv.jump]
        BY <1>6, FlagsOnly
  <2>2. l \in BOOLEAN BY <1>2
  <2> HIDE DEF l
  <2>3. QED BY <1>1, <1>2, <2>1, <2>2, OnlyFlags
<1>8. SameMessages BY <1>1, <1>3, <1>4 DEF SameMessages
<1>9. SeqNums' = SeqNums /\ NSeq' = NSeq /\ Recver' = Recver BY <1>1, SameSize
<1>10. Types' BY <1>1, <1>2, <1>4, <1>5, <1>7, <1>9 DEF Types, SameData
<1>11. Fresh'
  <2>1. ~recv.is_seq_fst => snd'.seqEnd = snd.seqEnd /\ rc' = "idle" /\ nm'.pc \notin Packets
        BY <1>1, <1>5 DEF Fresh
  <2> HIDE DEF l
  <2>2. QED BY <1>1, <1>6, <2>1, KeepsFresh
<1>12. RestRequested' <=> RestRequested BY <1>1 DEF RestRequested
<1>13. Threads'
  <2>1. Complete(recv)' = Complete(recv) BY <1>7, DataKept
  <2>2. recv.is_fastpath => ~Complete(recv) BY <1>1 DEF Threads
  <2>3. RestRequested => ~recv.is_fastpath BY <1>1, <2>2 DEF Threads
  <2>4. recv'.lock <=> nm'.pc # "idle" BY <1>2, <1>4, <1>7
  <2>5. QED BY <1>1, <1>4, <1>7, <1>12, <2>1, <2>2, <2>3, <2>4 DEF Threads
<1>14. Shape' /\ CountsAreExact' BY <1>7, DataKept
<1>15. Requests' /\ UnderWay' /\ ZeroFirst' BY <1>7, <1>8, MessagesKept
<1>16. Firsts' BY <1>1, <1>5, <1>7, <1>9 DEF Firsts, SameData
<1>17. Finished'
  <2>1. Told' => Told BY <1>1, <1>5, <1>9 DEF Told, Tells
  <2>2. QED BY <1>1, <1>5, <1>7, <1>9, <2>1, DataKept DEF Finished
<1>18. EveryLossRequested' BY <1>7, <1>12, KeepsRequested
<1>19. PatchesAreReady' BY <1>1 DEF PatchesAreReady
<1>20. QED BY <1>10, <1>11, <1>13, <1>14, <1>15, <1>16, <1>17, <1>18, <1>19

(* The last packet of the round ends the fast path.                        *)
LEMMA NetmapLastStep ==
    ASSUME RInv, NetmapLast
    PROVE  RInv'
<1> USE DEF RInv
<1> DEFINE last == IsLast(recv, nm.seq)
           all  == last /\ HasGottenAllData(recv)
           dies == last /\ recv.is_finished
           p == IF last /\ ~dies THEN FALSE ELSE recv.is_fastpath
           j == IF last /\ ~dies THEN recv.tell ELSE recv.jump
<1>1. /\ dataSize' = dataSize /\ rc' = rc /\ n2c' = n2c /\ c2i' = c2i /\ snd' = snd /\ nic' = nic
      /\ up' = up /\ patches' = patches /\ requested' = requested
      /\ nm.pc = "last"
      /\ nm' = IF dies THEN nm
               ELSE [nm EXCEPT !.pc = IF all THEN "finish" ELSE "notify", !.all = all]
      /\ recv' = IF last /\ ~dies THEN [recv EXCEPT !.is_fastpath = FALSE, !.jump = recv.tell]
                 ELSE recv
      /\ crash' = IF dies THEN "finished" ELSE crash
      BY DEF NetmapLast
<1>2. /\ recv \in Recver /\ recv.lock \in BOOLEAN /\ recv.is_fastpath \in BOOLEAN
      /\ recv.jump \in Int /\ recv.tell \in Nat
      /\ nm \in Thread /\ nm.seq \in SeqNums /\ recv.lock /\ recv.is_seq_fst \in BOOLEAN
      BY <1>1 DEF Types, Recver, Threads
<1>3. recv.is_seq_fst BY <1>1, <1>2 DEF Fresh, Packets
<1>4. all \in BOOLEAN BY DEF IsLast, HasGottenAllData
<1>5. /\ nm' \in Thread /\ nm'.jump = nm.jump /\ nm'.seq = nm.seq /\ nm'.first = nm.first
      /\ nm'.pc = IF dies THEN "last" ELSE IF all THEN "finish" ELSE "notify"
      /\ ~dies => nm'.all = all
  <2> HIDE DEF all, dies, last
  <2>1. QED BY <1>1, <1>2, <1>4 DEF Thread, Packets
<1>6. nm'.pc \in Packets /\ nm'.pc # "idle" /\ nm'.pc # "accept" BY <1>5 DEF Packets
<1>7. p \in BOOLEAN /\ j \in Int
  <2>1. recv.tell \in Int /\ FALSE \in BOOLEAN BY <1>2
  <2>2. QED BY <1>2, <2>1, Zenon
<1>8. recv' = [recv EXCEPT !.lock = recv.lock, !.is_fastpath = p, !.jump = j]
  <2> HIDE DEF dies, last
  <2>1. QED BY <1>1, <1>2 DEF Recver
<1>9. /\ SameData /\ recv' \in Recver /\ recv'.lock = recv.lock /\ recv'.is_fastpath = p
      /\ recv'.file = recv.file /\ recv'.is_finished = recv.is_finished
      /\ AllWritten' = AllWritten
  <2> HIDE DEF p, j
  <2>1. QED BY <1>1, <1>2, <1>7, <1>8, OnlyFlags
<1>10. SameMessages BY <1>1, <1>5 DEF SameMessages
<1>11. SeqNums' = SeqNums /\ NSeq' = NSeq /\ Recver' = Recver BY <1>1, SameSize
<1>12. crash' \in {"no", "seq_tail", "start", "tail_buffer", "no_start", "finished"}
       BY <1>1 DEF Types
<1>13. Types' BY <1>1, <1>2, <1>5, <1>6, <1>9, <1>11, <1>12 DEF Types, SameData
<1>14. Fresh' BY <1>3, <1>9 DEF Fresh, SameData
<1>15. RestRequested' <=> RestRequested BY <1>1 DEF RestRequested
<1>16. NSeq \in Nat \ {0} /\ SeqNums = 0 .. (NSeq - 1) BY WholePackets DEF Types
(* ... which is the one before the first, or the last of the data.         *)
<1>17. Complete(recv) /\ nm.seq = recv.seq_lst => last
  <2>1. recv.seq_fst \in SeqNums /\ recv.seq_lst \in SeqNums BY DEF Types
  <2>2. recv.seq_fst = 0 => recv.seq_max = NSeq BY <1>3 DEF Shape
  <2>3. QED BY <1>16, <2>1, <2>2 DEF Complete, IsLast
<1>18. Threads'
  <2>1. Complete(recv)' = Complete(recv) BY <1>9, DataKept
  <2>2. recv'.is_fastpath /\ Complete(recv) => nm'.pc = "last" /\ nm'.seq = recv'.seq_lst
    <3>1. recv'.is_fastpath => recv.is_fastpath BY <1>2, <1>9
    <3>2. recv.is_fastpath /\ Complete(recv) => last /\ nm.seq = recv.seq_lst
          BY <1>17 DEF Threads
    <3>3. recv'.is_fastpath /\ last => dies BY <1>9
    <3>4. QED BY <1>5, <1>9, <3>1, <3>2, <3>3 DEF SameData
  <2>3. RestRequested => (recv'.is_fastpath => Complete(recv)) BY <1>2, <1>9 DEF Threads
  <2>4. rc = "stopped" => ~recv'.is_fastpath BY <1>2, <1>9 DEF Threads
  <2>5. /\ rc \in {"fast_done", "stopped"} => snd.fast_done = "read"
        /\ snd.fast_done # "no" => snd.seqEnd # NoSeq
        BY DEF Threads
  <2> HIDE DEF p, j, all, last, dies
  <2>6. QED BY <1>1, <1>2, <1>6, <1>9, <1>15, <2>1, <2>2, <2>3, <2>4, <2>5 DEF Threads
<1>19. Shape' /\ CountsAreExact' BY <1>9, DataKept
<1>20. Requests' /\ UnderWay' /\ ZeroFirst' BY <1>9, <1>10, MessagesKept
<1>21. Firsts'
  <2>1. nm.first => nm.seq = recv.seq_fst BY <1>1 DEF Firsts, Packets
  <2> HIDE DEF p, j, all, last, dies
  <2>2. QED BY <1>1, <1>5, <1>9, <1>11, <2>1 DEF Firsts, SameData
(* A single packet completes the data: then it is known here.              *)
<1>22. ASSUME ~dies, nm.first, NSeq = 1 PROVE all
  <2>1. nm.seq = 0 /\ recv.seq_fst = 0 BY <1>2, <1>16, <1>22 DEF Types
  <2>2. recv.seq_max = 1 BY <1>3, <1>22, <2>1 DEF Shape
  <2>3. last BY <2>1, <2>2 DEF IsLast
  <2>4. Written(recv) = {0}
    <3>1. 0 \in Written(recv) BY <1>3, <2>1 DEF Shape
    <3>2. Written(recv) \subseteq SeqNums BY WrittenFinite
    <3>3. \A s \in SeqNums : s = 0 BY <1>16, <1>22
    <3>4. QED BY <3>1, <3>2, <3>3
  <2>5. recv.num_fast + recv.num_slow = Cardinality({0}) BY <2>4, CountOfBoth
  <2>6. Cardinality({0}) = 1 BY FS_Singleton
  <2>7. HasGottenAllData(recv) BY <2>2, <2>5, <2>6 DEF HasGottenAllData
  <2>8. QED BY <2>3, <2>7
<1>23. Finished'
  <2>1. all => Written(recv) = SeqNums BY <1>3, GotAll
  <2>2. nm'.pc = "finish" => all BY <1>5
  <2>3. ~(nm'.pc = "notify" /\ (nm'.all \/ (nm'.first /\ NSeq = 1))) BY <1>5, <1>22
  <2> HIDE DEF p, j, all, last, dies
  <2>4. Told' => Told BY <1>1, <1>11, <2>3 DEF Told, Tells
  <2>5. QED BY <1>1, <1>9, <1>11, <2>1, <2>2, <2>4, DataKept DEF Finished
<1>24. EveryLossRequested' BY <1>9, <1>15, KeepsRequested
<1>25. PatchesAreReady' BY <1>1 DEF PatchesAreReady
<1>26. QED BY <1>13, <1>14, <1>18, <1>19, <1>20, <1>21, <1>23, <1>24, <1>25

-----------------------------------------------------------------------------
(* The recv thread closes the fast path.                                   *)

LEMMA RecvFastDoneStep ==
    ASSUME RInv, RecvFastDone
    PROVE  RInv'
<1> USE DEF RInv
<1>1. /\ dataSize' = dataSize /\ recv' = recv /\ nm' = nm /\ n2c' = n2c /\ c2i' = c2i
      /\ up' = up /\ patches' = patches /\ requested' = requested /\ crash' = crash /\ nic' = nic
      /\ rc = "idle" /\ rc' = "fast_done" /\ ~recv.lock
      /\ snd' = [snd EXCEPT !.fast_done = "read"] /\ snd.fast_done = "sent"
      BY DEF RecvFastDone, LockFree
<1>2. /\ snd' \in Stream
      /\ snd'.seqEnd = snd.seqEnd /\ snd'.fast_done = "read" /\ snd'.all_done = snd.all_done
      BY <1>1 DEF Types, Stream
<1>3. SameData /\ SameMessages BY <1>1, <1>2, SameRecver DEF SameMessages
<1>4. SeqNums' = SeqNums /\ NSeq' = NSeq /\ Recver' = Recver BY <1>1, SameSize
<1>5. Types' BY <1>1, <1>2, <1>4 DEF Types
<1>6. snd.seqEnd # NoSeq /\ nm.pc = "idle" BY <1>1 DEF Threads
<1>7. recv.is_seq_fst BY <1>6 DEF Fresh
<1>8. Fresh' BY <1>1, <1>7 DEF Fresh
<1>9. ~RestRequested /\ ~RestRequested' BY <1>1, <1>2 DEF RestRequested
<1>10. Threads' BY <1>1, <1>2, <1>3, <1>6, <1>9, DataKept DEF Threads
<1>11. Shape' /\ CountsAreExact' BY <1>3, DataKept
<1>12. Requests' /\ UnderWay' /\ ZeroFirst' BY <1>3, MessagesKept
<1>13. Firsts' BY <1>1, <1>2, <1>4 DEF Firsts
<1>14. Finished'
  <2>1. Told' = Told BY <1>1, <1>2, <1>4 DEF Told, Tells
  <2>2. QED BY <1>1, <1>3, <1>4, <2>1, DataKept DEF Finished, AllWritten
<1>15. EveryLossRequested' BY <1>3, <1>9, KeepsRequested
<1>16. PatchesAreReady' BY <1>1 DEF PatchesAreReady
<1>17. QED BY <1>5, <1>8, <1>10, <1>11, <1>12, <1>13, <1>14, <1>15, <1>16

LEMMA RecvStopFastPathStep ==
    ASSUME RInv, RecvStopFastPath
    PROVE  RInv'
<1> USE DEF RInv
<1> DEFINE p == IF recv.is_finished THEN recv.is_fastpath ELSE FALSE
<1>1. /\ dataSize' = dataSize /\ nm' = nm /\ n2c' = n2c /\ c2i' = c2i /\ snd' = snd
      /\ up' = up /\ patches' = patches /\ requested' = requested /\ crash' = crash /\ nic' = nic
      /\ rc = "fast_done" /\ rc' = IF recv.is_finished THEN "idle" ELSE "stopped"
      /\ recv' = IF recv.is_finished THEN recv ELSE [recv EXCEPT !.is_fastpath = FALSE]
      BY DEF RecvStopFastPath
<1>2. /\ recv \in Recver /\ recv.lock \in BOOLEAN /\ recv.is_fastpath \in BOOLEAN /\ recv.jump \in Int
      /\ recv.is_finished \in BOOLEAN
      BY DEF Types, Recver
<1>3. recv' = [recv EXCEPT !.lock = recv.lock, !.is_fastpath = p] BY <1>1, <1>2 DEF Recver
<1>4. /\ SameData /\ recv' \in Recver /\ recv'.lock = recv.lock /\ recv'.is_fastpath = p
      /\ recv'.file = recv.file /\ recv'.is_finished = recv.is_finished
      /\ AllWritten' = AllWritten
  <2>1. recv' = [recv EXCEPT !.lock = recv.lock, !.is_fastpath = p, !.jump = recv.jump]
        BY <1>3, FlagsOnly
  <2>2. p \in BOOLEAN BY <1>2
  <2> HIDE DEF p
  <2>3. QED BY <1>1, <1>2, <2>1, <2>2, OnlyFlags
<1>5. SameMessages BY <1>1 DEF SameMessages
<1>6. SeqNums' = SeqNums /\ NSeq' = NSeq /\ Recver' = Recver BY <1>1, SameSize
<1>7. rc' \in {"idle", "stopped"} /\ rc' # "finish" /\ rc' # "fast_done" BY <1>1
<1>8. Types'
  <2> HIDE DEF p
  <2>1. QED BY <1>1, <1>4, <1>6, <1>7 DEF Types, SameData
<1>9. recv.is_seq_fst /\ recv'.is_seq_fst = recv.is_seq_fst BY <1>1, <1>4 DEF Fresh, SameData
<1>10. Fresh' BY <1>9 DEF Fresh
<1>11. ~RestRequested /\ (RestRequested' <=> snd.fast_done = "read" /\ recv.is_finished)
       BY <1>1 DEF RestRequested
<1>12. recv.is_finished => Written(recv) = SeqNums
  <2>1. \A s \in SeqNums : s \in Written(recv) <=> (recv.file[s] # Unwritten \/ recv.buf[s] # Unwritten)
        BY WrittenFinite
  <2>2. Written(recv) \subseteq SeqNums BY WrittenFinite
  <2>3. QED BY <2>1, <2>2 DEF Finished, AllWritten
<1>13. recv.is_finished => Complete(recv) BY <1>11, <1>12, FinishedIsComplete
<1>14. Threads'
  <2>1. Complete(recv)' = Complete(recv) BY <1>4, DataKept
  <2>2. recv'.is_fastpath => recv.is_fastpath /\ recv.is_finished BY <1>2, <1>4
  <2>3. ~recv.is_finished => ~recv'.is_fastpath BY <1>2, <1>4
  <2>4. nm.pc = "accept" => ~Complete(recv) /\ ~recv.is_finished BY <1>13 DEF Threads
  <2>5. rc' = "stopped" <=> ~recv.is_finished BY <1>1
  <2>6. snd.fast_done = "read" /\ snd.seqEnd # NoSeq BY <1>1 DEF Threads
  <2>7. recv'.lock <=> nm'.pc # "idle" BY <1>1, <1>4 DEF Threads
  <2>8. recv'.is_fastpath /\ Complete(recv)' => nm'.pc = "last" /\ nm'.seq = recv'.seq_lst
        BY <1>1, <1>4, <2>1, <2>2 DEF Threads, SameData
  <2>9. RestRequested' => nm'.pc # "accept" /\ (recv'.is_fastpath => Complete(recv)')
        BY <1>1, <1>11, <1>13, <2>1, <2>4
  <2> HIDE DEF p
  <2>10. QED BY <1>1, <2>1, <2>3, <2>4, <2>5, <2>6, <2>7, <2>8, <2>9 DEF Threads
<1>15. Shape' /\ CountsAreExact' BY <1>4, DataKept
<1>16. Requests' /\ UnderWay' /\ ZeroFirst' BY <1>4, <1>5, MessagesKept
<1>17. Firsts' BY <1>1, <1>4, <1>6 DEF Firsts, SameData
<1>18. Finished'
  <2>1. Told' => Told BY <1>1, <1>6 DEF Told, Tells
  <2>2. QED BY <1>1, <1>4, <1>6, <1>7, <2>1, DataKept DEF Finished
<1>19. EveryLossRequested'
  <2>1. Written(recv)' = Written(recv) /\ Span(recv)' = Span(recv) BY <1>4, DataKept
  <2>2. Written(recv) \union requested = Span(recv) BY <1>9, <1>11 DEF EveryLossRequested
  <2>3. RestRequested' => Written(recv) \union requested = SeqNums
        BY <1>11, <1>12 DEF Types
  <2>4. QED BY <1>1, <1>6, <2>1, <2>2, <2>3 DEF EveryLossRequested
<1>20. PatchesAreReady' BY <1>1 DEF PatchesAreReady
<1>21. QED BY <1>8, <1>10, <1>14, <1>15, <1>16, <1>17, <1>18, <1>19, <1>20

LEMMA RecvPatchedStep ==
    ASSUME RInv, RecvPatched
    PROVE  RInv'
<1> USE DEF RInv
<1>1. /\ dataSize' = dataSize /\ recv' = recv /\ nm' = nm /\ n2c' = n2c /\ c2i' = c2i
      /\ up' = up /\ patches' = patches /\ requested' = requested /\ nic' = nic /\ snd' = snd
      /\ rc = "patched" /\ rc' = IF HasGottenAllData(recv) THEN "finish" ELSE "idle"
      /\ crash = "no" /\ crash' \in {"no", "finished"}
      BY DEF RecvPatched, Running
<1>2. SameData /\ SameMessages BY <1>1, SameRecver DEF SameMessages
<1>3. SeqNums' = SeqNums /\ NSeq' = NSeq /\ Recver' = Recver BY <1>1, SameSize
<1>4. rc' \in {"finish", "idle"} /\ rc' # "stopped" /\ rc' # "fast_done" BY <1>1
<1>5. Types' BY <1>1, <1>3, <1>4 DEF Types
<1>6. recv.is_seq_fst BY <1>1 DEF Fresh
<1>7. Fresh' BY <1>1, <1>6 DEF Fresh
<1>8. RestRequested' <=> RestRequested BY <1>1, <1>4 DEF RestRequested
<1>9. Threads' BY <1>1, <1>2, <1>4, <1>8, DataKept DEF Threads
<1>10. Shape' /\ CountsAreExact' BY <1>2, DataKept
<1>11. Requests' /\ UnderWay' /\ ZeroFirst' BY <1>2, MessagesKept
<1>12. Firsts' BY <1>1, <1>3 DEF Firsts
<1>13. Finished'
  <2>1. Told' = Told BY <1>1, <1>3 DEF Told, Tells
  <2>2. rc' = "finish" => Written(recv) = SeqNums BY <1>1, <1>6, GotAll
  <2>3. QED BY <1>1, <1>2, <1>3, <2>1, <2>2, DataKept DEF Finished, AllWritten
<1>14. EveryLossRequested' BY <1>2, <1>8, KeepsRequested
<1>15. PatchesAreReady' BY <1>1 DEF PatchesAreReady
<1>16. QED BY <1>5, <1>7, <1>9, <1>10, <1>11, <1>12, <1>13, <1>14, <1>15

-----------------------------------------------------------------------------
(* The file is finished.                                                   *)

LEMMA HighestExists ==
    ASSUME NEW U, IsFiniteSet(U), U # {}, NEW v \in [U -> Nat]
    PROVE  \E m \in U : \A x \in U : v[x] <= v[m]
<1> DEFINE Above(e) == {x \in U : v[x] > v[e]}
           T == {Above(e) : e \in U}
<1>1. IsWellFoundedOn(StrictSubsetOrdering(U), SUBSET U)
      BY FS_StrictSubsetOrderingWellFounded, FS_FiniteSubsetsOfFinite
<1>2. T \subseteq SUBSET U /\ T # {}
  <2>1. \A e \in U : Above(e) \subseteq U OBVIOUS
  <2> HIDE DEF Above
  <2>2. QED BY <2>1
<1> HIDE DEF T
<1>3. PICK X \in T : \A Y \in T : ~(<<Y, X>> \in StrictSubsetOrdering(U)) BY <1>1, <1>2, WFMin
<1>4. PICK m \in U : X = Above(m) BY <1>3 DEF T
<1>5. ASSUME NEW x \in U, v[x] > v[m] PROVE FALSE
  <2>1. Above(x) \in T BY DEF T
  <2>2. x \in X /\ x \notin Above(x) BY <1>4, <1>5
  <2>3. Above(x) \subseteq X BY <1>4, <1>5
  <2>4. <<Above(x), X>> \in StrictSubsetOrdering(U)
    <3>1. Above(x) \in SUBSET U /\ X \in SUBSET U BY <1>2, <1>3
    <3> HIDE DEF Above
    <3>2. QED BY <2>2, <2>3, <3>1 DEF StrictSubsetOrdering
  <2>5. QED BY <1>3, <2>1, <2>4
<1>6. QED BY <1>5

LEMMA EndOfFile ==
    ASSUME Types
    PROVE  FileEnd(recv) \in Nat
<1> DEFINE U == {t \in SeqNums : recv.file[t] # Unwritten}
           e(t) == recv.file[t] + PktLen(t)
           v == [t \in U |-> e(t)]
           ends == {e(t) : t \in U}
<1>1. FileEnd(recv) = IF ends = {} THEN 0 ELSE CHOOSE x \in ends : \A f \in ends : f <= x
      BY DEF FileEnd
<1>2. Payload \in Nat /\ PayloadMin \in Nat BY WholePackets DEF Types
<1>3. \A t \in U : e(t) \in Nat
  <2>1. recv.file \in [SeqNums -> Nat \union {Unwritten}] BY DEF Types, Recver
  <2>2. \A t \in U : recv.file[t] \in Nat BY <2>1
  <2>3. \A t \in U : PktLen(t) \in Nat BY <1>2 DEF PktLen
  <2> HIDE DEF U
  <2>4. QED BY <2>2, <2>3
<1>4. IsFiniteSet(U) BY WrittenFinite, FS_Subset
<1> HIDE DEF U, e
<1>5. v \in [U -> Nat] BY <1>3
<1>6. CASE U = {}
  <2>1. ends = {} BY <1>6
  <2>2. QED BY <1>1, <2>1
<1>7. CASE U # {}
  <2>1. PICK m \in U : \A x \in U : v[x] <= v[m]
    <3> HIDE DEF v
    <3>1. QED BY <1>4, <1>5, <1>7, HighestExists
  <2>2. e(m) \in ends /\ \A f \in ends : f <= e(m) BY <2>1
  <2>3. ends # {} /\ ends \subseteq Nat BY <1>3, <2>2
  <2> HIDE DEF ends
  <2>4. (CHOOSE x \in ends : \A f \in ends : f <= x) \in ends BY <2>2
  <2>5. QED BY <1>1, <2>3, <2>4
<1>8. QED BY <1>6, <1>7

(* The tail buffer is only filled when it has a length.                    *)
LEMMA BufferHasLength ==
    ASSUME Types, Shape, NEW s \in SeqNums, recv.buf[s] # Unwritten
    PROVE  recv.tail_len > 0 /\ recv.seq_tail # 0 /\ s > recv.seq_tail
<1>1. recv.seq_tail # 0 /\ s > recv.seq_tail /\ recv.is_seq_zero BY DEF Shape
<1>2. /\ NSeq \in Nat \ {0} /\ Payload \in Nat \ {0} /\ PayloadMin \in 1 .. Payload
      /\ s \in 0 .. (NSeq - 1) /\ recv.seq_tail \in 0 .. (NSeq - 1)
      BY WholePackets DEF Types
<1>3. NSeq - recv.seq_tail - 2 \in Nat BY <1>1, <1>2
<1> DEFINE k == NSeq - recv.seq_tail - 2
<1>4. k * Payload \in Nat BY <1>2, <1>3
<1>5. TailLen = k * Payload + PayloadMin BY DEF TailLen
<1> HIDE DEF k
<1>6. TailLen > 0 BY <1>2, <1>4, <1>5
<1>7. QED BY <1>1, <1>6 DEF Shape

LEMMA FinishKeeps ==
    ASSUME Types, Shape, Written(recv) = SeqNums, recv' = FinishRecv(recv),
           dataSize' = dataSize, requested' = requested
    PROVE  /\ SameData /\ recv' \in Recver /\ recv'.lock = recv.lock
           /\ recv'.is_fastpath = recv.is_fastpath /\ recv'.is_finished /\ AllWritten'
<1> DEFINE end == FileEnd(recv)
           file == [s \in SeqNums |-> IF recv.tail_len > 0 /\ recv.buf[s] # Unwritten
                                      THEN end + recv.buf[s] ELSE recv.file[s]]
<1>1. recv' = [recv EXCEPT !.jump = end, !.is_finished = TRUE, !.file = file] BY DEF FinishRecv
<1>2. /\ recv \in Recver /\ recv.file \in [SeqNums -> Nat \union {Unwritten}]
      /\ recv.buf \in [SeqNums -> Nat \union {Unwritten}]
      BY DEF Types, Recver
<1>3. end \in Nat BY EndOfFile
<1>4. \A s \in SeqNums : recv.buf[s] # Unwritten => recv.tail_len > 0 BY BufferHasLength
<1>5. \A s \in SeqNums : file[s] \in Nat
  <2> SUFFICES ASSUME NEW s \in SeqNums PROVE file[s] \in Nat OBVIOUS
  <2>1. recv.file[s] # Unwritten \/ recv.buf[s] # Unwritten BY WrittenFinite
  <2>2. CASE recv.buf[s] # Unwritten
    <3>1. recv.buf[s] \in Nat /\ file[s] = end + recv.buf[s] BY <1>2, <1>4, <2>2
    <3>2. QED BY <1>3, <3>1
  <2>3. CASE recv.buf[s] = Unwritten BY <1>2, <2>1, <2>3
  <2>4. QED BY <2>2, <2>3
<1>6. file \in [SeqNums -> Nat \union {Unwritten}] BY <1>5
<1> HIDE DEF end, file
<1>7. recv' \in Recver
  <2>1. end \in Int BY <1>3
  <2>2. QED BY <1>1, <1>2, <1>6, <2>1 DEF Recver
<1>8. /\ recv'.lock = recv.lock /\ recv'.is_fastpath = recv.is_fastpath
      /\ recv'.file = file /\ recv'.buf = recv.buf
      /\ recv'.is_seq_fst = recv.is_seq_fst /\ recv'.seq_fst = recv.seq_fst
      /\ recv'.seq_lst = recv.seq_lst /\ recv'.seq_tail = recv.seq_tail
      /\ recv'.is_seq_zero = recv.is_seq_zero /\ recv'.seq_max = recv.seq_max
      /\ recv'.tail_len = recv.tail_len /\ recv'.start = recv.start
      /\ recv'.num_fast = recv.num_fast /\ recv'.num_slow = recv.num_slow
      /\ recv'.is_finished = TRUE
      BY <1>1, <1>2 DEF Recver
<1>9. SeqNums' = SeqNums BY SameSize
<1>10. \A s \in SeqNums : file[s] # Unwritten BY <1>5 DEF Unwritten
<1>11. AllWritten' BY <1>8, <1>9, <1>10 DEF AllWritten
<1>12. Written(recv)' = Written(recv)
  <2>1. DOMAIN file = SeqNums BY <1>6
  <2>2. Written(recv)' = {s \in SeqNums : file[s] # Unwritten \/ recv.buf[s] # Unwritten}
        BY <1>8, <2>1 DEF Written
  <2>3. QED BY <1>10, <2>2
<1>13. SameData BY <1>8, <1>12 DEF SameData
<1>14. QED BY <1>7, <1>8, <1>11, <1>13

(* The two threads call it alike.                                          *)
LEMMA FinishedOnce ==
    ASSUME RInv, Finish, Written(recv) = SeqNums, crash = "no",
           dataSize' = dataSize, requested' = requested
    PROVE  /\ SameData /\ recv' \in Recver /\ recv'.lock = recv.lock
           /\ recv'.is_fastpath = recv.is_fastpath /\ recv'.is_finished /\ AllWritten'
           /\ crash' \in {"no", "finished"}
<1> USE DEF RInv
<1>1. CASE ~recv.is_finished
  <2>1. recv' = FinishRecv(recv) /\ crash' = crash BY <1>1 DEF Finish
  <2>2. QED BY <2>1, FinishKeeps
<1>2. CASE recv.is_finished
  <2>1. recv' = recv /\ crash' \in {"no", "finished"} BY <1>2 DEF Finish
  <2>2. SameData BY <2>1, SameRecver
  <2>3. AllWritten' = AllWritten BY <2>1, SameSize DEF AllWritten
  <2>4. AllWritten BY <1>2 DEF Finished
  <2>5. recv \in Recver BY DEF Types
  <2>6. QED BY <1>2, <2>1, <2>2, <2>3, <2>4, <2>5
<1>3. QED BY <1>1, <1>2

-----------------------------------------------------------------------------
(* Messages that ask for nothing.                                          *)

Silent(m) == m.type \notin {"JUMP", "PATCH_REQ"}

Quiet(p, q) ==
    /\ \A f, n : AskedBy(q, f, n) = AskedBy(p, f, n) /\ (Once(p, f, n) => Once(q, f, n))
    /\ \A m \in Range(q) : m \in Range(p) \/ Silent(m)

LEMMA SilentAsks ==
    ASSUME NEW m, Silent(m), NEW f, NEW n
    PROVE  Asks(m, f, n) = {}
  BY DEF Silent, Asks

LEMMA QuietSame ==
    ASSUME NEW q
    PROVE  Quiet(q, q)
  BY DEF Quiet

LEMMA QuietTail ==
    ASSUME NEW S, NEW q \in Seq(S), q # <<>>, Silent(Head(q))
    PROVE  Quiet(q, Tail(q)) /\ Tail(q) \in Seq(S)
<1>1. Range(q) = {Head(q)} \union Range(Tail(q)) /\ Tail(q) \in Seq(S) BY TakeOne
<1>2. ASSUME NEW f, NEW n
      PROVE  AskedBy(Tail(q), f, n) = AskedBy(q, f, n) /\ (Once(q, f, n) => Once(Tail(q), f, n))
  <2>1. Asks(Head(q), f, n) = {} BY SilentAsks
  <2>2. AskedBy(q, f, n) = Asks(Head(q), f, n) \union AskedBy(Tail(q), f, n) BY AskedOfRest
  <2>3. Once(q, f, n) => Once(Tail(q), f, n) BY AskedOfRest
  <2>4. QED BY <2>1, <2>2, <2>3
<1>3. QED BY <1>1, <1>2 DEF Quiet

LEMMA QuietAppend ==
    ASSUME NEW S, NEW q \in Seq(S), NEW m \in S, Silent(m)
    PROVE  /\ Quiet(q, Append(q, m)) /\ Append(q, m) \in Seq(S)
           /\ Range(Append(q, m)) = Range(q) \union {m}
<1>1. Append(q, m) \in Seq(S) /\ Range(Append(q, m)) = Range(q) \union {m} BY AddOne
<1>2. ASSUME NEW f, NEW n
      PROVE  /\ AskedBy(Append(q, m), f, n) = AskedBy(q, f, n)
             /\ Once(q, f, n) => Once(Append(q, m), f, n)
  <2>1. Asks(m, f, n) = {} BY SilentAsks
  <2>2. AskedBy(Append(q, m), f, n) = AskedBy(q, f, n) \union Asks(m, f, n) BY AskedWithOne
  <2>3. Once(q, f, n) /\ AskedBy(q, f, n) \intersect Asks(m, f, n) = {} => Once(Append(q, m), f, n)
        BY AskedWithOne
  <2>4. QED BY <2>1, <2>2, <2>3
<1>3. QED BY <1>1, <1>2 DEF Quiet

LEMMA QueuesQuiet ==
    ASSUME SameData, nm'.jump = nm.jump, patches' = patches,
           snd.seqEnd # NoSeq => snd'.seqEnd # NoSeq,
           Quiet(n2c, n2c'), Quiet(up, up')
    PROVE  /\ Requests => Requests'
           /\ UnderWay => UnderWay'
           /\ ZeroFirst => ZeroFirst'
<1>1. NSeq' = NSeq BY SameSize DEF SameData
<1>2. Reported' = Reported /\ Coming' = Coming BY <1>1 DEF SameData, Reported, Coming
<1>3. Piped' = Piped /\ Sent' = Sent BY <1>1 DEF SameData, Piped, Sent, Quiet
<1>4. /\ \A m \in Range(n2c') : m \in Range(n2c) \/ Silent(m)
      /\ \A m \in Range(up') : m \in Range(up) \/ Silent(m)
      BY DEF Quiet
<1>5. Requests => Requests' BY <1>1, <1>4 DEF Requests, Silent
<1>6. UnderWay => UnderWay'
  <2>1. /\ Once(n2c, recv.seq_fst, NSeq) => Once(n2c', recv.seq_fst, NSeq)
        /\ Once(up, recv.seq_fst, NSeq) => Once(up', recv.seq_fst, NSeq)
        BY DEF Quiet
  <2>2. QED BY <1>1, <1>2, <1>3, <2>1, DataKept DEF SameData, UnderWay
<1>7. ZeroFirst => ZeroFirst'
  <2>1. ASSUME NEW m, Silent(m) PROVE ZeroIn(Asks(m, recv.seq_fst, NSeq), recv.seq_fst, recv.seq_tail)
        BY <2>1, SilentAsks DEF ZeroIn
  <2>2. QED BY <1>1, <1>2, <1>4, <2>1 DEF SameData, ZeroFirst
<1>8. QED BY <1>5, <1>6, <1>7

LEMMA Kinds ==
    /\ \A m \in Report : /\ m.type \in {"FIRST", "ZERO", "ALL", "JUMP"}
                         /\ m.type = "FIRST" => m.seq \in Nat
                         /\ m.type = "JUMP" => m.stt \in Nat /\ m.end \in Nat
    /\ \A m \in Message : /\ m.type \in {"FIRST_SEQ", "ALL_DONE", "PATCH_REQ"}
                          /\ m.type = "FIRST_SEQ" => m.seq \in Nat
                          /\ m.type = "PATCH_REQ" => m.stt \in Nat /\ m.end \in Nat
  BY DEF Report, Message

(* Completion the client is told of.                                       *)
LEMMA TellClient ==
    ASSUME Types, NEW x \in {"SEQ_ZERO", "SEQ_ALL"}
    PROVE  Append(c2i, x) \in Seq({"SEQ_ZERO", "SEQ_ALL"}) /\ Range(Append(c2i, x)) = Range(c2i) \union {x}
  BY AddOne DEF Types

-----------------------------------------------------------------------------
(* The data is complete.                                                   *)

LEMMA NetmapFinishStep ==
    ASSUME RInv, NetmapFinish
    PROVE  RInv'
<1> USE DEF RInv
<1>1. /\ dataSize' = dataSize /\ rc' = rc /\ n2c' = n2c /\ c2i' = c2i /\ snd' = snd /\ nic' = nic
      /\ up' = up /\ patches' = patches /\ requested' = requested
      /\ nm.pc = "finish" /\ nm' = [nm EXCEPT !.pc = "notify"] /\ Finish /\ crash = "no"
      BY DEF NetmapFinish, Running
<1>2. Written(recv) = SeqNums BY <1>1 DEF Finished
<1>3. /\ SameData /\ recv' \in Recver /\ recv'.lock = recv.lock
      /\ recv'.is_fastpath = recv.is_fastpath /\ recv'.is_finished /\ AllWritten'
      /\ crash' \in {"no", "finished"}
      BY <1>1, <1>2, FinishedOnce
<1>4. /\ nm' \in Thread /\ nm'.pc = "notify" /\ nm'.jump = nm.jump /\ nm'.seq = nm.seq
      /\ nm'.first = nm.first
      BY <1>1 DEF Types, Thread, Packets
<1>5. SeqNums' = SeqNums /\ NSeq' = NSeq /\ Recver' = Recver BY <1>1, SameSize
<1>6. SameMessages BY <1>1, <1>4 DEF SameMessages
<1>7. nm'.pc # "idle" /\ nm'.pc # "accept" /\ nm'.pc \in Packets /\ nm.pc \in Packets
      BY <1>1, <1>4 DEF Packets
<1>8. Types' BY <1>1, <1>3, <1>4, <1>5, <1>7 DEF Types, SameData
<1>9. recv.is_seq_fst /\ recv'.is_seq_fst = recv.is_seq_fst BY <1>3, <1>7 DEF Fresh, SameData
<1>10. Fresh' BY <1>9 DEF Fresh
<1>11. RestRequested' <=> RestRequested BY <1>1 DEF RestRequested
<1>12. Threads' BY <1>1, <1>3, <1>4, <1>7, <1>11, DataKept DEF Threads, SameData
<1>13. Shape' /\ CountsAreExact' BY <1>3, DataKept
<1>14. Requests' /\ UnderWay' /\ ZeroFirst' BY <1>3, <1>6, MessagesKept
<1>15. Firsts' BY <1>1, <1>3, <1>4, <1>5, <1>7 DEF Firsts, SameData
<1>16. Finished' BY <1>1, <1>2, <1>3, <1>4, <1>5, DataKept DEF Finished
<1>17. EveryLossRequested' BY <1>3, <1>11, KeepsRequested
<1>18. PatchesAreReady' BY <1>3 DEF PatchesAreReady
<1>19. QED BY <1>8, <1>10, <1>12, <1>13, <1>14, <1>15, <1>16, <1>17, <1>18

LEMMA RecvFinishStep ==
    ASSUME RInv, RecvFinish
    PROVE  RInv'
<1> USE DEF RInv
<1> DEFINE m == [type |-> "ALL_DONE"]
<1>1. /\ dataSize' = dataSize /\ nm' = nm /\ n2c' = n2c /\ snd' = snd /\ nic' = nic
      /\ patches' = patches /\ requested' = requested
      /\ rc = "finish" /\ rc' = "idle" /\ Finish /\ crash = "no"
      /\ c2i' = Append(c2i, "SEQ_ALL") /\ up' = Append(up, m)
      BY DEF RecvFinish, Running
<1>2. Written(recv) = SeqNums BY <1>1 DEF Finished
<1>3. /\ SameData /\ recv' \in Recver /\ recv'.lock = recv.lock
      /\ recv'.is_fastpath = recv.is_fastpath /\ recv'.is_finished /\ AllWritten'
      /\ crash' \in {"no", "finished"}
      BY <1>1, <1>2, FinishedOnce
<1>4. m \in Message /\ Silent(m) /\ m.type # "FIRST_SEQ" BY DEF Message, Silent
<1>5. up \in Seq(Message) BY DEF Types
<1>6. up' \in Seq(Message) /\ Range(up') = Range(up) \union {m} /\ Quiet(up, up')
  <2> HIDE DEF m
  <2>1. QED BY <1>1, <1>4, <1>5, QuietAppend
<1>7. c2i' \in Seq({"SEQ_ZERO", "SEQ_ALL"}) BY <1>1, TellClient
<1>8. SeqNums' = SeqNums /\ NSeq' = NSeq /\ Recver' = Recver BY <1>1, SameSize
<1>9. Types' BY <1>1, <1>3, <1>6, <1>7, <1>8 DEF Types, SameData
<1>10. recv.is_seq_fst /\ recv'.is_seq_fst = recv.is_seq_fst BY <1>1, <1>3 DEF Fresh, SameData
<1>11. Fresh' BY <1>10 DEF Fresh
<1>12. RestRequested' <=> RestRequested BY <1>1 DEF RestRequested
<1>13. Threads' BY <1>1, <1>3, <1>12, DataKept DEF Threads, SameData
<1>14. Shape' /\ CountsAreExact' BY <1>3, DataKept
<1>15. Requests' /\ UnderWay' /\ ZeroFirst' BY <1>1, <1>3, <1>6, QuietSame, QueuesQuiet
<1>16. Firsts'
  <2> HIDE DEF m
  <2>1. QED BY <1>1, <1>3, <1>4, <1>6, <1>8 DEF Firsts, SameData
<1>17. Finished' BY <1>1, <1>2, <1>3, <1>8, DataKept DEF Finished
<1>18. EveryLossRequested' BY <1>3, <1>12, KeepsRequested
<1>19. PatchesAreReady' BY <1>3 DEF PatchesAreReady
<1>20. QED BY <1>9, <1>11, <1>13, <1>14, <1>15, <1>16, <1>17, <1>18, <1>19


-----------------------------------------------------------------------------
(* The reports and the messages to the sender are read.                    *)

(* Nothing but queues and the sender moves.                                *)
LEMMA QueueStep ==
    ASSUME RInv, dataSize' = dataSize, recv' = recv, nm' = nm, rc' = rc, nic' = nic,
           requested' = requested, crash' = crash, patches' = patches,
           n2c' \in Seq(Report), up' \in Seq(Message), c2i' \in Seq({"SEQ_ZERO", "SEQ_ALL"}),
           snd' \in Stream, snd'.fast_done = snd.fast_done, recv.is_seq_fst,
           snd.seqEnd # NoSeq => snd'.seqEnd # NoSeq,
           Requests' /\ UnderWay' /\ ZeroFirst', Firsts', Told' => recv.is_finished
    PROVE  RInv'
<1> USE DEF RInv
<1>1. SameData BY SameRecver
<1>2. SeqNums' = SeqNums /\ NSeq' = NSeq /\ Recver' = Recver BY SameSize
<1>3. Types' BY <1>2 DEF Types
<1>4. Fresh' BY DEF Fresh
<1>5. RestRequested' <=> RestRequested BY DEF RestRequested
<1>6. Threads' BY <1>1, <1>5, DataKept DEF Threads
<1>7. Shape' /\ CountsAreExact' BY <1>1, DataKept
<1>8. Finished' BY <1>1, <1>2, DataKept DEF Finished, AllWritten
<1>9. EveryLossRequested' BY <1>1, <1>5, KeepsRequested
<1>10. PatchesAreReady' BY DEF PatchesAreReady
<1>11. QED BY <1>3, <1>4, <1>6, <1>7, <1>8, <1>9, <1>10

LEMMA ReportRead ==
    ASSUME Types, Fresh, n2c # <<>>, n2c' = Tail(n2c)
    PROVE  /\ Head(n2c) \in Report /\ n2c' \in Seq(Report) /\ recv.is_seq_fst
           /\ Range(n2c) = {Head(n2c)} \union Range(n2c')
           /\ Silent(Head(n2c)) => Quiet(n2c, n2c')
<1>1. n2c \in Seq(Report) BY DEF Types
<1>2. recv.is_seq_fst BY DEF Fresh
<1>3. Head(n2c) \in Report /\ n2c' \in Seq(Report) /\ Range(n2c) = {Head(n2c)} \union Range(n2c')
      BY <1>1, TakeOne
<1>4. Silent(Head(n2c)) => Quiet(n2c, n2c') BY <1>1, QuietTail
<1>5. QED BY <1>2, <1>3, <1>4

LEMMA MessageRead ==
    ASSUME Types, Fresh, up # <<>>, up' = Tail(up)
    PROVE  /\ Head(up) \in Message /\ up' \in Seq(Message) /\ recv.is_seq_fst
           /\ Range(up) = {Head(up)} \union Range(up')
           /\ Silent(Head(up)) => Quiet(up, up')
<1>1. up \in Seq(Message) BY DEF Types
<1>2. recv.is_seq_fst BY DEF Fresh
<1>3. Head(up) \in Message /\ up' \in Seq(Message) /\ Range(up) = {Head(up)} \union Range(up')
      BY <1>1, TakeOne
<1>4. Silent(Head(up)) => Quiet(up, up') BY <1>1, QuietTail
<1>5. QED BY <1>2, <1>3, <1>4

LEMMA MessageSent ==
    ASSUME Types, NEW m \in Message, up' = Append(up, m)
    PROVE  /\ up' \in Seq(Message) /\ Range(up') = Range(up) \union {m}
           /\ Silent(m) => Quiet(up, up')
<1>1. up \in Seq(Message) BY DEF Types
<1>2. up' \in Seq(Message) /\ Range(up') = Range(up) \union {m} BY <1>1, AddOne
<1>3. Silent(m) => Quiet(up, up') BY <1>1, QuietAppend
<1>4. QED BY <1>2, <1>3

LEMMA RecvFirstStep ==
    ASSUME RInv, RecvFirst
    PROVE  RInv'
<1> USE DEF RInv
<1> DEFINE h == Head(n2c)
           m == [type |-> "FIRST_SEQ", seq |-> h.seq]
<1>1. /\ dataSize' = dataSize /\ recv' = recv /\ nm' = nm /\ rc' = rc /\ nic' = nic
      /\ requested' = requested /\ crash' = crash /\ patches' = patches /\ snd' = snd
      /\ n2c # <<>> /\ n2c' = Tail(n2c) /\ h.type = "FIRST" /\ up' = Append(up, m)
      /\ c2i' = IF recv.seq_max = 1 THEN Append(c2i, "SEQ_ALL") ELSE c2i
      BY DEF RecvFirst, FromPipe
<1>2. h \in Report /\ Silent(h) /\ h.seq \in Nat BY <1>1, ReportRead, Kinds DEF Silent
<1>3. m \in Message /\ Silent(m) /\ m.type = "FIRST_SEQ" /\ m.seq = h.seq
      BY <1>2 DEF Message, Silent
<1>4. /\ n2c' \in Seq(Report) /\ Range(n2c) = {h} \union Range(n2c') /\ Quiet(n2c, n2c')
      /\ recv.is_seq_fst
      BY <1>1, <1>2, ReportRead
<1> HIDE DEF m
<1>5. up' \in Seq(Message) /\ Range(up') = Range(up) \union {m} /\ Quiet(up, up')
      BY <1>1, <1>3, MessageSent
<1> HIDE DEF h
<1>6. /\ c2i' \in Seq({"SEQ_ZERO", "SEQ_ALL"})
      /\ "SEQ_ALL" \in Range(c2i') => recv.seq_max = 1 \/ "SEQ_ALL" \in Range(c2i)
  <2>1. c2i \in Seq({"SEQ_ZERO", "SEQ_ALL"}) BY DEF Types
  <2>2. QED BY <1>1, <2>1, TellClient
<1>7. SameData /\ NSeq' = NSeq BY <1>1, SameRecver, SameSize
<1>8. Requests' /\ UnderWay' /\ ZeroFirst' BY <1>1, <1>4, <1>5, <1>7, QueuesQuiet
<1>9. Firsts' BY <1>1, <1>3, <1>4, <1>5, <1>7 DEF Firsts
<1>10. Told' => Told
  <2>1. NSeq = 1 => Tells(h) BY <1>1 DEF Tells
  <2>2. recv.seq_max = 1 => NSeq = 1 BY DEF Shape
  <2>3. Tells(m) => NSeq = 1 BY <1>3 DEF Tells
  <2>4. \A x \in Range(n2c') \union Range(up') : Tells(x)' => Told
    <3>1. \A x : Tells(x)' <=> Tells(x) BY <1>7 DEF Tells
    <3>2. h \in Range(n2c) BY <1>4
    <3>3. QED BY <1>4, <1>5, <2>1, <2>3, <3>1, <3>2 DEF Told
  <2>5. "SEQ_ALL" \in Range(c2i') => Told BY <1>4, <1>6, <2>1, <2>2 DEF Told
  <2>6. QED BY <1>1, <1>7, <2>4, <2>5 DEF Told
<1>11. Told' => recv.is_finished BY <1>10 DEF Finished
<1>12. QED BY <1>1, <1>4, <1>5, <1>6, <1>8, <1>9, <1>11, QueueStep DEF Types

LEMMA RecvZeroStep ==
    ASSUME RInv, RecvZero
    PROVE  RInv'
<1> USE DEF RInv
<1> DEFINE h == Head(n2c)
<1>1. /\ dataSize' = dataSize /\ recv' = recv /\ nm' = nm /\ rc' = rc /\ nic' = nic /\ up' = up
      /\ requested' = requested /\ crash' = crash /\ patches' = patches /\ snd' = snd
      /\ n2c # <<>> /\ n2c' = Tail(n2c) /\ h.type = "ZERO" /\ c2i' = Append(c2i, "SEQ_ZERO")
      BY DEF RecvZero, FromPipe
<1>2. h \in Report /\ Silent(h) BY <1>1, ReportRead DEF Silent
<1>3. /\ n2c' \in Seq(Report) /\ Range(n2c) = {h} \union Range(n2c') /\ Quiet(n2c, n2c')
      /\ recv.is_seq_fst
      BY <1>1, <1>2, ReportRead
<1> HIDE DEF h
<1>4. c2i' \in Seq({"SEQ_ZERO", "SEQ_ALL"}) /\ Range(c2i') = Range(c2i) \union {"SEQ_ZERO"}
      BY <1>1, TellClient
<1>5. SameData /\ NSeq' = NSeq BY <1>1, SameRecver, SameSize
<1>6. Requests' /\ UnderWay' /\ ZeroFirst' BY <1>1, <1>3, <1>5, QuietSame, QueuesQuiet
<1>7. Firsts' BY <1>1, <1>3, <1>5 DEF Firsts
<1>8. Told' => Told BY <1>1, <1>3, <1>4, <1>5 DEF Told, Tells
<1>9. Told' => recv.is_finished BY <1>8 DEF Finished
<1>10. QED BY <1>1, <1>3, <1>4, <1>6, <1>7, <1>9, QueueStep DEF Types

LEMMA RecvAllStep ==
    ASSUME RInv, RecvAll
    PROVE  RInv'
<1> USE DEF RInv
<1> DEFINE h == Head(n2c)
           m == [type |-> "ALL_DONE"]
<1>1. /\ dataSize' = dataSize /\ recv' = recv /\ nm' = nm /\ rc' = rc /\ nic' = nic
      /\ requested' = requested /\ crash' = crash /\ patches' = patches /\ snd' = snd
      /\ n2c # <<>> /\ n2c' = Tail(n2c) /\ h.type = "ALL" /\ c2i' = Append(c2i, "SEQ_ALL")
      /\ up' = Append(up, m)
      BY DEF RecvAll, FromPipe
<1>2. h \in Report /\ Silent(h) BY <1>1, ReportRead DEF Silent
<1>3. m \in Message /\ Silent(m) /\ m.type # "FIRST_SEQ" BY DEF Message, Silent
<1>4. /\ n2c' \in Seq(Report) /\ Range(n2c) = {h} \union Range(n2c') /\ Quiet(n2c, n2c')
      /\ recv.is_seq_fst
      BY <1>1, <1>2, ReportRead
<1> HIDE DEF m
<1>5. up' \in Seq(Message) /\ Range(up') = Range(up) \union {m} /\ Quiet(up, up')
      BY <1>1, <1>3, MessageSent
<1> HIDE DEF h
<1>6. c2i' \in Seq({"SEQ_ZERO", "SEQ_ALL"}) BY <1>1, TellClient
<1>7. SameData /\ NSeq' = NSeq BY <1>1, SameRecver, SameSize
<1>8. Requests' /\ UnderWay' /\ ZeroFirst' BY <1>1, <1>4, <1>5, <1>7, QueuesQuiet
<1>9. Firsts' BY <1>1, <1>3, <1>4, <1>5, <1>7 DEF Firsts
<1>10. Told BY <1>1, <1>4 DEF Told, Tells
<1>11. recv.is_finished BY <1>10 DEF Finished
<1>12. QED BY <1>1, <1>4, <1>5, <1>6, <1>8, <1>9, <1>11, QueueStep DEF Types

LEMMA SenderFirstSeqStep ==
    ASSUME RInv, SenderFirstSeq
    PROVE  RInv'
<1> USE DEF RInv
<1> DEFINE h == Head(up)
           cur == snd.seq_cur
           f == h.seq
           round == IF f >= cur % NSeq THEN cur \div NSeq ELSE cur \div NSeq + 1
           done == IF NSeq = 1 THEN snd.all_done + 1 ELSE snd.all_done
<1>1. /\ dataSize' = dataSize /\ recv' = recv /\ nm' = nm /\ rc' = rc /\ nic' = nic /\ n2c' = n2c
      /\ requested' = requested /\ crash' = crash /\ patches' = patches /\ c2i' = c2i
      /\ up # <<>> /\ up' = Tail(up) /\ h.type = "FIRST_SEQ"
      /\ snd' = [snd EXCEPT !.seqEnd = round * NSeq + f, !.all_done = done]
      BY DEF SenderFirstSeq
<1>2. h \in Message /\ Silent(h) BY <1>1, MessageRead DEF Silent
<1>3. /\ up' \in Seq(Message) /\ Range(up) = {h} \union Range(up') /\ Quiet(up, up')
      /\ recv.is_seq_fst
      BY <1>1, <1>2, MessageRead
<1>4. f = recv.seq_fst BY <1>1, <1>3 DEF Firsts
<1>5. NSeq \in Nat \ {0} /\ f \in 0 .. NSeq - 1 /\ cur \in Nat /\ snd \in Stream /\ snd.all_done \in Nat
      BY <1>4, WholePackets DEF Types, Stream
<1> HIDE DEF f, cur, h
<1>6. round \in Nat
  <2>1. cur \div NSeq \in Nat BY <1>5, DivMod
  <2>2. QED BY <2>1
<1> HIDE DEF round
<1>7. round * NSeq + f \in Nat /\ (round * NSeq + f) % NSeq = f BY <1>5, <1>6, ModOf
<1> DEFINE e == round * NSeq + f
<1> HIDE DEF e
<1>8. e \in Nat /\ e % NSeq = f /\ e # NoSeq /\ snd' = [snd EXCEPT !.seqEnd = e, !.all_done = done]
      BY <1>1, <1>7 DEF e, NoSeq
<1>9. /\ snd' \in Stream /\ snd'.seqEnd = e /\ snd'.fast_done = snd.fast_done
      /\ snd'.all_done = done
  <2>1. done \in Nat BY <1>5
  <2> HIDE DEF done
  <2>2. QED BY <1>5, <1>8, <2>1 DEF Stream
<1>10. SameData /\ NSeq' = NSeq BY <1>1, SameRecver, SameSize
<1>11. Requests' /\ UnderWay' /\ ZeroFirst'
       BY <1>1, <1>3, <1>8, <1>9, <1>10, QuietSame, QueuesQuiet
<1>12. Firsts' BY <1>1, <1>3, <1>4, <1>8, <1>9, <1>10 DEF Firsts
<1>13. Told' => Told
  <2>1. NSeq = 1 => Told BY <1>1, <1>3 DEF Told, Tells
  <2>2. snd'.all_done > 0 => snd.all_done > 0 \/ NSeq = 1 BY <1>9
  <2>3. QED BY <1>1, <1>3, <1>10, <2>1, <2>2 DEF Told, Tells
<1>14. Told' => recv.is_finished BY <1>13 DEF Finished
<1>15. QED BY <1>1, <1>3, <1>8, <1>9, <1>11, <1>12, <1>14, QueueStep DEF Types

LEMMA SenderAllDoneStep ==
    ASSUME RInv, SenderAllDone
    PROVE  RInv'
<1> USE DEF RInv
<1> DEFINE h == Head(up)
<1>1. /\ dataSize' = dataSize /\ recv' = recv /\ nm' = nm /\ rc' = rc /\ nic' = nic /\ n2c' = n2c
      /\ requested' = requested /\ crash' = crash /\ patches' = patches /\ c2i' = c2i
      /\ up # <<>> /\ up' = Tail(up) /\ h.type = "ALL_DONE"
      /\ snd' = [snd EXCEPT !.all_done = snd.all_done + 1]
      BY DEF SenderAllDone
<1>2. h \in Message /\ Silent(h) BY <1>1, MessageRead DEF Silent
<1>3. /\ up' \in Seq(Message) /\ Range(up) = {h} \union Range(up') /\ Quiet(up, up')
      /\ recv.is_seq_fst
      BY <1>1, <1>2, MessageRead
<1> HIDE DEF h
<1>4. snd' \in Stream /\ snd'.seqEnd = snd.seqEnd /\ snd'.fast_done = snd.fast_done
  <2>1. snd \in Stream BY DEF Types
  <2>2. QED BY <1>1, <2>1 DEF Stream
<1>5. SameData /\ NSeq' = NSeq BY <1>1, SameRecver, SameSize
<1>6. Requests' /\ UnderWay' /\ ZeroFirst' BY <1>1, <1>3, <1>4, <1>5, QuietSame, QueuesQuiet
<1>7. Firsts' BY <1>1, <1>3, <1>4, <1>5 DEF Firsts
<1>8. Told BY <1>1, <1>3 DEF Told, Tells
<1>9. recv.is_finished BY <1>8 DEF Finished
<1>10. QED BY <1>1, <1>3, <1>4, <1>6, <1>7, <1>9, QueueStep DEF Types

-----------------------------------------------------------------------------
(* A request on its way: reported, sent, resolved into patches.            *)

LEMMA RecvJumpStep ==
    ASSUME RInv, RecvJump
    PROVE  RInv'
<1> USE DEF RInv
<1> DEFINE h == Head(n2c)
           m == [type |-> "PATCH_REQ", stt |-> h.stt, end |-> h.end]
           f == recv.seq_fst
           n == NSeq
<1>1. /\ dataSize' = dataSize /\ recv' = recv /\ nm' = nm /\ rc' = rc /\ nic' = nic
      /\ requested' = requested /\ crash' = crash /\ patches' = patches /\ snd' = snd
      /\ c2i' = c2i /\ n2c # <<>> /\ n2c' = Tail(n2c) /\ h.type = "JUMP" /\ up' = Append(up, m)
      BY DEF RecvJump, FromPipe
<1>2. /\ h \in Report /\ n2c' \in Seq(Report) /\ Range(n2c) = {h} \union Range(n2c')
      /\ recv.is_seq_fst
      BY <1>1, ReportRead
<1>3. h.stt \in Nat /\ h.end \in Nat BY <1>1, <1>2, Kinds
<1>4. m \in Message /\ m.type = "PATCH_REQ" /\ m.stt = h.stt /\ m.end = h.end
      BY <1>3 DEF Message
<1>5. Asks(m, f, n) = Asks(h, f, n) BY <1>1, <1>4 DEF Asks
<1>6. h.stt \in 1 .. NSeq /\ h.end \in 1 .. NSeq BY <1>1, <1>2 DEF Requests
<1>7. h.end \in (0 .. NSeq) \union {SEQ2WARDTHEEND} /\ h.end # SEQ2WARDTHEEND
  <2>1. NSeq \in Nat \ {0} /\ NSeq < SEQNUM_MAX /\ SEQNUM_MAX \in Nat BY WholePackets DEF Types
  <2>2. QED BY <1>6, <2>1 DEF SEQ2WARDTHEEND
<1> HIDE DEF m
<1>8. up' \in Seq(Message) /\ Range(up') = Range(up) \union {m} BY <1>1, <1>4, MessageSent
<1>9. /\ Sent = AskedBy(up, f, n) /\ Piped = AskedBy(n2c, f, n)
      /\ Once(n2c, f, n) /\ Once(up, f, n)
      BY DEF Sent, Piped, UnderWay
<1>10. SameData /\ NSeq' = NSeq BY <1>1, SameRecver, SameSize
<1>11. Sent' = AskedBy(up', f, n) /\ Piped' = AskedBy(n2c', f, n) BY <1>1, <1>10 DEF Sent, Piped
<1>12. Reported' = Reported /\ Coming' = Coming BY <1>1, <1>10 DEF Reported, Coming
<1> HIDE DEF f, n
<1>13. /\ Piped = Asks(h, f, n) \union Piped' /\ Asks(h, f, n) \intersect Piped' = {}
       /\ Once(n2c', f, n)
  <2>1. n2c \in Seq(Report) BY DEF Types
  <2>2. QED BY <1>1, <1>9, <1>11, <2>1, AskedOfRest
<1> HIDE DEF h
<1>14. /\ Sent' = Sent \union Asks(h, f, n)
       /\ Sent \intersect Asks(h, f, n) = {} => Once(up', f, n)
  <2>1. up \in Seq(Message) BY DEF Types
  <2>2. QED BY <1>1, <1>4, <1>5, <1>9, <1>11, <2>1, AskedWithOne
<1>15. Requests' BY <1>1, <1>2, <1>4, <1>6, <1>7, <1>8, <1>10 DEF Requests
<1>16. UnderWay'
  <2>1. Sent \intersect Piped = {} BY DEF UnderWay, Apart
  <2>2. Once(up', f, n) BY <1>13, <1>14, <2>1
  <2>3. Once(n2c, recv.seq_fst, NSeq)' /\ Once(up, recv.seq_fst, NSeq)'
        BY <1>1, <1>10, <1>13, <2>2 DEF f, n
  <2>4. Reported' \union Piped' \union Sent' \union Coming' \subseteq requested \ Written(recv)
        BY <1>12, <1>13, <1>14 DEF UnderWay
  <2>5. Apart(Reported', Piped', Sent', Coming') BY <1>12, <1>13, <1>14 DEF UnderWay, Apart
  <2>6. QED BY <1>1, <1>10, <2>3, <2>4, <2>5, DataKept DEF UnderWay
<1>17. ZeroFirst'
  <2>1. ~recv.is_seq_zero => ZeroIn(Asks(m, recv.seq_fst, NSeq), recv.seq_fst, recv.seq_tail)
    <3>1. h \in Range(n2c) BY <1>2
    <3>2. QED BY <1>5, <3>1 DEF ZeroFirst, f, n
  <2>2. QED BY <1>1, <1>2, <1>8, <1>10, <1>12, <2>1 DEF ZeroFirst
<1>18. Firsts' BY <1>1, <1>2, <1>4, <1>8, <1>10 DEF Firsts
<1>19. Told' => Told
  <2>1. ~Tells(m) BY <1>4 DEF Tells
  <2>2. \A x : Tells(x)' <=> Tells(x) BY <1>10 DEF Tells
  <2>3. QED BY <1>1, <1>2, <1>8, <1>10, <2>1, <2>2 DEF Told
<1>20. Told' => recv.is_finished BY <1>19 DEF Finished
<1>21. QED BY <1>1, <1>2, <1>8, <1>15, <1>16, <1>17, <1>18, <1>20, QueueStep DEF Types

(* Patches without repetitions, the zero packet first when it is needed.   *)
LEMMA SenderPatchReqStep ==
    ASSUME RInv, SenderPatchReq
    PROVE  RInv'
<1> USE DEF RInv
<1> DEFINE h == Head(up)
           q == PatchSeqs(h.stt, h.end, snd.seqEnd, NSeq)
           f == recv.seq_fst
           n == NSeq
<1>1. /\ dataSize' = dataSize /\ recv' = recv /\ nm' = nm /\ rc' = rc /\ nic' = nic
      /\ requested' = requested /\ crash' = crash /\ n2c' = n2c /\ snd' = snd
      /\ c2i' = c2i /\ up # <<>> /\ up' = Tail(up) /\ h.type = "PATCH_REQ"
      /\ patches' = patches \o q
      BY DEF SenderPatchReq
<1>2. /\ h \in Message /\ up' \in Seq(Message) /\ Range(up) = {h} \union Range(up')
      /\ recv.is_seq_fst
      BY <1>1, MessageRead
<1>3. /\ h.stt \in 1 .. NSeq /\ h.end \in (0 .. NSeq) \union {SEQ2WARDTHEEND}
      /\ h.end = SEQ2WARDTHEEND => snd.seqEnd # NoSeq
      BY <1>1, <1>2 DEF Requests
<1>4. /\ NSeq \in Nat \ {0} /\ NSeq < SEQNUM_MAX /\ SEQNUM_MAX \in Nat
      /\ SeqNums = 0 .. (NSeq - 1)
      BY WholePackets DEF Types
<1>5. snd.seqEnd # NoSeq => snd.seqEnd \in Nat /\ snd.seqEnd % NSeq = f
      BY DEF Types, Stream, Firsts
<1>6. /\ q \in Seq(SeqNums) /\ \A i, j \in 1 .. Len(q) : q[i] = q[j] => i = j
      /\ {q[i] : i \in 1 .. Len(q)} = Within(h.stt, h.end, snd.seqEnd % NSeq, NSeq)
      /\ \A i \in 1 .. Len(q) : q[i] = 0 => i = 1
      BY <1>3, <1>4, <1>5, PatchSeqsAre
<1>7. Within(h.stt, h.end, snd.seqEnd % NSeq, NSeq) = Asks(h, f, n)
  <2>1. CASE h.end = SEQ2WARDTHEEND BY <1>1, <1>3, <1>5, <2>1 DEF Asks
  <2>2. CASE h.end # SEQ2WARDTHEEND BY <1>1, <2>2 DEF Asks, Within
  <2>3. QED BY <2>1, <2>2
<1> HIDE DEF q
<1>8. DOMAIN q = 1 .. Len(q) /\ Range(q) = Asks(h, f, n)
  <2>1. q \in Seq(SeqNums) BY <1>6
  <2>2. DOMAIN q = 1 .. Len(q) BY <2>1, LenProperties
  <2>3. Range(q) = {q[i] : i \in 1 .. Len(q)} BY <2>1, RangeEquality
  <2>4. QED BY <1>6, <1>7, <2>2, <2>3
<1> DEFINE l == Len(patches)
<1>9. /\ patches' \in Seq(SeqNums) /\ DOMAIN patches' = 1 .. l + Len(q)
      /\ l \in Nat /\ Len(q) \in Nat /\ DOMAIN patches = 1 .. l
      /\ \A i \in 1 .. l + Len(q) :
             IF i <= l THEN i \in DOMAIN patches /\ patches'[i] = patches[i]
             ELSE i - l \in DOMAIN q /\ patches'[i] = q[i - l]
      /\ Range(patches') = Range(patches) \union Range(q)
  <2> DEFINE S == SeqNums
  <2>1. patches \in Seq(S) /\ q \in Seq(S) BY <1>6 DEF Types
  <2> HIDE DEF S
  <2>2. /\ patches \o q \in Seq(S) /\ DOMAIN (patches \o q) = 1 .. Len(patches) + Len(q)
        /\ Len(patches) \in Nat /\ Len(q) \in Nat
        /\ \A i \in 1 .. Len(patches) + Len(q) :
                  IF i <= Len(patches) THEN i \in DOMAIN patches /\ (patches \o q)[i] = patches[i]
                  ELSE i - Len(patches) \in DOMAIN q /\ (patches \o q)[i] = q[i - Len(patches)]
        /\ Range(patches \o q) = Range(patches) \union Range(q)
        BY <2>1, JoinTwo
  <2>3. DOMAIN patches = 1 .. Len(patches) BY <2>1, ByIndex
  <2>4. QED BY <1>1, <2>2, <2>3 DEF S
<1> HIDE DEF l
<1>10. SameData /\ NSeq' = NSeq /\ SeqNums' = SeqNums BY <1>1, SameRecver, SameSize
<1>11. Reported' = Reported /\ Piped' = Piped BY <1>1, <1>10 DEF Reported, Piped
<1>12. Coming' = Coming \union Asks(h, f, n) BY <1>8, <1>9 DEF Coming
<1>13. /\ Sent = Asks(h, f, n) \union Sent' /\ Asks(h, f, n) \intersect Sent' = {}
       /\ Once(up', f, n)
  <2>1. up \in Seq(Message) /\ Once(up, f, n) BY DEF Types, UnderWay
  <2>2. Sent = AskedBy(up, f, n) /\ Sent' = AskedBy(up', f, n) BY <1>1, <1>10 DEF Sent
  <2> HIDE DEF f, n
  <2>3. QED BY <1>1, <2>1, <2>2, AskedOfRest
<1>14. Types' BY <1>1, <1>2, <1>9, <1>10, SameSize DEF Types
<1>15. Fresh' BY <1>1, <1>2 DEF Fresh
<1>16. RestRequested' <=> RestRequested BY <1>1 DEF RestRequested
<1>17. Threads' BY <1>1, <1>10, <1>16, DataKept DEF Threads
<1>18. Shape' /\ CountsAreExact' BY <1>10, DataKept
<1>19. Requests' BY <1>1, <1>2, <1>10 DEF Requests
<1>20. UnderWay'
  <2>1. Once(n2c, recv.seq_fst, NSeq)' /\ Once(up, recv.seq_fst, NSeq)'
        BY <1>1, <1>10, <1>13 DEF UnderWay
  <2> HIDE DEF f, n
  <2>2. Reported' \union Piped' \union Sent' \union Coming' \subseteq requested \ Written(recv)
        BY <1>11, <1>12, <1>13 DEF UnderWay
  <2>3. Apart(Reported', Piped', Sent', Coming') BY <1>11, <1>12, <1>13 DEF UnderWay, Apart
  <2>4. \A i, j \in DOMAIN patches' : patches'[i] = patches'[j] => i = j
    <3>1. \A i \in DOMAIN patches, j \in DOMAIN q : patches[i] # q[j]
      <4>1. patches \in Seq(SeqNums) BY DEF Types
      <4>2. \A i \in DOMAIN patches : patches[i] \in Coming BY <4>1, ByIndex DEF Coming
      <4>3. \A j \in DOMAIN q : q[j] \in Asks(h, f, n) BY <1>6, <1>8, ByIndex
      <4>4. Coming \intersect Asks(h, f, n) = {} BY <1>13 DEF UnderWay, Apart
      <4>5. QED BY <4>2, <4>3, <4>4
    <3>2. \A i, j \in DOMAIN patches : patches[i] = patches[j] => i = j BY DEF UnderWay
    <3>3. \A i, j \in DOMAIN q : q[i] = q[j] => i = j BY <1>6, <1>8
    <3> SUFFICES ASSUME NEW i \in 1 .. l + Len(q), NEW j \in 1 .. l + Len(q),
                        patches'[i] = patches'[j]
                 PROVE  i = j
        BY <1>9
    <3>4. CASE i <= l /\ j <= l BY <1>9, <3>2, <3>4
    <3>5. CASE i <= l /\ ~(j <= l) BY <1>9, <3>1, <3>5
    <3>6. CASE ~(i <= l) /\ j <= l BY <1>9, <3>1, <3>6
    <3>7. CASE ~(i <= l) /\ ~(j <= l)
      <4>1. i - l \in DOMAIN q /\ j - l \in DOMAIN q /\ q[i - l] = q[j - l] BY <1>9, <3>7
      <4>2. i - l = j - l BY <3>3, <4>1
      <4>3. QED BY <1>9, <4>2
    <3>8. QED BY <3>4, <3>5, <3>6, <3>7
  <2>5. QED BY <1>1, <1>10, <2>1, <2>2, <2>3, <2>4, DataKept DEF UnderWay
<1>21. ZeroFirst'
  <2>1. ASSUME ~recv.is_seq_zero, NEW j \in DOMAIN patches',
               NeedsZero(patches'[j], recv.seq_fst, recv.seq_tail)
        PROVE  \E i \in 1 .. j : patches'[i] = 0
    <3>1. CASE j <= l
      <4>1. j \in DOMAIN patches /\ patches'[j] = patches[j] BY <1>9, <3>1
      <4>2. PICK i \in 1 .. j : patches[i] = 0 BY <2>1, <4>1 DEF ZeroFirst
      <4>3. i \in 1 .. l + Len(q) /\ i <= l BY <1>9, <3>1, <4>1, <4>2
      <4>4. patches'[i] = patches[i] BY <1>9, <4>3
      <4>5. QED BY <4>2, <4>4
    <3>2. CASE ~(j <= l)
      <4>1. j - l \in DOMAIN q /\ patches'[j] = q[j - l] /\ j \in 1 .. l + Len(q) BY <1>9, <3>2
      <4>2. q[j - l] \in Asks(h, f, n) BY <1>6, <1>8, <4>1, ByIndex
      <4>3. ZeroIn(Asks(h, recv.seq_fst, NSeq), recv.seq_fst, recv.seq_tail)
        <5>1. h \in Range(n2c) \union Range(up) BY <1>2
        <5>2. QED BY <2>1, <5>1 DEF ZeroFirst
      <4>4. 0 \in Asks(h, f, n) BY <2>1, <4>1, <4>2, <4>3 DEF ZeroIn
      <4>5. PICK i \in DOMAIN q : q[i] = 0 BY <1>6, <1>8, <4>4, ByIndex
      <4>6. i = 1 BY <1>6, <1>8, <4>5
      <4>7. l + 1 \in 1 .. l + Len(q) /\ ~(l + 1 <= l) /\ l + 1 - l = 1
            BY <1>8, <1>9, <4>5, <4>6
      <4>8. patches'[l + 1] = q[l + 1 - l] BY <1>9, <4>7
      <4>9. patches'[l + 1] = 0 /\ l + 1 \in 1 .. j
            BY <1>9, <3>2, <4>1, <4>5, <4>6, <4>7, <4>8
      <4>10. QED BY <4>9
    <3>3. QED BY <3>1, <3>2
  <2>2. QED BY <1>1, <1>2, <1>10, <1>11, <2>1 DEF ZeroFirst
<1>22. Firsts' BY <1>1, <1>2, <1>10 DEF Firsts
<1>23. Finished'
  <2>1. Told' => Told BY <1>1, <1>2, <1>10 DEF Told, Tells
  <2>2. QED BY <1>1, <1>10, <2>1, DataKept DEF Finished, AllWritten
<1>24. EveryLossRequested' BY <1>10, <1>16, KeepsRequested
<1>25. PatchesAreReady' BY <1>1 DEF PatchesAreReady
<1>26. QED BY <1>14, <1>15, <1>17, <1>18, <1>19, <1>20, <1>21, <1>22, <1>23, <1>24, <1>25

(* The reports of one packet: only the loss asks for anything.             *)
LEMMA ReportsAre ==
    ASSUME RInv, nm.pc = "notify", NEW f, NEW n
    PROVE  /\ Reports \in Seq(Report) /\ AskedBy(Reports, f, n) = NotedBy(nm.jump, f, n)
           /\ Once(Reports, f, n)
           /\ \A m \in Range(Reports) :
                  /\ m.type = "FIRST" => nm.first /\ m.seq = nm.seq
                  /\ m.type = "ALL" => nm.all
                  /\ m.type = "JUMP" => nm.jump # <<>> /\ m.stt = nm.jump[1] /\ m.end = nm.jump[2]
<1> USE DEF RInv
<1> DEFINE a == IF nm.first THEN <<[type |-> "FIRST", seq |-> nm.seq]>> ELSE <<>>
           b == IF nm.zero /\ recv.seq_max > 1 THEN <<[type |-> "ZERO"]>> ELSE <<>>
           c == IF nm.all /\ recv.seq_max > 1 THEN <<[type |-> "ALL"]>> ELSE <<>>
           d == IF nm.jump # <<>>
                THEN <<[type |-> "JUMP", stt |-> nm.jump[1], end |-> nm.jump[2]]>> ELSE <<>>
           Good(q) == /\ q \in Seq(Report) /\ Once(q, f, n)
                      /\ \A m \in Range(q) :
                            /\ m.type = "FIRST" => nm.first /\ m.seq = nm.seq
                            /\ m.type = "ALL" => nm.all
                            /\ m.type = "JUMP" => /\ nm.jump # <<>>
                                                  /\ m.stt = nm.jump[1] /\ m.end = nm.jump[2]
           A(q) == AskedBy(q, f, n)
<1>1. ASSUME NEW p, NEW q, Good(p), Good(q), A(p) = {}
      PROVE  Good(p \o q) /\ A(p \o q) = A(q)
  <2>1. p \in Seq(Report) /\ q \in Seq(Report) BY <1>1
  <2>2. p \o q \in Seq(Report) /\ Range(p \o q) = Range(p) \union Range(q) BY <2>1, JoinTwo
  <2>3. AskedBy(p \o q, f, n) = AskedBy(p, f, n) \union AskedBy(q, f, n) BY <2>1, AskedOfTwo
  <2>4. Once(p \o q, f, n) BY <1>1, <2>1, AskedOfTwo
  <2>5. QED BY <1>1, <2>2, <2>3, <2>4
<1>2. Good(<<>>) /\ A(<<>>) = {} BY NoMessage, AskedOfNone
<1>3. ASSUME NEW m \in Report
      PROVE  <<m>> \in Seq(Report) /\ Range(<<m>>) = {m} /\ Once(<<m>>, f, n) /\ A(<<m>>) = Asks(m, f, n)
      BY OneMessage, AskedOfOne
<1>4. Good(a) /\ A(a) = {}
  <2>1. CASE nm.first
    <3> DEFINE m == [type |-> "FIRST", seq |-> nm.seq]
    <3>1. nm.seq \in Nat BY WholePackets DEF Types, Packets
    <3>2. m \in Report /\ m.type = "FIRST" /\ m.seq = nm.seq BY <3>1 DEF Report
    <3>3. Silent(m) BY <3>2 DEF Silent
    <3>4. a = <<m>> BY <2>1
    <3> HIDE DEF m, a
    <3>5. QED BY <1>3, <2>1, <3>2, <3>3, <3>4, SilentAsks
  <2>2. CASE ~nm.first
    <3>1. a = <<>> BY <2>2
    <3>2. QED BY <1>2, <3>1
  <2>3. QED BY <2>1, <2>2
<1>5. Good(b) /\ A(b) = {}
  <2>1. CASE nm.zero /\ recv.seq_max > 1
    <3> DEFINE m == [type |-> "ZERO"]
    <3>1. m \in Report /\ m.type = "ZERO" BY DEF Report
    <3>2. Silent(m) BY <3>1 DEF Silent
    <3>3. b = <<m>> BY <2>1
    <3> HIDE DEF m, b
    <3>4. QED BY <1>3, <2>1, <3>1, <3>2, <3>3, SilentAsks
  <2>2. CASE ~(nm.zero /\ recv.seq_max > 1)
    <3>1. b = <<>> BY <2>2
    <3>2. QED BY <1>2, <3>1
  <2>3. QED BY <2>1, <2>2
<1>6. Good(c) /\ A(c) = {}
  <2>1. CASE nm.all /\ recv.seq_max > 1
    <3> DEFINE m == [type |-> "ALL"]
    <3>1. m \in Report /\ m.type = "ALL" BY DEF Report
    <3>2. Silent(m) BY <3>1 DEF Silent
    <3>3. c = <<m>> BY <2>1
    <3> HIDE DEF m, c
    <3>4. QED BY <1>3, <2>1, <3>1, <3>2, <3>3, SilentAsks
  <2>2. CASE ~(nm.all /\ recv.seq_max > 1)
    <3>1. c = <<>> BY <2>2
    <3>2. QED BY <1>2, <3>1
  <2>3. QED BY <2>1, <2>2
<1>7. Good(d) /\ A(d) = NotedBy(nm.jump, f, n)
  <2>1. CASE nm.jump # <<>>
    <3> DEFINE m == [type |-> "JUMP", stt |-> nm.jump[1], end |-> nm.jump[2]]
    <3>1. nm.jump[1] \in Nat /\ nm.jump[2] \in Nat
      <4>1. nm.jump \in Nat \X Nat BY <2>1 DEF Types, Thread, Tuple
      <4>2. QED BY <4>1
    <3>2. m \in Report /\ m.type = "JUMP" /\ m.stt = nm.jump[1] /\ m.end = nm.jump[2]
          BY <3>1 DEF Report
    <3>3. Asks(m, f, n) = NotedBy(nm.jump, f, n) BY <2>1, <3>2 DEF Asks, NotedBy
    <3>4. d = <<m>> BY <2>1
    <3> HIDE DEF m, d
    <3>5. QED BY <1>3, <2>1, <3>2, <3>3, <3>4
  <2>2. CASE nm.jump = <<>>
    <3>1. d = <<>> BY <2>2
    <3>2. NotedBy(nm.jump, f, n) = {} BY <2>2 DEF NotedBy
    <3>3. QED BY <1>2, <3>1, <3>2
  <2>3. QED BY <2>1, <2>2
<1>8. Reports = ((a \o b) \o c) \o d BY DEF Reports
<1> HIDE DEF a, b, c, d, Good, A
<1>9. Good(a \o b) /\ A(a \o b) = {} BY <1>1, <1>4, <1>5
<1>10. Good((a \o b) \o c) /\ A((a \o b) \o c) = {} BY <1>1, <1>6, <1>9
<1>11. Good(((a \o b) \o c) \o d) /\ A(((a \o b) \o c) \o d) = NotedBy(nm.jump, f, n)
       BY <1>1, <1>7, <1>10
<1>12. QED BY <1>8, <1>11 DEF Good, A

LEMMA NetmapNotifyStep ==
    ASSUME RInv, NetmapNotify
    PROVE  RInv'
<1> USE DEF RInv
<1> DEFINE f == recv.seq_fst
           n == NSeq
           q == Reports
<1>1. /\ dataSize' = dataSize /\ rc' = rc /\ nic' = nic /\ c2i' = c2i /\ up' = up /\ snd' = snd
      /\ patches' = patches /\ requested' = requested /\ crash' = crash
      /\ nm.pc = "notify" /\ nm' = NmIdle /\ n2c' = n2c \o q
      /\ recv' = [recv EXCEPT !.lock = FALSE]
      BY DEF NetmapNotify
<1>2. /\ recv \in Recver /\ recv.lock \in BOOLEAN /\ recv.is_fastpath \in BOOLEAN /\ recv.jump \in Int
      BY DEF Types, Recver
<1>3. recv.is_seq_fst BY <1>1 DEF Fresh, Packets
<1>4. /\ nm' \in Thread /\ nm'.pc = "idle" /\ nm'.jump = <<>> /\ nm'.pc # "accept"
      /\ nm'.pc \notin Packets
      BY <1>1 DEF NmIdle, Thread, Packets, NoSeq, Tuple
<1>5. /\ SameData /\ recv' \in Recver /\ recv'.lock = FALSE /\ recv'.is_fastpath = recv.is_fastpath
      /\ recv'.file = recv.file /\ recv'.is_finished = recv.is_finished
      /\ AllWritten' = AllWritten
  <2>1. recv' = [recv EXCEPT !.lock = FALSE, !.is_fastpath = recv.is_fastpath] BY <1>1, <1>2 DEF Recver
  <2>2. recv' = [recv EXCEPT !.lock = FALSE, !.is_fastpath = recv.is_fastpath, !.jump = recv.jump]
        BY <2>1, FlagsOnly
  <2>3. QED BY <1>1, <1>2, <2>2, OnlyFlags
<1>6. SeqNums' = SeqNums /\ NSeq' = NSeq /\ Recver' = Recver BY <1>1, SameSize
<1>7. /\ q \in Seq(Report) /\ AskedBy(q, f, n) = Reported /\ Once(q, f, n)
      /\ \A m \in Range(q) :
             /\ m.type = "FIRST" => nm.first /\ m.seq = nm.seq
             /\ m.type = "ALL" => nm.all
             /\ m.type = "JUMP" => nm.jump # <<>> /\ m.stt = nm.jump[1] /\ m.end = nm.jump[2]
      BY <1>1, ReportsAre DEF Reported
<1> HIDE DEF q
<1>8. n2c \in Seq(Report) /\ n2c' \in Seq(Report) /\ Range(n2c') = Range(n2c) \union Range(q)
      BY <1>1, <1>7, JoinTwo DEF Types
<1>9. Types' BY <1>1, <1>4, <1>5, <1>6, <1>8 DEF Types, SameData
<1>10. Fresh' BY <1>3, <1>5 DEF Fresh, SameData
<1>11. RestRequested' <=> RestRequested BY <1>1 DEF RestRequested
<1>12. Threads' BY <1>1, <1>4, <1>5, <1>11, DataKept DEF Threads, SameData
<1>13. Shape' /\ CountsAreExact' BY <1>5, DataKept
<1>14. /\ Piped = AskedBy(n2c, f, n) /\ Once(n2c, f, n) /\ Piped' = AskedBy(n2c', f, n)
       /\ Sent' = Sent /\ Coming' = Coming /\ Reported' = {}
       BY <1>1, <1>4, <1>5, <1>6 DEF Piped, Sent, Coming, Reported, NotedBy, UnderWay, SameData
<1>15. Piped' = Piped \union Reported /\ Once(n2c', f, n)
  <2> HIDE DEF f, n
  <2>1. Piped \intersect Reported = {} BY DEF UnderWay, Apart
  <2>2. AskedBy(n2c \o q, f, n) = AskedBy(n2c, f, n) \union AskedBy(q, f, n)
        BY <1>7, <1>8, AskedOfTwo
  <2>3. Once(n2c \o q, f, n) BY <1>7, <1>8, <1>14, <2>1, AskedOfTwo
  <2>4. QED BY <1>1, <1>7, <1>14, <2>2, <2>3
<1>16. Requests' BY <1>1, <1>4, <1>6, <1>7, <1>8 DEF Requests
<1>17. UnderWay'
  <2>1. Once(n2c, recv.seq_fst, NSeq)' /\ Once(up, recv.seq_fst, NSeq)'
        BY <1>1, <1>5, <1>6, <1>15 DEF UnderWay, SameData
  <2> HIDE DEF f, n
  <2>2. Reported' \union Piped' \union Sent' \union Coming' \subseteq requested \ Written(recv)
        BY <1>14, <1>15 DEF UnderWay
  <2>3. Apart(Reported', Piped', Sent', Coming') BY <1>14, <1>15 DEF UnderWay, Apart
  <2>4. Written(recv)' = Written(recv) BY <1>5, DataKept
  <2>5. \A i, j \in DOMAIN patches : patches[i] = patches[j] => i = j BY DEF UnderWay
  <2>6. QED BY <1>1, <2>1, <2>2, <2>3, <2>4, <2>5 DEF UnderWay
<1>18. ZeroFirst'
  <2>1. ASSUME ~recv.is_seq_zero, NEW m \in Range(q)
        PROVE  ZeroIn(Asks(m, recv.seq_fst, NSeq), recv.seq_fst, recv.seq_tail)
    <3>1. CASE m.type = "JUMP"
      <4>1. Asks(m, recv.seq_fst, NSeq) = Reported
            BY <1>7, <2>1, <3>1 DEF Asks, Reported, NotedBy
      <4>2. QED BY <2>1, <4>1 DEF ZeroFirst
    <3>2. CASE m.type # "JUMP"
      <4>1. Silent(m) BY <1>7, <2>1, <3>2, RangeOfSeq, Kinds DEF Silent
      <4>2. QED BY <4>1, SilentAsks DEF ZeroIn
    <3>3. QED BY <3>1, <3>2
  <2>2. ZeroIn(Reported', recv.seq_fst, recv.seq_tail) BY <1>14 DEF ZeroIn
  <2>3. QED BY <1>1, <1>5, <1>6, <1>8, <2>1, <2>2 DEF ZeroFirst, SameData
<1>19. Firsts'
  <2>1. nm.first => nm.seq = recv.seq_fst BY <1>1 DEF Firsts, Packets
  <2>2. QED BY <1>1, <1>4, <1>5, <1>6, <1>7, <1>8, <2>1 DEF Firsts, SameData
<1>20. Finished'
  <2>1. \A m \in Range(q) : Tells(m) => Told
    <3> SUFFICES ASSUME NEW m \in Range(q), Tells(m) PROVE Told OBVIOUS
    <3>1. m.type \in {"FIRST", "ZERO", "ALL", "JUMP"} BY <1>7, RangeOfSeq, Kinds
    <3>2. m.type = "ALL" \/ (m.type = "FIRST" /\ NSeq = 1) BY <3>1 DEF Tells
    <3>3. QED BY <1>1, <1>7, <3>2 DEF Told
  <2>2. \A m : Tells(m)' <=> Tells(m) BY <1>6 DEF Tells
  <2>3. Told' => Told BY <1>1, <1>4, <1>8, <2>1, <2>2 DEF Told
  <2>4. QED BY <1>1, <1>4, <1>5, <1>6, <2>3, DataKept DEF Finished
<1>21. EveryLossRequested' BY <1>5, <1>11, KeepsRequested
<1>22. PatchesAreReady' BY <1>1 DEF PatchesAreReady
<1>23. QED BY <1>9, <1>10, <1>12, <1>13, <1>16, <1>17, <1>18, <1>19, <1>20, <1>21, <1>22

-----------------------------------------------------------------------------
(* The rest of the data is asked for.                                      *)

(* Everything the stream has not gone past, the zero packet among it when  *)
(* it is needed.                                                           *)
LEMMA RestIs ==
    ASSUME Types, recv.is_seq_fst, NEW e \in {recv.seq_fst, SEQ2WARDTHEEND}
    PROVE  LET rest == Within(recv.seq_lst + 1, e, recv.seq_fst, NSeq)
           IN  /\ SeqsOf(recv.seq_lst + 1, e, recv.seq_fst) = rest
               /\ rest \subseteq SeqNums
               /\ rest \union Span(recv) = SeqNums /\ rest \intersect Span(recv) = {}
               /\ recv.seq_lst + 1 \in 1 .. NSeq /\ e \in (0 .. NSeq) \union {SEQ2WARDTHEEND}
               /\ Shape /\ ~recv.is_seq_zero => ZeroIn(rest, recv.seq_fst, recv.seq_tail)
<1> DEFINE f == recv.seq_fst
           l == recv.seq_lst
           rest == Within(l + 1, e, f, NSeq)
           s == IF l + 1 = NSeq THEN 0 ELSE l + 1
<1>1. /\ NSeq \in Nat \ {0} /\ SeqNums = 0 .. (NSeq - 1) /\ f \in 0 .. (NSeq - 1) /\ l \in 0 .. (NSeq - 1)
      /\ recv.seq_tail \in 0 .. (NSeq - 1) /\ dataSize \in Sizes
      BY WholePackets DEF Types
<1>2. l + 1 \in 1 .. NSeq /\ f \in 0 .. NSeq BY <1>1
<1>3. e \in (0 .. NSeq) \union {SEQ2WARDTHEEND} BY <1>2
<1>4. SeqsOf(l + 1, e, f) = rest /\ rest \subseteq SeqNums BY <1>1, <1>2, <1>3, AskedFor
<1>5. (IF e = SEQ2WARDTHEEND THEN f ELSE e) = f OBVIOUS
<1>6. rest = {x \in 0 .. NSeq - 1 : IF s <= f THEN s <= x /\ x < f ELSE x < f \/ s <= x}
      BY <1>5 DEF Within
<1>7. Span(recv) = IF l >= f THEN f .. l ELSE (0 .. l) \union (f .. (NSeq - 1)) BY DEF Span
<1> HIDE DEF f, l, rest
<1>8. rest \union Span(recv) = SeqNums /\ rest \intersect Span(recv) = {}
  <2>1. CASE l + 1 = NSeq
    <3>1. s = 0 /\ l >= f /\ Span(recv) = f .. (NSeq - 1) BY <1>1, <1>7, <2>1
    <3>2. rest = 0 .. (f - 1) BY <1>1, <1>6, <3>1
    <3>3. QED BY <1>1, <3>1, <3>2
  <2>2. CASE l + 1 # NSeq /\ l >= f
    <3>1. s = l + 1 /\ ~(s <= f) /\ Span(recv) = f .. l BY <1>1, <1>7, <2>2
    <3>2. rest = {x \in 0 .. NSeq - 1 : x < f \/ l + 1 <= x} BY <1>6, <3>1
    <3>3. QED BY <1>1, <2>2, <3>1, <3>2
  <2>3. CASE l + 1 # NSeq /\ ~(l >= f)
    <3>1. s = l + 1 /\ s <= f /\ Span(recv) = (0 .. l) \union (f .. (NSeq - 1)) BY <1>1, <1>7, <2>3
    <3>2. rest = {x \in 0 .. NSeq - 1 : l + 1 <= x /\ x < f} BY <1>6, <3>1
    <3>3. QED BY <1>1, <2>3, <3>1, <3>2
  <2>4. QED BY <2>1, <2>2, <2>3
<1>9. ASSUME Shape, ~recv.is_seq_zero PROVE ZeroIn(rest, f, recv.seq_tail)
  <2>1. f # 0 BY <1>9 DEF Shape, f
  <2>2. CASE recv.seq_tail # 0
    <3>1. l < f /\ f < recv.seq_tail BY <1>9, <2>2 DEF Shape, f, l
    <3>2. s = l + 1 /\ s <= f BY <1>1, <3>1
    <3>3. \A x \in rest : x < f BY <1>1, <1>6, <3>2
    <3>4. \A x \in rest : ~(x > recv.seq_tail)
      <4>1. rest \subseteq 0 .. NSeq - 1 BY <1>6
      <4>2. QED BY <1>1, <3>1, <3>3, <4>1
    <3>5. QED BY <2>2, <3>4 DEF ZeroIn, NeedsZero
  <2>3. CASE recv.seq_tail = 0
    <3>1. l >= f BY <1>1, <1>9, <2>3 DEF Shape, f, l
    <3>2. l + 1 = NSeq \/ ~(s <= f) BY <1>1, <3>1
    <3>3. 0 \in rest BY <1>1, <1>6, <2>1, <3>2
    <3>4. QED BY <3>3 DEF ZeroIn
  <2>4. QED BY <2>2, <2>3
<1>10. QED BY <1>2, <1>3, <1>4, <1>8, <1>9 DEF f, l, rest

LEMMA RecvRequestRestStep ==
    ASSUME RInv, RecvRequestRest
    PROVE  RInv'
<1> USE DEF RInv
<1> DEFINE f == recv.seq_fst
           l == recv.seq_lst
           n == NSeq
           e == IF recv.is_seq_zero THEN f ELSE SEQ2WARDTHEEND
           m == [type |-> "PATCH_REQ", stt |-> l + 1, end |-> e]
           rest == Within(l + 1, e, f, NSeq)
           none == recv.is_seq_zero /\ (l + 1) % recv.seq_max = f
<1>1. /\ dataSize' = dataSize /\ recv' = recv /\ nm' = nm /\ n2c' = n2c /\ c2i' = c2i
      /\ patches' = patches /\ nic' = nic /\ snd' = snd /\ crash' = crash
      /\ rc = "stopped" /\ rc' = "idle" /\ ~recv.lock
      BY DEF RecvRequestRest, LockFree
<1>2. IF none THEN up' = up /\ requested' = requested
      ELSE up' = Append(up, m) /\ requested' = requested \union SeqsOf(l + 1, e, f)
  <2>1. Missing(recv) = IF none THEN <<>> ELSE <<l + 1, e>> BY DEF Missing
  <2>2. CASE none BY <2>1, <2>2 DEF RecvRequestRest
  <2>3. CASE ~none
    <3> DEFINE pt == <<l + 1, e>>
    <3>1. pt # <<>> /\ pt[1] = l + 1 /\ pt[2] = e OBVIOUS
    <3>2. Missing(recv) = pt BY <2>1, <2>3
    <3> HIDE DEF pt, e
    <3>3. /\ up' = Append(up, [type |-> "PATCH_REQ", stt |-> pt[1], end |-> pt[2]])
          /\ requested' = requested \union SeqsOf(pt[1], pt[2], recv.seq_fst)
          BY <3>1, <3>2 DEF RecvRequestRest
    <3>4. QED BY <2>3, <3>1, <3>3
  <2>4. QED BY <2>2, <2>3
<1>3. recv.is_seq_fst BY <1>1 DEF Fresh
<1>4. snd.fast_done = "read" /\ snd.seqEnd # NoSeq /\ ~recv.is_fastpath /\ nm.pc = "idle"
      BY <1>1 DEF Threads
<1>5. /\ SeqsOf(l + 1, e, f) = rest /\ rest \subseteq SeqNums
      /\ rest \union Span(recv) = SeqNums /\ rest \intersect Span(recv) = {}
      /\ l + 1 \in 1 .. NSeq /\ e \in (0 .. NSeq) \union {SEQ2WARDTHEEND}
      /\ ~recv.is_seq_zero => ZeroIn(rest, f, recv.seq_tail)
  <2>1. e \in {recv.seq_fst, SEQ2WARDTHEEND} OBVIOUS
  <2> HIDE DEF e
  <2>2. QED BY <1>3, <2>1, RestIs
<1>6. NSeq' = NSeq /\ SeqNums' = SeqNums /\ Recver' = Recver /\ PayloadMin' = PayloadMin BY <1>1, SameSize
<1>7. Written(recv)' = Written(recv) /\ Span(recv)' = Span(recv) /\ Complete(recv)' = Complete(recv)
  <2>1. Written(recv)' = Written(recv) BY <1>1 DEF Written
  <2>2. Span(recv)' = Span(recv) BY <1>1, <1>6 DEF Span
  <2>3. Complete(recv)' = Complete(recv) BY <1>1, <1>6 DEF Complete
  <2>4. QED BY <2>1, <2>2, <2>3
<1>8. none => Span(recv) = SeqNums
  <2>1. SUFFICES ASSUME none PROVE Span(recv) = SeqNums OBVIOUS
  <2>2. /\ recv.seq_max = NSeq /\ NSeq \in Nat \ {0} /\ l \in 0 .. NSeq - 1 /\ f \in 0 .. NSeq - 1
        BY <2>1, WholePackets DEF Shape, Types
  <2>3. l + 1 \in 0 .. NSeq BY <2>2
  <2>4. (l + 1) % NSeq = IF l + 1 = NSeq THEN 0 ELSE l + 1 BY <2>2, <2>3, Small
  <2>5. Complete(recv) BY <1>3, <2>1, <2>2, <2>4 DEF Complete
  <2>6. QED BY <1>3, <2>5, WholeSpan
<1>9. ~RestRequested /\ RestRequested' BY <1>1, <1>4 DEF RestRequested
<1>10. Written(recv) \union requested = Span(recv) BY <1>3, <1>9 DEF EveryLossRequested
<1>11. m \in Message /\ m.type = "PATCH_REQ" /\ m.stt = l + 1 /\ m.end = e
  <2>1. l + 1 \in Nat /\ e \in Nat
    <3>1. /\ NSeq \in Nat \ {0} /\ SEQNUM_MAX \in Nat /\ l \in 0 .. NSeq - 1 /\ f \in 0 .. NSeq - 1
          BY WholePackets DEF Types
    <3>2. QED BY <3>1 DEF SEQ2WARDTHEEND
  <2> HIDE DEF e, f, l
  <2>2. QED BY <2>1 DEF Message
<1>12. Asks(m, f, n) = rest BY <1>11 DEF Asks
<1> HIDE DEF m, e, rest, none
<1> DEFINE new == IF none THEN {} ELSE rest
<1>13. /\ requested' = requested \union new /\ new \intersect requested = {}
       /\ new \intersect Written(recv) = {} /\ new \subseteq SeqNums
       /\ Written(recv) \union requested' = SeqNums
       BY <1>2, <1>5, <1>8, <1>10
<1>14. up' \in Seq(Message) /\ Range(up') = Range(up) \union (IF none THEN {} ELSE {m})
       BY <1>2, <1>11, MessageSent DEF Types
<1>15. Types' BY <1>1, <1>6, <1>13, <1>14 DEF Types
<1>16. Fresh' BY <1>1, <1>3 DEF Fresh
<1>17. Threads' BY <1>1, <1>4, <1>7, <1>9 DEF Threads
<1>18. Shape'
  <2>1. TailLen' = TailLen BY <1>1, <1>6 DEF TailLen
  <2>2. recv.seq_fst \in Written(recv) \ requested' BY <1>3, <1>13 DEF Shape
  <2>3. QED BY <1>1, <1>6, <1>7, <2>1, <2>2 DEF Shape
<1>19. CountsAreExact'
  <2>1. /\ Written(recv) \ requested' = Written(recv) \ requested
        /\ Written(recv) \intersect requested' = Written(recv) \intersect requested
        BY <1>13
  <2>2. QED BY <1>1, <1>7, <2>1 DEF CountsAreExact
<1>20. Requests' BY <1>1, <1>4, <1>5, <1>6, <1>11, <1>14 DEF Requests
<1>21. /\ Sent = AskedBy(up, f, n) /\ Once(up, f, n) /\ Sent' = AskedBy(up', f, n)
       /\ Piped' = Piped /\ Coming' = Coming /\ Reported' = Reported
       BY <1>1, <1>6 DEF Sent, Piped, Coming, Reported, UnderWay
<1> HIDE DEF f, n
<1>22. Sent' = Sent \union new /\ (Sent \intersect new = {} => Once(up', f, n))
  <2>1. CASE none BY <1>2, <1>21, <2>1
  <2>2. CASE ~none
    <3>1. up \in Seq(Message) BY DEF Types
    <3>2. /\ AskedBy(Append(up, m), f, n) = AskedBy(up, f, n) \union Asks(m, f, n)
          /\ Once(up, f, n) /\ AskedBy(up, f, n) \intersect Asks(m, f, n) = {}
               => Once(Append(up, m), f, n)
          BY <1>11, <3>1, AskedWithOne
    <3>3. QED BY <1>2, <1>12, <1>21, <2>2, <3>2
  <2>3. QED BY <2>1, <2>2
<1> HIDE DEF new
<1>23. UnderWay'
  <2>1. Sent \subseteq requested BY DEF UnderWay
  <2>2. Once(n2c, recv.seq_fst, NSeq)' /\ Once(up, recv.seq_fst, NSeq)'
        BY <1>1, <1>6, <1>13, <1>22, <2>1 DEF UnderWay, f, n
  <2>3. Reported' \union Piped' \union Sent' \union Coming' \subseteq requested' \ Written(recv)
        BY <1>13, <1>21, <1>22 DEF UnderWay
  <2>4. Apart(Reported', Piped', Sent', Coming') BY <1>13, <1>21, <1>22 DEF UnderWay, Apart
  <2>5. \A i, j \in DOMAIN patches : patches[i] = patches[j] => i = j BY DEF UnderWay
  <2>6. QED BY <1>1, <1>7, <2>2, <2>3, <2>4, <2>5 DEF UnderWay
<1>24. ZeroFirst'
  <2>1. ~recv.is_seq_zero => ZeroIn(Asks(m, recv.seq_fst, NSeq), recv.seq_fst, recv.seq_tail)
        BY <1>5, <1>12 DEF f, n
  <2>2. QED BY <1>1, <1>6, <1>14, <1>21, <2>1 DEF ZeroFirst
<1>25. Firsts' BY <1>1, <1>6, <1>11, <1>14 DEF Firsts
<1>26. Finished'
  <2>1. ~Tells(m) BY <1>11 DEF Tells
  <2>2. \A x : Tells(x)' <=> Tells(x) BY <1>6 DEF Tells
  <2>3. Told' => Told BY <1>1, <1>6, <1>14, <2>1, <2>2 DEF Told
  <2>4. QED BY <1>1, <1>6, <1>7, <2>3 DEF Finished, AllWritten
<1>27. EveryLossRequested' BY <1>6, <1>7, <1>9, <1>13 DEF EveryLossRequested
<1>28. PatchesAreReady' BY <1>1 DEF PatchesAreReady
<1>29. QED BY <1>15, <1>16, <1>17, <1>18, <1>19, <1>20, <1>23, <1>24, <1>25, <1>26, <1>27, <1>28

-----------------------------------------------------------------------------
(* A patch is stored.                                                      *)

LEMMA Modulo ==
    ASSUME NEW n \in Nat \ {0}, NEW a \in Int
    PROVE  a % n \in 0 .. (n - 1)
  OBVIOUS

(* The length of the tail is what the int of hero.c:155 holds, and it is   *)
(* shorter than the data.                                                  *)
LEMMA SignedLength ==
    ASSUME dataSize \in Sizes, 2 * dataSize <= Word, NEW t \in SeqNums, t # 0
    PROVE  LET len == (NSeq - t - 2) * Payload + PayloadMin
           IN  len \in Int /\ len < dataSize /\ Int32(len) = len
<1> DEFINE len == (NSeq - t - 2) * Payload + PayloadMin
           n == NSeq
           P == Payload
           D == dataSize
           e == PayloadMin
<1>1. /\ n \in Nat \ {0} /\ P \in Nat \ {0} /\ D \in Nat \ {0} /\ e \in 1 .. P
      /\ D = (n - 1) * P + e /\ t \in 0 .. (n - 1) /\ Word \in Nat \ {0} /\ 2 * D <= Word
      BY WholePackets, RecverAssumption
<1>2. len = (n - t - 2) * P + e OBVIOUS
<1> HIDE DEF len, n, P, D, e
<1>3. t \in 1 .. n - 1 /\ n - t - 1 \in Nat /\ t - 1 \in Nat BY <1>1
<1>4. /\ (n - t - 1) * P \in Nat /\ (t - 1) * P \in Nat
      /\ (n - t - 2) * P = (n - t - 1) * P - P
      /\ (n - 1) * P = (n - t - 1) * P + (t - 1) * P + P
      BY <1>1, <1>3
<1>5. len \in Int /\ len < D /\ 0 < len + D BY <1>1, <1>2, <1>4
<1>6. len % Word = IF len >= 0 THEN len ELSE len + Word
  <2>1. CASE len >= 0
    <3>1. len \in 0 .. Word /\ len # Word BY <1>1, <1>5, <2>1
    <3>2. QED BY <1>1, <2>1, <3>1, Small
  <2>2. CASE len < 0
    <3> DEFINE m == len + Word
    <3>1. m \in 0 .. Word - 1 /\ m - Word = len BY <1>1, <1>5, <2>2
    <3> HIDE DEF m
    <3>2. (m - Word) % Word = m BY <1>1, <3>1, Below
    <3>3. len % Word = m BY <3>1, <3>2
    <3>4. ~(len >= 0) BY <1>5, <2>2
    <3>5. QED BY <3>3, <3>4 DEF m
  <2>3. QED BY <1>5, <2>1, <2>2
<1>7. Int32(len) = len
  <2> DEFINE w == len % Word
  <2>1. Int32(len) = IF 2 * w < Word THEN w ELSE w - Word BY DEF Int32
  <2>2. w = IF len >= 0 THEN len ELSE len + Word BY <1>6
  <2> HIDE DEF w
  <2>3. QED BY <1>1, <1>5, <2>1, <2>2
<1>8. QED BY <1>5, <1>7 DEF D, len

(* recverState_updateBcdMetadata.                                          *)
LEMMA MetadataIs ==
    ASSUME dataSize \in Sizes, 2 * dataSize <= Word, NEW r \in Recver, r.seq_tail \in SeqNums,
           r.is_seq_zero => r.seq_max = NSeq /\ r.start >= 0
    PROVE  LET m == UpdateBcdMetadata(r)
               len == (NSeq - r.seq_tail - 2) * Payload + PayloadMin
           IN  /\ m \in Recver /\ m.is_seq_zero /\ m.seq_max = NSeq /\ m.start >= 0
               /\ ~r.is_seq_zero => m.tail_len = IF r.seq_tail # 0 /\ len > 0 THEN len ELSE 0
               /\ r.is_seq_zero => m = r
               /\ r.start >= 0 => m.start = r.start
               /\ m.lock = r.lock /\ m.is_fastpath = r.is_fastpath /\ m.is_finished = r.is_finished
               /\ m.is_seq_fst = r.is_seq_fst /\ m.seq_fst = r.seq_fst /\ m.seq_lst = r.seq_lst
               /\ m.seq_tail = r.seq_tail /\ m.tell = r.tell /\ m.file = r.file /\ m.buf = r.buf
               /\ m.num_fast = r.num_fast /\ m.num_slow = r.num_slow
<1> DEFINE len == (NSeq - r.seq_tail - 2) * Payload + PayloadMin
           held == Int32(len)
           tail == IF r.seq_tail > 0 /\ held > 0 THEN held ELSE 0
           gone == (Payload * r.seq_fst) % Word
           begin == (dataSize - gone - tail) % dataSize
           start == IF r.start < 0 THEN begin ELSE r.start
           m == UpdateBcdMetadata(r)
<1>1. m = IF r.is_seq_zero THEN r
          ELSE [r EXCEPT !.seq_max = NSeq, !.tail_len = tail, !.start = start,
                         !.jump = dataSize - tail, !.is_seq_zero = TRUE]
      BY DEF UpdateBcdMetadata
<1>2. /\ NSeq \in Nat \ {0} /\ Payload \in Nat \ {0} /\ dataSize \in Nat \ {0}
      /\ PayloadMin \in 1 .. Payload /\ r.seq_tail \in Nat /\ r.seq_fst \in Nat /\ r.start \in Int
      /\ Word \in Nat \ {0}
      BY WholePackets, RecverAssumption DEF Recver
<1>3. len \in Int
  <2>1. (NSeq - r.seq_tail - 2) * Payload \in Int BY <1>2
  <2>2. QED BY <1>2, <2>1
<1>4. tail \in Nat /\ tail = IF r.seq_tail # 0 /\ len > 0 THEN len ELSE 0
  <2>1. r.seq_tail # 0 => held = len BY SignedLength
  <2> HIDE DEF len, held
  <2>2. QED BY <1>2, <1>3, <2>1
<1> HIDE DEF len, held
<1>5. gone \in Nat
  <2>1. Payload * r.seq_fst \in Int BY <1>2
  <2>2. gone \in 0 .. Word - 1 BY <1>2, <2>1, Modulo
  <2>3. QED BY <1>2, <2>2
<1> HIDE DEF tail, gone
<1>6. begin \in Nat
  <2>1. dataSize - gone - tail \in Int BY <1>2, <1>4, <1>5
  <2>2. begin \in 0 .. dataSize - 1 BY <1>2, <2>1, Modulo
  <2>3. QED BY <1>2, <2>2
<1>7. start \in Int /\ start >= 0 /\ (r.start >= 0 => start = r.start) BY <1>2, <1>6
<1>8. dataSize - tail \in Int BY <1>2, <1>4
<1> HIDE DEF start, m
<1>9. CASE r.is_seq_zero
  <2>1. m = r BY <1>1, <1>9
  <2>2. QED BY <1>9, <2>1 DEF m
<1>10. CASE ~r.is_seq_zero
  <2>1. m = [r EXCEPT !.seq_max = NSeq, !.tail_len = tail, !.start = start,
                      !.jump = dataSize - tail, !.is_seq_zero = TRUE]
        BY <1>1, <1>10
  <2>2. m \in Recver BY <1>2, <1>4, <1>7, <1>8, <2>1 DEF Recver
  <2>3. /\ m.is_seq_zero = TRUE /\ m.seq_max = NSeq /\ m.start = start /\ m.tail_len = tail
        /\ m.lock = r.lock /\ m.is_fastpath = r.is_fastpath /\ m.is_finished = r.is_finished
        /\ m.is_seq_fst = r.is_seq_fst /\ m.seq_fst = r.seq_fst /\ m.seq_lst = r.seq_lst
        /\ m.seq_tail = r.seq_tail /\ m.tell = r.tell /\ m.file = r.file /\ m.buf = r.buf
        /\ m.num_fast = r.num_fast /\ m.num_slow = r.num_slow
        BY <2>1 DEF Recver
  <2>4. QED BY <1>4, <1>7, <1>10, <2>2, <2>3 DEF m, len
<1>11. QED BY <1>9, <1>10

(* The patch at the head has been asked for and not been written, and what *)
(* it depends on is there.                                                 *)
LEMMA NextPatch ==
    ASSUME RInv, patches # <<>>
    PROVE  LET s == Head(patches)
           IN  /\ s \in SeqNums /\ s \in requested \ Written(recv) /\ s # recv.seq_fst
               /\ recv.is_seq_fst /\ ~recv.is_finished
               /\ NeedsZero(s, recv.seq_fst, recv.seq_tail) => recv.is_seq_zero \/ s = 0
               /\ patches' = Tail(patches) =>
                     /\ patches' \in Seq(SeqNums) /\ Range(patches') = Coming \ {s}
                     /\ \A i, j \in DOMAIN patches' : patches'[i] = patches'[j] => i = j
                     /\ ~recv.is_seq_zero /\ s # 0 =>
                           \A j \in DOMAIN patches' :
                               NeedsZero(patches'[j], recv.seq_fst, recv.seq_tail) =>
                                   \E i \in 1 .. j : patches'[i] = 0
<1> USE DEF RInv
<1> DEFINE s == Head(patches)
           t == Tail(patches)
<1>1. patches \in Seq(SeqNums) /\ recv.is_seq_fst BY DEF Types, Fresh
<1>2. /\ s \in SeqNums /\ t \in Seq(SeqNums) /\ patches[1] = s
      /\ DOMAIN t = 1 .. Len(patches) - 1 /\ Len(patches) \in Nat \ {0}
      /\ \A i \in DOMAIN t : t[i] = patches[i + 1]
      /\ Range(patches) = {s} \union Range(t) /\ DOMAIN patches = 1 .. Len(patches)
      BY <1>1, TakeOne, ByIndex
<1> HIDE DEF s, t
<1>3. s \in Coming BY <1>2 DEF Coming
<1>4. s \in requested \ Written(recv) /\ s # recv.seq_fst BY <1>1, <1>3 DEF UnderWay, Shape
<1>5. ~recv.is_finished
  <2>1. recv.is_finished => s \in Written(recv) BY <1>2, WrittenFinite DEF Finished, AllWritten
  <2>2. QED BY <1>4, <2>1
<1>6. 1 \in DOMAIN patches BY <1>2
<1>7. NeedsZero(s, recv.seq_fst, recv.seq_tail) => recv.is_seq_zero \/ s = 0
  <2>1. SUFFICES ASSUME NeedsZero(s, recv.seq_fst, recv.seq_tail), ~recv.is_seq_zero PROVE s = 0
        OBVIOUS
  <2>2. \E i \in 1 .. 1 : patches[i] = 0 BY <1>2, <1>6, <2>1 DEF ZeroFirst
  <2>3. QED BY <1>2, <2>2
<1>8. \A i, j \in DOMAIN patches : patches[i] = patches[j] => i = j BY DEF UnderWay
<1>9. \A i \in DOMAIN t : i + 1 \in DOMAIN patches /\ i + 1 # 1 /\ i \in Nat BY <1>2
<1>10. \A i, j \in DOMAIN t : t[i] = t[j] => i = j
  <2> TAKE i \in DOMAIN t, j \in DOMAIN t
  <2>1. HAVE t[i] = t[j]
  <2>2. i + 1 = j + 1 BY <1>2, <1>8, <1>9, <2>1
  <2>3. QED BY <1>9, <2>2
<1>11. s \notin Range(t)
  <2>1. \A i \in DOMAIN t : t[i] # s BY <1>2, <1>6, <1>8, <1>9
  <2>2. QED BY <1>2, <2>1, ByIndex
<1>12. Range(t) = Coming \ {s} BY <1>2, <1>11 DEF Coming
<1>13. ASSUME ~recv.is_seq_zero, s # 0, NEW j \in DOMAIN t,
              NeedsZero(t[j], recv.seq_fst, recv.seq_tail)
       PROVE  \E i \in 1 .. j : t[i] = 0
  <2>1. j + 1 \in DOMAIN patches /\ t[j] = patches[j + 1] BY <1>2, <1>9
  <2>2. PICK i \in 1 .. j + 1 : patches[i] = 0 BY <1>13, <2>1 DEF ZeroFirst
  <2>3. i # 1 BY <1>2, <1>13, <2>2
  <2>4. i - 1 \in DOMAIN t /\ i - 1 \in 1 .. j /\ i - 1 + 1 = i BY <1>2, <1>9, <2>2, <2>3
  <2>5. t[i - 1] = 0 BY <1>2, <2>2, <2>4
  <2>6. QED BY <2>4, <2>5
<1>14. ASSUME patches' = t
       PROVE  /\ patches' \in Seq(SeqNums) /\ Range(patches') = Coming \ {s}
              /\ \A i, j \in DOMAIN patches' : patches'[i] = patches'[j] => i = j
              /\ ~recv.is_seq_zero /\ s # 0 =>
                    \A j \in DOMAIN patches' :
                        NeedsZero(patches'[j], recv.seq_fst, recv.seq_tail) =>
                            \E i \in 1 .. j : patches'[i] = 0
       BY <1>2, <1>10, <1>12, <1>13, <1>14
<1>15. /\ s \in SeqNums /\ s \in requested \ Written(recv) /\ s # recv.seq_fst
       /\ recv.is_seq_fst /\ ~recv.is_finished
       /\ NeedsZero(s, recv.seq_fst, recv.seq_tail) => recv.is_seq_zero \/ s = 0
       BY <1>1, <1>2, <1>4, <1>5, <1>7
<1>16. s = Head(patches) /\ t = Tail(patches) BY DEF s, t
<1>17. QED BY <1>14, <1>15, <1>16, Zenon

(* The tail buffer reaches as far as the packet.                           *)
LEMMA InTailBuffer ==
    ASSUME Types, Shape, recv.is_seq_zero, recv.seq_tail # 0, NEW s \in SeqNums, s > recv.seq_tail
    PROVE  /\ (s - recv.seq_tail - 1) * Payload + PktLen(s) <= recv.tail_len
           /\ (s - recv.seq_tail - 1) * Payload \in Nat
           /\ ((s - recv.seq_tail - 1) * Payload) % Word = (s - recv.seq_tail - 1) * Payload
<1> DEFINE t == recv.seq_tail
           n == NSeq
           P == Payload
<1>1. /\ n \in Nat \ {0} /\ P \in Nat \ {0} /\ PayloadMin \in 1 .. P
      /\ s \in 0 .. (n - 1) /\ t \in 0 .. (n - 1)
      BY WholePackets DEF Types
<1>2. TailLen = (n - t - 2) * P + PayloadMin BY DEF TailLen
<1> HIDE DEF t, n, P
<1>3. s > t BY DEF t
<1>4. n - t - 2 \in Nat /\ s - t - 1 \in Nat BY <1>1, <1>3
<1>5. (n - t - 2) * P \in Nat /\ (s - t - 1) * P \in Nat BY <1>1, <1>4
<1>6. TailLen > 0 BY <1>1, <1>2, <1>5
<1>7. recv.tail_len = TailLen BY <1>6 DEF Shape
<1>8. (s - t - 1) * P + PktLen(s) <= TailLen /\ PktLen(s) \in Nat
  <2>1. CASE s = n - 1
    <3>1. PktLen(s) = PayloadMin /\ s - t - 1 = n - t - 2 BY <1>1, <2>1 DEF PktLen, n
    <3>2. QED BY <1>1, <1>2, <1>5, <3>1
  <2>2. CASE s # n - 1
    <3>1. PktLen(s) = P BY <2>2 DEF PktLen, n, P
    <3>2. n - t - 2 >= s - t BY <1>1, <2>2
    <3>3. (n - t - 2) * P >= (s - t) * P BY <1>1, <1>4, <3>2
    <3>4. (s - t) * P = (s - t - 1) * P + P BY <1>1
    <3>5. QED BY <1>1, <1>2, <1>5, <3>1, <3>3, <3>4
  <2>3. QED BY <2>1, <2>2
<1>9. (s - t - 1) * P \in 0 .. Word /\ (s - t - 1) * P # Word
  <2>1. TailLen < dataSize /\ TailLen \in Int
    <3>1. recv.seq_tail \in SeqNums /\ dataSize \in Sizes /\ 2 * dataSize <= Word BY DEF Types
    <3>2. QED BY <3>1, SignedLength DEF TailLen
  <2>2. 2 * dataSize <= Word /\ Word \in Nat /\ dataSize \in Nat
        BY RecverAssumption DEF Types
  <2>3. QED BY <1>5, <1>8, <2>1, <2>2
<1>10. ((s - t - 1) * P) % Word = (s - t - 1) * P
  <2> DEFINE o == (s - t - 1) * P
  <2>1. o \in 0 .. Word /\ o # Word BY <1>9
  <2>2. Word \in Nat \ {0} BY RecverAssumption
  <2> HIDE DEF o
  <2>3. o % Word = o BY <2>1, <2>2, Small
  <2>4. QED BY <2>3 DEF o
<1>11. QED BY <1>5, <1>7, <1>8, <1>10 DEF t, P

(* Where a patch goes: into the tail buffer or into the file.              *)
LEMMA PatchStored ==
    ASSUME RInv, RecvPatch
    PROVE  LET s == Head(patches)
               m == IF s = 0 THEN UpdateBcdMetadata(recv) ELSE recv
               o == (s - recv.seq_tail - 1) * Payload
           IN  /\ crash' = crash /\ rc = "idle" /\ rc' = "patched"
               /\ \/ /\ recv.seq_tail > 0 /\ s > recv.seq_tail /\ recv.is_seq_zero /\ s # 0 /\ o \in Nat
                     /\ recv' = [recv EXCEPT !.buf[s] = o, !.num_slow = recv.num_slow + 1]
                  \/ /\ ~(recv.seq_tail > 0 /\ s > recv.seq_tail)
                     /\ GetFilePosition(m, s) \in Nat
                     /\ recv' = [m EXCEPT !.file[s] = GetFilePosition(m, s),
                                          !.num_slow = m.num_slow + 1]
<1> USE DEF RInv
<1> DEFINE s == Head(patches)
           m == IF s = 0 THEN UpdateBcdMetadata(recv) ELSE recv
           o == (s - recv.seq_tail - 1) * Payload
           held == o % Word
           tailed == recv.seq_tail > 0 /\ s > recv.seq_tail
<1>1. /\ patches # <<>> /\ rc = "idle"
      /\ IF tailed
           THEN IF held + PktLen(s) > recv.tail_len
                THEN crash' = "tail_buffer" /\ UNCHANGED <<recv, rc>>
                ELSE /\ recv' = [recv EXCEPT !.buf[s] = held, !.num_slow = recv.num_slow + 1]
                     /\ rc' = "patched" /\ crash' = crash
           ELSE IF s = recv.seq_fst
           THEN UNCHANGED <<recv, rc, crash>>
           ELSE IF s = 0 /\ m.start < 0
           THEN crash' = "no_start" /\ UNCHANGED <<recv, rc>>
           ELSE /\ recv' = [m EXCEPT !.file[s] = GetFilePosition(m, s), !.num_slow = m.num_slow + 1]
                /\ rc' = "patched" /\ crash' = crash
      BY DEF RecvPatch
<1>2. /\ s \in SeqNums /\ s # recv.seq_fst /\ recv.is_seq_fst
      /\ NeedsZero(s, recv.seq_fst, recv.seq_tail) => recv.is_seq_zero \/ s = 0
      BY <1>1, NextPatch
<1>3. /\ NSeq \in Nat \ {0} /\ Payload \in Nat \ {0} /\ PayloadMin \in 1 .. Payload
      /\ s \in 0 .. (NSeq - 1) /\ recv.seq_tail \in 0 .. (NSeq - 1) /\ recv.seq_fst \in 0 .. (NSeq - 1)
      /\ dataSize \in Sizes /\ 2 * dataSize <= Word /\ recv \in Recver /\ recv.start \in Int
      BY <1>2, WholePackets DEF Types, Recver
<1>4. CASE tailed
  <2>1. recv.is_seq_zero /\ s # 0 /\ recv.seq_tail # 0 BY <1>2, <1>3, <1>4 DEF NeedsZero
  <2>2. o + PktLen(s) <= recv.tail_len /\ o \in Nat /\ held = o BY <1>2, <1>4, <2>1, InTailBuffer
  <2> HIDE DEF held
  <2>3. ~(held + PktLen(s) > recv.tail_len)
    <3>1. recv.tail_len \in Nat BY <1>3 DEF Recver
    <3>2. PktLen(s) \in Nat BY <1>3 DEF PktLen
    <3> HIDE DEF o
    <3>3. QED BY <2>2, <3>1, <3>2
  <2> HIDE DEF o
  <2>4. QED BY <1>1, <1>4, <2>1, <2>2, <2>3 DEF o
<1>5. CASE ~tailed
  <2>1. recv.is_seq_zero => recv.seq_max = NSeq /\ recv.start >= 0 BY DEF Shape
  <2>2. /\ (m.start >= 0 \/ (m = recv /\ s # 0))
        /\ m.seq_tail = recv.seq_tail /\ m.seq_fst = recv.seq_fst /\ m.start \in Int
    <3>1. CASE s = 0
      <4>1. recv.seq_tail \in SeqNums BY DEF Types
      <4>2. /\ UpdateBcdMetadata(recv) \in Recver /\ UpdateBcdMetadata(recv).start >= 0
            /\ UpdateBcdMetadata(recv).seq_tail = recv.seq_tail
            /\ UpdateBcdMetadata(recv).seq_fst = recv.seq_fst
            BY <1>3, <2>1, <4>1, MetadataIs
      <4>3. m = UpdateBcdMetadata(recv) BY <3>1
      <4> HIDE DEF m
      <4>4. m.start \in Int BY <4>2, <4>3 DEF Recver
      <4>5. QED BY <4>2, <4>3, <4>4
    <3>2. CASE s # 0
      <4>1. m = recv BY <3>2
      <4> HIDE DEF m, s
      <4>2. QED BY <1>3, <3>2, <4>1
    <3>3. QED BY <3>1, <3>2
  <2>3. s < recv.seq_fst => m.start >= 0
    <3>1. SUFFICES ASSUME s < recv.seq_fst, m = recv, s # 0 PROVE recv.start >= 0 BY <2>2
    <3>2. recv.is_seq_zero \/ recv.seq_tail # 0 BY <1>2, <3>1 DEF NeedsZero
    <3>3. QED BY <3>2 DEF Shape
  <2>4. ~(s = 0 /\ m.start < 0)
    <3>1. s = 0 => m.start >= 0 BY <2>2
    <3> HIDE DEF m
    <3>2. QED BY <2>2, <3>1
  <2>5. GetFilePosition(m, s) \in Nat
    <3>1. GetFilePosition(m, s) = IF s < recv.seq_fst THEN m.start + s * Payload
                                  ELSE (s - recv.seq_fst) * Payload
      <4> HIDE DEF m, s
      <4>1. QED BY <1>5, <2>2 DEF GetFilePosition
    <3> HIDE DEF m, s
    <3>2. s * Payload \in Nat BY <1>3
    <3>3. s < recv.seq_fst => m.start + s * Payload \in Nat BY <2>2, <2>3, <3>2
    <3>4. ~(s < recv.seq_fst) => (s - recv.seq_fst) * Payload \in Nat
      <4>1. ~(s < recv.seq_fst) => s - recv.seq_fst \in Nat BY <1>3
      <4>2. QED BY <1>3, <4>1
    <3>5. QED BY <3>1, <3>3, <3>4
  <2> HIDE DEF m
  <2>6. /\ recv' = [m EXCEPT !.file[s] = GetFilePosition(m, s), !.num_slow = m.num_slow + 1]
        /\ rc' = "patched" /\ crash' = crash
        BY <1>1, <1>2, <1>5, <2>4
  <2>7. QED BY <1>1, <1>5, <2>5, <2>6 DEF m
<1>6. QED BY <1>4, <1>5

(* What that changes.                                                      *)
LEMMA PatchChanges ==
    ASSUME RInv, RecvPatch
    PROVE  LET s == Head(patches)
           IN  /\ recv' \in Recver /\ recv'.lock = recv.lock /\ recv'.is_fastpath = recv.is_fastpath
               /\ recv'.is_finished = recv.is_finished /\ recv'.is_seq_fst = recv.is_seq_fst
               /\ recv'.seq_fst = recv.seq_fst /\ recv'.seq_lst = recv.seq_lst
               /\ recv'.seq_tail = recv.seq_tail /\ recv'.tell = recv.tell
               /\ recv'.num_fast = recv.num_fast /\ recv'.num_slow = recv.num_slow + 1
               /\ Written(recv)' = Written(recv) \union {s}
               /\ recv'.is_seq_zero <=> recv.is_seq_zero \/ s = 0
               /\ recv'.is_seq_zero => recv'.seq_max = NSeq
               /\ recv.is_seq_zero => /\ recv'.seq_max = recv.seq_max /\ recv'.start = recv.start
                                      /\ recv'.tail_len = recv.tail_len
               /\ ~recv'.is_seq_zero => /\ recv'.seq_max = recv.seq_max /\ recv'.start = recv.start
                                        /\ recv'.tail_len = recv.tail_len
               /\ recv'.is_seq_zero /\ ~recv.is_seq_zero =>
                      /\ recv'.start >= 0
                      /\ recv'.tail_len = IF recv.seq_tail # 0 /\ TailLen > 0 THEN TailLen ELSE 0
               /\ \A x \in SeqNums : recv'.buf[x] # Unwritten =>
                      recv.buf[x] # Unwritten
                      \/ (recv.seq_tail # 0 /\ x > recv.seq_tail /\ recv.is_seq_zero)
<1> USE DEF RInv
<1> DEFINE s == Head(patches)
           m == IF s = 0 THEN UpdateBcdMetadata(recv) ELSE recv
           o == (s - recv.seq_tail - 1) * Payload
           p == GetFilePosition(m, s)
<1>1. patches # <<>> BY DEF RecvPatch
<1>2. s \in SeqNums BY <1>1, NextPatch
<1>3. /\ dataSize \in Sizes /\ 2 * dataSize <= Word /\ recv \in Recver /\ recv.seq_tail \in SeqNums
      /\ recv.num_slow \in Nat
      BY DEF Types, Recver
<1>4. SeqNums' = SeqNums BY SameSize DEF RecvPatch
<1>5. \/ /\ recv.seq_tail > 0 /\ s > recv.seq_tail /\ recv.is_seq_zero /\ s # 0 /\ o \in Nat
         /\ recv' = [recv EXCEPT !.buf[s] = o, !.num_slow = recv.num_slow + 1]
      \/ /\ p \in Nat
         /\ recv' = [m EXCEPT !.file[s] = p, !.num_slow = m.num_slow + 1]
      BY PatchStored
<1>6. recv.is_seq_zero => recv.seq_max = NSeq /\ recv.start >= 0 BY DEF Shape
<1>7. /\ m \in Recver
      /\ m.lock = recv.lock /\ m.is_fastpath = recv.is_fastpath
      /\ m.is_finished = recv.is_finished /\ m.is_seq_fst = recv.is_seq_fst
      /\ m.seq_fst = recv.seq_fst /\ m.seq_lst = recv.seq_lst
      /\ m.seq_tail = recv.seq_tail /\ m.tell = recv.tell /\ m.file = recv.file /\ m.buf = recv.buf
      /\ m.num_fast = recv.num_fast /\ m.num_slow = recv.num_slow
      /\ m.is_seq_zero <=> recv.is_seq_zero \/ s = 0
      /\ m.is_seq_zero => m.seq_max = NSeq
      /\ ~m.is_seq_zero => m = recv
      /\ recv.is_seq_zero => m = recv
      /\ m.is_seq_zero /\ ~recv.is_seq_zero =>
             /\ m.start >= 0
             /\ m.tail_len = IF recv.seq_tail # 0 /\ TailLen > 0 THEN TailLen ELSE 0
  <2>1. CASE s = 0
    <3>1. m = UpdateBcdMetadata(recv) BY <2>1
    <3> HIDE DEF m, s
    <3>2. QED BY <1>3, <1>6, <2>1, <3>1, MetadataIs DEF TailLen
  <2>2. CASE s # 0
    <3>1. m = recv BY <2>2
    <3> HIDE DEF m, s
    <3>2. QED BY <1>3, <1>6, <2>2, <3>1
  <2>3. QED BY <2>1, <2>2
<1> HIDE DEF s, m, o, p
<1>8. recv.file \in [SeqNums -> Nat \union {Unwritten}] /\ recv.buf \in [SeqNums -> Nat \union {Unwritten}]
      BY <1>3 DEF Recver
<1>9. CASE /\ recv.seq_tail > 0 /\ s > recv.seq_tail /\ recv.is_seq_zero /\ s # 0 /\ o \in Nat
           /\ recv' = [recv EXCEPT !.buf[s] = o, !.num_slow = recv.num_slow + 1]
  <2> DEFINE b == [recv.buf EXCEPT ![s] = o]
  <2>1. recv' = [recv EXCEPT !.buf = b, !.num_slow = recv.num_slow + 1] BY <1>9
  <2>2. b \in [SeqNums -> Nat \union {Unwritten}] BY <1>2, <1>8, <1>9
  <2>3. b[s] = o /\ \A x \in SeqNums : x # s => b[x] = recv.buf[x] BY <1>2, <1>8
  <2>4. o # Unwritten BY <1>9 DEF Unwritten
  <2> HIDE DEF b
  <2>5. recv' \in Recver
    <3>1. recv.num_slow + 1 \in Nat BY <1>3
    <3>2. QED BY <1>3, <2>1, <2>2, <3>1 DEF Recver
  <2>6. /\ recv'.lock = recv.lock /\ recv'.is_fastpath = recv.is_fastpath
        /\ recv'.is_finished = recv.is_finished /\ recv'.is_seq_fst = recv.is_seq_fst
        /\ recv'.seq_fst = recv.seq_fst /\ recv'.seq_lst = recv.seq_lst
        /\ recv'.seq_tail = recv.seq_tail /\ recv'.tell = recv.tell /\ recv'.file = recv.file
        /\ recv'.buf = b /\ recv'.num_fast = recv.num_fast /\ recv'.num_slow = recv.num_slow + 1
        /\ recv'.is_seq_zero = recv.is_seq_zero /\ recv'.seq_max = recv.seq_max
        /\ recv'.start = recv.start /\ recv'.tail_len = recv.tail_len
        BY <1>3, <2>1 DEF Recver
  <2>7. Written(recv)' = Written(recv) \union {s}
    <3>1. DOMAIN recv.file = SeqNums BY <1>8
    <3>2. Written(recv) = {x \in SeqNums : recv.file[x] # Unwritten \/ recv.buf[x] # Unwritten}
          BY <3>1 DEF Written
    <3>3. Written(recv)' = {x \in SeqNums : recv.file[x] # Unwritten \/ b[x] # Unwritten}
          BY <2>6, <3>1 DEF Written
    <3>4. QED BY <1>2, <2>3, <2>4, <3>2, <3>3
  <2>8. \A x \in SeqNums : recv'.buf[x] # Unwritten =>
               recv.buf[x] # Unwritten \/ (recv.seq_tail # 0 /\ x > recv.seq_tail /\ recv.is_seq_zero)
    <3>1. recv.seq_tail # 0 BY <1>3, <1>9, WholePackets
    <3>2. QED BY <1>9, <2>3, <2>6, <3>1
  <2>9. QED BY <1>6, <1>9, <2>5, <2>6, <2>7, <2>8 DEF s
<1>10. CASE p \in Nat /\ recv' = [m EXCEPT !.file[s] = p, !.num_slow = m.num_slow + 1]
  <2> DEFINE g == [m.file EXCEPT ![s] = p]
  <2>1. recv' = [m EXCEPT !.file = g, !.num_slow = m.num_slow + 1] BY <1>10
  <2>2. g \in [SeqNums -> Nat \union {Unwritten}] BY <1>2, <1>7, <1>8, <1>10
  <2>3. g[s] = p /\ \A x \in SeqNums : x # s => g[x] = recv.file[x] BY <1>2, <1>7, <1>8
  <2>4. p # Unwritten BY <1>10 DEF Unwritten
  <2> HIDE DEF g
  <2>5. recv' \in Recver
    <3>1. m.num_slow + 1 \in Nat BY <1>3, <1>7
    <3>2. QED BY <1>7, <2>1, <2>2, <3>1 DEF Recver
  <2>6. /\ recv'.lock = m.lock /\ recv'.is_fastpath = m.is_fastpath
        /\ recv'.is_finished = m.is_finished /\ recv'.is_seq_fst = m.is_seq_fst
        /\ recv'.seq_fst = m.seq_fst /\ recv'.seq_lst = m.seq_lst
        /\ recv'.seq_tail = m.seq_tail /\ recv'.tell = m.tell /\ recv'.file = g
        /\ recv'.buf = m.buf /\ recv'.num_fast = m.num_fast /\ recv'.num_slow = m.num_slow + 1
        /\ recv'.is_seq_zero = m.is_seq_zero /\ recv'.seq_max = m.seq_max
        /\ recv'.start = m.start /\ recv'.tail_len = m.tail_len
        BY <1>7, <2>1 DEF Recver
  <2>7. Written(recv)' = Written(recv) \union {s}
    <3>1. DOMAIN recv.file = SeqNums /\ DOMAIN g = SeqNums BY <1>8, <2>2
    <3>2. Written(recv) = {x \in SeqNums : recv.file[x] # Unwritten \/ recv.buf[x] # Unwritten}
          BY <3>1 DEF Written
    <3>3. Written(recv)' = {x \in SeqNums : g[x] # Unwritten \/ recv.buf[x] # Unwritten}
          BY <1>7, <2>6, <3>1 DEF Written
    <3>4. QED BY <1>2, <2>3, <2>4, <3>2, <3>3
  <2>8. QED BY <1>7, <2>5, <2>6, <2>7 DEF s
<1>11. QED BY <1>5, <1>9, <1>10

LEMMA RecvPatchStep ==
    ASSUME RInv, RecvPatch
    PROVE  RInv'
<1> USE DEF RInv
<1> DEFINE s == Head(patches)
<1>1. /\ dataSize' = dataSize /\ nm' = nm /\ nic' = nic /\ n2c' = n2c /\ c2i' = c2i /\ up' = up
      /\ snd' = snd /\ requested' = requested /\ patches' = Tail(patches) /\ patches # <<>>
      BY DEF RecvPatch
<1>2. crash' = crash /\ rc = "idle" /\ rc' = "patched" BY PatchStored
<1>3. /\ s \in SeqNums /\ s \in requested \ Written(recv) /\ s # recv.seq_fst
      /\ recv.is_seq_fst /\ ~recv.is_finished
      /\ patches' \in Seq(SeqNums) /\ Range(patches') = Coming \ {s}
      /\ \A i, j \in DOMAIN patches' : patches'[i] = patches'[j] => i = j
      /\ ~recv.is_seq_zero /\ s # 0 =>
            \A j \in DOMAIN patches' :
                NeedsZero(patches'[j], recv.seq_fst, recv.seq_tail) =>
                    \E i \in 1 .. j : patches'[i] = 0
      BY <1>1, NextPatch
<1>4. /\ recv' \in Recver /\ recv'.lock = recv.lock /\ recv'.is_fastpath = recv.is_fastpath
      /\ recv'.is_finished = recv.is_finished /\ recv'.is_seq_fst = recv.is_seq_fst
      /\ recv'.seq_fst = recv.seq_fst /\ recv'.seq_lst = recv.seq_lst
      /\ recv'.seq_tail = recv.seq_tail
      /\ recv'.num_fast = recv.num_fast /\ recv'.num_slow = recv.num_slow + 1
      /\ Written(recv)' = Written(recv) \union {s}
      /\ recv'.is_seq_zero <=> recv.is_seq_zero \/ s = 0
      /\ recv'.is_seq_zero => recv'.seq_max = NSeq
      /\ recv.is_seq_zero => /\ recv'.seq_max = recv.seq_max /\ recv'.start = recv.start
                             /\ recv'.tail_len = recv.tail_len
      /\ ~recv'.is_seq_zero => /\ recv'.seq_max = recv.seq_max /\ recv'.start = recv.start
                               /\ recv'.tail_len = recv.tail_len
      /\ recv'.is_seq_zero /\ ~recv.is_seq_zero =>
             /\ recv'.start >= 0
             /\ recv'.tail_len = IF recv.seq_tail # 0 /\ TailLen > 0 THEN TailLen ELSE 0
      /\ \A x \in SeqNums : recv'.buf[x] # Unwritten =>
             recv.buf[x] # Unwritten \/ (recv.seq_tail # 0 /\ x > recv.seq_tail /\ recv.is_seq_zero)
      BY PatchChanges
<1> HIDE DEF s
<1>5. SeqNums' = SeqNums /\ NSeq' = NSeq /\ Recver' = Recver /\ PayloadMin' = PayloadMin
      BY <1>1, SameSize
<1>6. Types' BY <1>1, <1>2, <1>3, <1>4, <1>5 DEF Types
<1>7. Fresh' BY <1>3, <1>4 DEF Fresh
<1>8. RestRequested' <=> RestRequested BY <1>1, <1>2 DEF RestRequested
<1>9. Complete(recv)' <=> Complete(recv) BY <1>4, <1>5 DEF Complete
<1>10. Threads' BY <1>1, <1>2, <1>4, <1>8, <1>9 DEF Threads
<1>11. Shape'
  <2>1. TailLen' = TailLen BY <1>4, <1>5 DEF TailLen
  <2>2. recv'.seq_max = IF recv'.is_seq_zero THEN NSeq ELSE 0 BY <1>4 DEF Shape
  <2>3. recv'.is_seq_zero \/ recv'.seq_tail # 0 => recv'.start >= 0 BY <1>4 DEF Shape
  <2>4. recv'.tail_len = IF recv'.is_seq_zero /\ recv'.seq_tail # 0 /\ TailLen > 0 THEN TailLen ELSE 0
        BY <1>4 DEF Shape
  <2>5. \A x \in SeqNums : recv'.buf[x] # Unwritten =>
            recv'.seq_tail # 0 /\ x > recv'.seq_tail /\ recv'.is_seq_zero
        BY <1>4 DEF Shape
  <2>6. 0 \in Written(recv)' => recv'.is_seq_zero BY <1>4 DEF Shape
  <2>7. recv'.seq_fst \in Written(recv)' \ requested' BY <1>1, <1>3, <1>4 DEF Shape
  <2>8. /\ recv'.is_seq_fst /\ recv'.seq_fst = 0 => recv'.is_seq_zero
        /\ recv'.seq_tail # 0 => recv'.seq_lst < recv'.seq_fst /\ recv'.seq_fst < recv'.seq_tail
        /\ recv'.seq_lst < recv'.seq_fst => recv'.is_seq_zero \/ recv'.seq_tail # 0
        BY <1>4 DEF Shape
  <2>9. QED BY <1>5, <2>1, <2>2, <2>3, <2>4, <2>5, <2>6, <2>7, <2>8 DEF Shape
<1>12. Reported' = Reported /\ Piped' = Piped /\ Sent' = Sent /\ Coming' = Coming \ {s}
       BY <1>1, <1>3, <1>4, <1>5 DEF Reported, Piped, Sent, Coming
<1>13. s \in Coming
  <2>1. patches \in Seq(SeqNums) BY DEF Types
  <2>2. Range(patches) = {s} \union Range(Tail(patches)) BY <1>1, <2>1, TakeOne DEF s
  <2>3. QED BY <2>2 DEF Coming
<1>14. Requests' BY <1>1, <1>5 DEF Requests
<1>15. UnderWay'
  <2>1. Reported' \union Piped' \union Sent' \union Coming' \subseteq requested' \ Written(recv)'
        BY <1>1, <1>4, <1>12, <1>13 DEF UnderWay, Apart
  <2>2. Apart(Reported', Piped', Sent', Coming') BY <1>12 DEF UnderWay, Apart
  <2>3. Once(n2c, recv.seq_fst, NSeq)' /\ Once(up, recv.seq_fst, NSeq)'
        BY <1>1, <1>4, <1>5 DEF UnderWay
  <2>4. QED BY <1>3, <2>1, <2>2, <2>3 DEF UnderWay
<1>16. ZeroFirst'
  <2>1. ~recv'.is_seq_zero => ~recv.is_seq_zero /\ s # 0 BY <1>4
  <2>2. QED BY <1>1, <1>3, <1>4, <1>5, <1>12, <2>1 DEF ZeroFirst
<1>17. Firsts' BY <1>1, <1>4, <1>5 DEF Firsts
<1>18. Finished'
  <2>1. Told' <=> Told BY <1>1, <1>2, <1>5 DEF Told, Tells
  <2>2. ~Told BY <1>3 DEF Finished
  <2>3. nm.pc # "finish" BY <1>3 DEF Finished
  <2>4. QED BY <1>1, <1>2, <1>3, <1>4, <2>1, <2>2, <2>3 DEF Finished
<1>19. EveryLossRequested'
  <2>1. Span(recv)' = Span(recv) BY <1>4, <1>5 DEF Span
  <2>2. Written(recv)' \union requested' = Written(recv) \union requested BY <1>1, <1>3, <1>4
  <2>3. QED BY <1>3, <1>5, <1>8, <2>1, <2>2 DEF EveryLossRequested
<1>20. CountsAreExact'
  <2> DEFINE B == Written(recv) \intersect requested
  <2>1. /\ Written(recv)' \ requested' = Written(recv) \ requested
        /\ Written(recv)' \intersect requested' = B \union {s}
        BY <1>1, <1>3, <1>4
  <2>2. IsFiniteSet(B) /\ s \notin B BY <1>3, WrittenFinite, FS_Subset
  <2>3. Cardinality(B \union {s}) = Cardinality(B) + 1 BY <2>2, FS_AddElement
  <2>4. QED BY <1>4, <2>1, <2>3 DEF CountsAreExact
<1>21. PatchesAreReady' BY <1>2 DEF PatchesAreReady
<1>22. QED BY <1>6, <1>7, <1>10, <1>11, <1>14, <1>15, <1>16, <1>17, <1>18, <1>19, <1>20, <1>21

-----------------------------------------------------------------------------
(* The netmap thread decides on a packet.                                  *)

Cur == GotFirst(recv, nm.seq)
Meta == IF nm.seq = 0 THEN UpdateBcdMetadata(Cur) ELSE Cur
Chosen == Branch(Cur, Meta, nm.seq)
Lost == Jump(Cur, Chosen, nm.seq)
Noted == NotedBy(Lost, Cur.seq_fst, NSeq)

(* The RecverState behind the first-packet block.                          *)
LEMMA FirstIs ==
    ASSUME RInv, nm.pc = "accept"
    PROVE  /\ Cur \in Recver /\ Cur.is_seq_fst /\ Cur.seq_fst \in SeqNums
           /\ recv.is_seq_fst => Cur.seq_fst = recv.seq_fst /\ Cur.seq_lst = recv.seq_lst
           /\ ~recv.is_seq_fst =>
                  /\ Cur.seq_fst = nm.seq
                  /\ Cur.seq_lst = IF nm.seq = 0 THEN SEQNUM_MAX ELSE nm.seq - 1
                  /\ ~recv.is_seq_zero /\ recv.seq_tail = 0 /\ Written(recv) = {} /\ requested = {}
                  /\ n2c = <<>> /\ up = <<>> /\ patches = <<>> /\ snd.seqEnd = NoSeq
           /\ Cur.lock = recv.lock /\ Cur.is_fastpath = recv.is_fastpath
           /\ Cur.is_finished = recv.is_finished /\ Cur.is_seq_zero = recv.is_seq_zero
           /\ Cur.seq_max = recv.seq_max /\ Cur.seq_tail = recv.seq_tail
           /\ Cur.tail_len = recv.tail_len /\ Cur.start = recv.start /\ Cur.tell = recv.tell
           /\ Cur.file = recv.file /\ Cur.buf = recv.buf
           /\ Cur.num_fast = recv.num_fast /\ Cur.num_slow = recv.num_slow
<1> USE DEF RInv
<1>1. recv \in Recver /\ nm.seq \in SeqNums /\ recv.seq_fst \in SeqNums BY DEF Types
<1>2. CASE recv.is_seq_fst
  <2>1. Cur = recv BY <1>2 DEF Cur, GotFirst
  <2>2. QED BY <1>1, <1>2, <2>1
<1>3. CASE ~recv.is_seq_fst
  <2> DEFINE l == IF nm.seq = 0 THEN SEQNUM_MAX ELSE nm.seq - 1
  <2>1. Cur = [recv EXCEPT !.is_seq_fst = TRUE, !.seq_fst = nm.seq, !.seq_lst = l]
        BY <1>3 DEF Cur, GotFirst
  <2>2. l \in Nat /\ nm.seq \in Nat
    <3>1. dataSize \in Sizes BY DEF Types
    <3>2. nm.seq \in 0 .. (NSeq - 1) /\ NSeq \in Nat /\ SEQNUM_MAX \in Nat BY <1>1, <3>1, WholePackets
    <3>3. QED BY <3>2
  <2> HIDE DEF l
  <2>3. Cur \in Recver BY <1>1, <2>1, <2>2 DEF Recver
  <2>4. /\ Cur.is_seq_fst = TRUE /\ Cur.seq_fst = nm.seq /\ Cur.seq_lst = l
        /\ Cur.lock = recv.lock /\ Cur.is_fastpath = recv.is_fastpath
        /\ Cur.is_finished = recv.is_finished /\ Cur.is_seq_zero = recv.is_seq_zero
        /\ Cur.seq_max = recv.seq_max /\ Cur.seq_tail = recv.seq_tail
        /\ Cur.tail_len = recv.tail_len /\ Cur.start = recv.start /\ Cur.tell = recv.tell
        /\ Cur.file = recv.file /\ Cur.buf = recv.buf
        /\ Cur.num_fast = recv.num_fast /\ Cur.num_slow = recv.num_slow
        BY <1>1, <2>1 DEF Recver
  <2>5. /\ recv = [NewRecver EXCEPT !.lock = recv.lock, !.is_fastpath = recv.is_fastpath]
        /\ n2c = <<>> /\ up = <<>> /\ patches = <<>> /\ requested = {} /\ snd.seqEnd = NoSeq
        BY <1>3 DEF Fresh
  <2>6. /\ recv.is_seq_zero = FALSE /\ recv.seq_tail = 0
        /\ recv.file = [s \in SeqNums |-> Unwritten] /\ recv.buf = [s \in SeqNums |-> Unwritten]
        BY <2>5 DEF NewRecver
  <2>7. Written(recv) = {} BY <2>6 DEF Written
  <2>8. QED BY <1>1, <1>3, <2>3, <2>4, <2>5, <2>6, <2>7 DEF l
<1>4. QED BY <1>2, <1>3

(* ... and behind recverState_updateBcdMetadata.                           *)
LEMMA MetaIs ==
    ASSUME RInv, nm.pc = "accept"
    PROVE  /\ Meta \in Recver /\ Meta.is_seq_fst
           /\ Meta.seq_fst = Cur.seq_fst /\ Meta.seq_lst = Cur.seq_lst
           /\ Meta.is_seq_zero <=> recv.is_seq_zero \/ nm.seq = 0
           /\ Meta.seq_max = IF Meta.is_seq_zero THEN NSeq ELSE 0
           /\ Meta.is_seq_zero \/ recv.seq_tail # 0 => Meta.start >= 0
           /\ Meta.tail_len = IF Meta.is_seq_zero /\ recv.seq_tail # 0 /\ TailLen > 0
                              THEN TailLen ELSE 0
           /\ Meta.is_fastpath = recv.is_fastpath /\ Meta.is_finished = recv.is_finished
           /\ Meta.seq_tail = recv.seq_tail /\ Meta.tell = recv.tell
           /\ Meta.file = recv.file /\ Meta.buf = recv.buf
           /\ Meta.num_fast = recv.num_fast /\ Meta.num_slow = recv.num_slow
<1> USE DEF RInv
<1>1. /\ dataSize \in Sizes /\ 2 * dataSize <= Word /\ recv.seq_tail \in SeqNums /\ recv \in Recver BY DEF Types
<1>2. /\ recv.seq_max = IF recv.is_seq_zero THEN NSeq ELSE 0
      /\ recv.is_seq_zero \/ recv.seq_tail # 0 => recv.start >= 0
      /\ recv.tail_len = IF recv.is_seq_zero /\ recv.seq_tail # 0 /\ TailLen > 0 THEN TailLen ELSE 0
      BY DEF Shape
<1>3. CASE nm.seq = 0
  <2>1. Meta = UpdateBcdMetadata(Cur) BY <1>3 DEF Meta
  <2>2. Cur.is_seq_zero => Cur.seq_max = NSeq /\ Cur.start >= 0 BY <1>2, FirstIs
  <2>3. Cur \in Recver /\ Cur.seq_tail \in SeqNums BY <1>1, FirstIs
  <2>4. /\ Meta \in Recver /\ Meta.is_seq_zero /\ Meta.seq_max = NSeq /\ Meta.start >= 0
        /\ ~Cur.is_seq_zero => Meta.tail_len = IF Cur.seq_tail # 0 /\ (NSeq - Cur.seq_tail - 2) * Payload + PayloadMin > 0
                                               THEN (NSeq - Cur.seq_tail - 2) * Payload + PayloadMin ELSE 0
        /\ Cur.is_seq_zero => Meta = Cur
        /\ Meta.is_fastpath = Cur.is_fastpath /\ Meta.is_finished = Cur.is_finished
        /\ Meta.is_seq_fst = Cur.is_seq_fst /\ Meta.seq_fst = Cur.seq_fst /\ Meta.seq_lst = Cur.seq_lst
        /\ Meta.seq_tail = Cur.seq_tail /\ Meta.tell = Cur.tell /\ Meta.file = Cur.file /\ Meta.buf = Cur.buf
        /\ Meta.num_fast = Cur.num_fast /\ Meta.num_slow = Cur.num_slow
        BY <1>1, <2>1, <2>2, <2>3, MetadataIs
  <2>5. Meta.tail_len = IF recv.seq_tail # 0 /\ TailLen > 0 THEN TailLen ELSE 0
    <3>1. TailLen = (NSeq - Cur.seq_tail - 2) * Payload + PayloadMin BY FirstIs DEF TailLen
    <3>2. CASE Cur.is_seq_zero
      <4>1. Meta.tail_len = recv.tail_len /\ recv.is_seq_zero BY <2>4, <3>2, FirstIs
      <4>2. QED BY <1>2, <4>1
    <3>3. CASE ~Cur.is_seq_zero
      <4>1. Cur.seq_tail = recv.seq_tail BY FirstIs
      <4>2. QED BY <2>4, <3>1, <3>3, <4>1
    <3>4. QED BY <3>2, <3>3
  <2>6. QED BY <1>3, <2>4, <2>5, FirstIs
<1>4. CASE nm.seq # 0
  <2>1. Meta = Cur BY <1>4 DEF Meta
  <2>2. QED BY <1>2, <1>4, <2>1, FirstIs
<1>5. QED BY <1>3, <1>4

(* What each branch says of the packet.                                    *)
LEMMA Guards ==
    ASSUME RInv, nm.pc = "accept"
    PROVE  LET s == nm.seq
               l == Cur.seq_lst
               f == Cur.seq_fst
           IN  /\ Chosen \in {"next", "zero", "zero_loss", "forward", "wrap", "error"}
               /\ Chosen = "next" => s # 0 /\ s = l + 1
               /\ Chosen = "zero" => s = 0 /\ ~recv.is_seq_zero /\ l \in {NSeq - 1, SEQNUM_MAX}
               /\ Chosen = "zero_loss" => /\ s = 0 /\ ~recv.is_seq_zero
                                          /\ l # NSeq - 1 /\ l # SEQNUM_MAX /\ l > f /\ f # 0
               /\ Chosen = "forward" => /\ s # 0 /\ s > l + 1
                                        /\ ((f > l /\ f > s) \/ l >= f)
               /\ Chosen = "wrap" => s # 0 /\ s <= l /\ s < f /\ f < l
               /\ ~recv.is_seq_fst => Chosen \in {"next", "zero"}
<1> USE DEF RInv
<1> DEFINE s == nm.seq
           l == Cur.seq_lst
           f == Cur.seq_fst
           z == Cur.is_seq_zero
           x == Meta.seq_max
<1>1. /\ s \in SeqNums /\ f \in SeqNums /\ l \in Nat /\ NSeq \in Nat /\ SeqNums = 0 .. (NSeq - 1)
      /\ SEQNUM_MAX \in Nat
      BY FirstIs, WholePackets DEF Types, Recver
<1>2. z = recv.is_seq_zero BY FirstIs
<1>3. Meta.seq_max = IF Meta.is_seq_zero THEN NSeq ELSE 0 BY MetaIs
<1>4. s = 0 => x = NSeq BY <1>3, MetaIs
<1>5. Chosen =
      CASE s # 0 /\ s - l = 1                                          -> "next"
        [] s = 0 /\ ~z /\ l \in {x - 1, SEQNUM_MAX}                    -> "zero"
        [] s = 0 /\ ~z /\ l # x - 1 /\ l # SEQNUM_MAX /\ l > f /\ f # 0 -> "zero_loss"
        [] s # 0 /\ s > l + 1 /\ ((f > l /\ f > s) \/ l >= f)            -> "forward"
        [] s # 0 /\ s <= l /\ s < f /\ f < l                           -> "wrap"
        [] OTHER                                                       -> "error"
      BY DEF Chosen, Branch
<1>6. ~recv.is_seq_fst => f = s /\ l = (IF s = 0 THEN SEQNUM_MAX ELSE s - 1) /\ ~z
      BY <1>2, FirstIs
<1> HIDE DEF s, l, f, z, x
<1>7. s \in Int /\ l \in Int /\ f \in Int BY <1>1
<1> DEFINE c == Chosen
           c1 == s # 0 /\ s - l = 1
           c2 == s = 0 /\ ~z /\ l \in {x - 1, SEQNUM_MAX}
           c3 == s = 0 /\ ~z /\ l # x - 1 /\ l # SEQNUM_MAX /\ l > f /\ f # 0
           c4 == s # 0 /\ s > l + 1 /\ ((f > l /\ f > s) \/ l >= f)
           c5 == s # 0 /\ s <= l /\ s < f /\ f < l
<1>8. c \in {"next", "zero", "zero_loss", "forward", "wrap", "error"} BY <1>5, <1>7
<1>9. /\ c = "next" => c1
      /\ c = "zero" => c2
      /\ c = "zero_loss" => c3
      /\ c = "forward" => c4
      /\ c = "wrap" => c5
      /\ ~recv.is_seq_fst => c1 \/ c2
      /\ c1 => c = "next"
      /\ c2 => c = "zero"
      BY <1>5, <1>6, <1>7
<1>10. c1 => s = l + 1 BY <1>7
<1> HIDE DEF c
<1>11. QED BY <1>2, <1>4, <1>8, <1>9, <1>10 DEF c, s, l, f, z, x

(* The report of a loss and the request it becomes name the same packets.  *)
LEMMA LossIs ==
    ASSUME dataSize \in Sizes, NEW a \in 1 .. NSeq, NEW b \in 1 .. NSeq, NEW f \in SeqNums,
           NEW j, j = <<a, b>>
    PROVE  /\ j \in Tuple /\ j # <<>> /\ j[1] = a /\ j[2] = b
           /\ NotedBy(j, f, NSeq) = SeqsOf(a, b, f) /\ SeqsOf(a, b, f) \subseteq SeqNums
<1>1. j # <<>> /\ j[1] = a /\ j[2] = b OBVIOUS
<1>2. NSeq \in Nat BY WholePackets
<1>3. j \in Tuple BY <1>2 DEF Tuple
<1>4. b \in (0 .. NSeq) \union {SEQ2WARDTHEEND} BY <1>2
<1>5. SeqsOf(a, b, f) = Within(a, b, f, NSeq) /\ SeqsOf(a, b, f) \subseteq SeqNums BY <1>4, AskedFor
<1>6. NotedBy(j, f, NSeq) = Within(a, b, f, NSeq) BY <1>1 DEF NotedBy
<1>7. QED BY <1>1, <1>3, <1>5, <1>6

(* An accepted packet is one the stream had not gone past, and what was    *)
(* lost before it is noted.                                                *)
LEMMA Decided ==
    ASSUME RInv, nm.pc = "accept", Chosen # "error"
    PROVE  /\ Lost \in Tuple \union {<<>>} /\ Noted \subseteq SeqNums
           /\ Lost # <<>> => /\ Lost[1] \in 1 .. NSeq /\ Lost[2] \in 1 .. NSeq
                             /\ SeqsOf(Lost[1], Lost[2], Cur.seq_fst) = Noted
           /\ Lost = <<>> => Noted = {}
           /\ Past(Cur.seq_fst, nm.seq, NSeq)
                  = Written(recv) \union requested \union {nm.seq} \union Noted
           /\ nm.seq \notin Written(recv) \union requested /\ nm.seq \notin Noted
           /\ Noted \intersect (Written(recv) \union requested) = {}
           /\ recv.is_seq_fst => Written(recv) \union requested = Span(recv)
           /\ Chosen \in {"next", "zero"} => Noted = {}
           /\ Chosen = "zero_loss" => Lost = <<Cur.seq_lst + 1, NSeq>>
           /\ Chosen \in {"forward", "wrap"} => Lost = <<Cur.seq_lst + 1, nm.seq>>
           /\ Chosen = "forward" => \A x \in Noted : Cur.seq_lst < x /\ x < nm.seq
           /\ Chosen = "wrap" => 0 \in Noted
<1> USE DEF RInv
<1> DEFINE s == nm.seq
           l == Cur.seq_lst
           f == Cur.seq_fst
           V == Written(recv) \union requested
<1>1. /\ dataSize \in Sizes /\ s \in SeqNums /\ f \in SeqNums /\ NSeq \in Nat \ {0}
      /\ SeqNums = 0 .. (NSeq - 1) /\ NSeq < SEQNUM_MAX /\ SEQNUM_MAX \in Nat
      BY FirstIs, WholePackets DEF Types
<1>2. /\ Chosen \in {"next", "zero", "zero_loss", "forward", "wrap"}
      /\ Chosen = "next" => s # 0 /\ s = l + 1
      /\ Chosen = "zero" => s = 0 /\ ~recv.is_seq_zero /\ l \in {NSeq - 1, SEQNUM_MAX}
      /\ Chosen = "zero_loss" => /\ s = 0 /\ ~recv.is_seq_zero
                                 /\ l # NSeq - 1 /\ l # SEQNUM_MAX /\ l > f /\ f # 0
      /\ Chosen = "forward" => /\ s # 0 /\ s > l + 1
                               /\ ((f > l /\ f > s) \/ l >= f)
      /\ Chosen = "wrap" => s # 0 /\ s <= l /\ s < f /\ f < l
      /\ ~recv.is_seq_fst => Chosen \in {"next", "zero"}
      BY Guards
<1>3. Chosen \in {"next", "zero"} => Lost = <<>> /\ Noted = {}
  <2>1. SUFFICES ASSUME Chosen \in {"next", "zero"} PROVE Lost = <<>> /\ Noted = {} OBVIOUS
  <2>2. Lost = <<>> BY <2>1 DEF Lost, Jump
  <2>3. QED BY <2>2 DEF Noted, NotedBy
<1>4. CASE ~recv.is_seq_fst
  <2>1. f = s /\ Written(recv) = {} /\ requested = {} BY <1>4, FirstIs
  <2>2. Lost = <<>> /\ Noted = {} /\ Chosen \in {"next", "zero"} BY <1>2, <1>3, <1>4
  <2>3. Past(f, s, NSeq) = {s} BY <1>1, <2>1 DEF Past
  <2>4. QED BY <1>1, <1>4, <2>1, <2>2, <2>3
<1>5. CASE recv.is_seq_fst
  <2>1. f = recv.seq_fst /\ l = recv.seq_lst /\ l \in SeqNums BY <1>5, FirstIs DEF Types
  <2>2. ~RestRequested /\ ~Complete(recv) BY DEF Threads
  <2>3. V = Span(recv) BY <1>5, <2>2 DEF EveryLossRequested
  <2>4. V = Past(f, l, NSeq) BY <2>1, <2>3 DEF Span, Past
  <2>5. l + 1 # f /\ ~(f = 0 /\ l + 1 = NSeq) BY <1>5, <2>1, <2>2 DEF Complete
  <2>6. ~recv.is_seq_zero => f # 0 BY <1>5, <2>1 DEF Shape
  <2> DEFINE J == IF Chosen \in {"next", "zero"} THEN {}
                  ELSE SeqsOf(l + 1, IF Chosen = "zero_loss" THEN NSeq ELSE s, f)
             pt == <<l + 1, IF Chosen = "zero_loss" THEN NSeq ELSE s>>
  <2> HIDE DEF s, l, f, V
  <2>7. /\ Joins(f, l, s, J) /\ (Chosen = "wrap" => 0 \in J)
        /\ Chosen = "forward" => J = (l + 1) .. (s - 1)
    <3>1. CASE Chosen = "next"
      <4>1. Joins(f, l, s, {}) BY <1>1, <1>2, <2>1, <2>5, <3>1, JoinNext
      <4>2. QED BY <3>1, <4>1
    <3>2. CASE Chosen = "zero"
      <4>1. s = 0 /\ l = NSeq - 1 /\ f # 0 BY <1>1, <1>2, <2>1, <2>6, <3>2
      <4>2. Joins(f, NSeq - 1, 0, {}) BY <1>1, <4>1, JoinZero
      <4>3. QED BY <3>2, <4>1, <4>2
    <3>3. CASE Chosen = "zero_loss"
      <4>1. s = 0 /\ l # NSeq - 1 /\ l > f /\ f # 0 BY <1>2, <3>3
      <4>2. Joins(f, l, 0, SeqsOf(l + 1, NSeq, f)) BY <1>1, <2>1, <4>1, JoinZeroLoss
      <4>3. QED BY <3>3, <4>1, <4>2
    <3>4. CASE Chosen = "forward"
      <4>1. s > l + 1 /\ ((f > l /\ f > s) \/ l >= f) BY <1>2, <3>4
      <4>2. Joins(f, l, s, SeqsOf(l + 1, s, f)) BY <1>1, <2>1, <4>1, JoinForward
      <4>3. l + 1 \in 1 .. NSeq /\ s \in (0 .. NSeq) \union {SEQ2WARDTHEEND} /\ s # SEQ2WARDTHEEND
            /\ l + 1 # NSeq
            BY <1>1, <2>1, <4>1 DEF SEQ2WARDTHEEND
      <4>4. SeqsOf(l + 1, s, f) = Within(l + 1, s, f, NSeq) BY <1>1, <4>3, AskedFor
      <4>5. Within(l + 1, s, f, NSeq) = (l + 1) .. (s - 1) BY <1>1, <2>1, <4>1, <4>3 DEF Within
      <4>6. QED BY <3>4, <4>2, <4>4, <4>5
    <3>5. CASE Chosen = "wrap"
      <4>1. s # 0 /\ s < f /\ f < l BY <1>2, <3>5
      <4>2. Joins(f, l, s, SeqsOf(l + 1, s, f)) /\ 0 \in SeqsOf(l + 1, s, f)
            BY <1>1, <2>1, <4>1, JoinWrap
      <4>3. QED BY <3>5, <4>2
    <3>6. QED BY <1>2, <3>1, <3>2, <3>3, <3>4, <3>5
  <2>8. CASE Chosen \in {"next", "zero"}
    <3>1. J = {} /\ Lost = <<>> /\ Noted = {} BY <1>3, <2>8
    <3> HIDE DEF J
    <3>2. QED BY <1>1, <1>5, <2>3, <2>4, <2>7, <2>8, <3>1 DEF Joins, V, s, l, f
  <2>9. CASE Chosen \in {"zero_loss", "forward", "wrap"}
    <3> DEFINE e == IF Chosen = "zero_loss" THEN NSeq ELSE s
    <3>1. l + 1 \in 1 .. NSeq /\ e \in 1 .. NSeq BY <1>1, <1>2, <2>1, <2>9
    <3>2. Lost = <<l + 1, e>> BY <2>9 DEF Lost, Jump, l, s
    <3>3. J = SeqsOf(l + 1, e, f) BY <2>9
    <3> HIDE DEF e, J
    <3>4. /\ Lost \in Tuple /\ Lost # <<>> /\ Lost[1] = l + 1 /\ Lost[2] = e
          /\ NotedBy(Lost, f, NSeq) = J /\ J \subseteq SeqNums
          BY <1>1, <3>1, <3>2, <3>3, LossIs
    <3>5. Noted = J BY <3>4 DEF Noted, f
    <3>6. SeqsOf(Lost[1], Lost[2], f) = Noted BY <3>3, <3>4, <3>5
    <3>7. Chosen = "forward" => \A x \in Noted : l < x /\ x < s
      <4>1. l \in Int /\ s \in Int BY <1>1, <2>1
      <4>2. QED BY <2>7, <3>5, <4>1
    <3>8. /\ Chosen = "zero_loss" => Lost = <<l + 1, NSeq>>
          /\ Chosen \in {"forward", "wrap"} => Lost = <<l + 1, s>>
          BY <3>2 DEF e
    <3>9. /\ s \notin V /\ s \notin Noted /\ Noted \intersect V = {}
          /\ Past(f, s, NSeq) = V \union {s} \union Noted
          BY <2>4, <2>7, <3>5 DEF Joins
    <3>10. Chosen = "wrap" => 0 \in Noted BY <2>7, <3>5
    <3>11. /\ Lost \in Tuple \union {<<>>} /\ Noted \subseteq SeqNums /\ Lost # <<>>
           /\ Lost[1] \in 1 .. NSeq /\ Lost[2] \in 1 .. NSeq
           /\ ~(Chosen \in {"next", "zero"})
           BY <2>9, <3>1, <3>4, <3>5
    <3>12. QED BY <2>3, <3>6, <3>7, <3>8, <3>9, <3>10, <3>11, Zenon DEF s, l, f, V
  <2>10. QED BY <1>2, <2>8, <2>9
<1>6. QED BY <1>4, <1>5

(* The position of the file never moves back.                              *)
LEMMA GapIs ==
    ASSUME RInv, nm.pc = "accept", Chosen # "error"
    PROVE  Gap(Meta, Chosen, nm.seq) \in Nat /\ PktLen(nm.seq) \in Nat
<1> USE DEF RInv
<1> DEFINE s == nm.seq
           l == Cur.seq_lst
           g == Gap(Meta, Chosen, s)
<1>1. /\ dataSize \in Sizes /\ s \in SeqNums /\ NSeq \in Nat \ {0} /\ Payload \in Nat \ {0}
      /\ PayloadMin \in 1 .. Payload /\ SeqNums = 0 .. (NSeq - 1)
      BY WholePackets DEF Types
<1>2. l \in Nat /\ (Chosen = "zero_loss" => l \in SeqNums)
  <2>1. l \in Nat BY FirstIs DEF Recver
  <2>2. Chosen = "zero_loss" => recv.is_seq_fst BY Guards
  <2>3. recv.is_seq_fst => l = recv.seq_lst BY FirstIs
  <2>4. recv.seq_lst \in SeqNums BY DEF Types
  <2>5. QED BY <2>1, <2>2, <2>3, <2>4
<1>3. /\ Chosen = "zero_loss" => l # NSeq - 1
      /\ Chosen = "forward" => s > l + 1
      BY Guards
<1>4. Meta.seq_lst = l BY MetaIs
<1>5. g = CASE Chosen = "zero_loss" -> (NSeq - l - 2) * Payload + PayloadMin
            [] Chosen = "forward"   -> (s - l - 1) * Payload
            [] Chosen = "wrap"      -> s * Payload
            [] OTHER                -> 0
      BY <1>4 DEF Gap
<1> HIDE DEF s, l, g
<1>6. CASE Chosen = "zero_loss"
  <2>1. NSeq - l - 2 \in Nat BY <1>1, <1>2, <1>3, <1>6
  <2>2. (NSeq - l - 2) * Payload \in Nat BY <1>1, <2>1
  <2>3. g = (NSeq - l - 2) * Payload + PayloadMin BY <1>5, <1>6
  <2>4. g \in Nat BY <1>1, <2>2, <2>3
  <2>5. QED BY <1>1, <2>4 DEF s, g, PktLen
<1>7. CASE Chosen = "forward"
  <2>1. s - l - 1 \in Nat BY <1>1, <1>2, <1>3, <1>7
  <2>2. g = (s - l - 1) * Payload BY <1>5, <1>7
  <2>3. g \in Nat BY <1>1, <2>1, <2>2
  <2>4. QED BY <1>1, <2>3 DEF s, g, PktLen
<1>8. CASE Chosen = "wrap"
  <2>1. g = s * Payload BY <1>5, <1>8
  <2>2. g \in Nat BY <1>1, <2>1
  <2>3. QED BY <1>1, <2>2 DEF s, g, PktLen
<1>9. CASE Chosen \notin {"zero_loss", "forward", "wrap"}
  <2>1. g = 0 BY <1>5, <1>9
  <2>2. QED BY <1>1, <2>1 DEF s, g, PktLen
<1>10. QED BY <1>6, <1>7, <1>8, <1>9

LEMMA AcceptedIs ==
    ASSUME RInv, nm.pc = "accept", Chosen # "error", dataSize' = dataSize,
           recv' = [Accepted(Meta, Chosen, nm.seq) EXCEPT !.lock = TRUE]
    PROVE  /\ recv' \in Recver /\ recv'.lock = TRUE /\ recv'.is_fastpath = recv.is_fastpath
           /\ recv'.is_finished = recv.is_finished /\ recv'.is_seq_fst
           /\ recv'.seq_fst = Cur.seq_fst /\ recv'.seq_lst = nm.seq
           /\ recv'.seq_tail = IF Chosen = "wrap" THEN Cur.seq_lst ELSE recv.seq_tail
           /\ recv'.start = IF Chosen = "wrap" THEN recv.tell ELSE Meta.start
           /\ recv'.is_seq_zero = Meta.is_seq_zero /\ recv'.seq_max = Meta.seq_max
           /\ recv'.tail_len = Meta.tail_len
           /\ recv'.num_fast = recv.num_fast + 1 /\ recv'.num_slow = recv.num_slow
           /\ recv'.buf = recv.buf
           /\ recv'.file = [recv.file EXCEPT ![nm.seq] = recv.tell + Gap(Meta, Chosen, nm.seq)]
           /\ recv'.tell = recv.tell + Gap(Meta, Chosen, nm.seq) + PktLen(nm.seq)
           /\ Written(recv)' = Written(recv) \union {nm.seq}
<1> USE DEF RInv
<1> DEFINE s == nm.seq
           g == Gap(Meta, Chosen, s)
           o == Meta.tell + g
           t == o + PktLen(s)
           w == [Meta.file EXCEPT ![s] = o]
           W == Wrapped(Meta, Chosen)
           st == IF Chosen = "wrap" THEN Meta.tell ELSE Meta.start
           tl == IF Chosen = "wrap" THEN Meta.seq_lst ELSE Meta.seq_tail
           k == Meta.num_fast + 1
<1>1. /\ s \in SeqNums /\ g \in Nat /\ PktLen(s) \in Nat /\ Meta \in Recver /\ recv \in Recver
      /\ SeqNums \subseteq Nat
      BY GapIs, MetaIs, WholePackets DEF Types
<1>2. /\ Meta.tell \in Nat /\ Meta.file \in [SeqNums -> Nat \union {Unwritten}]
      /\ Meta.start \in Int /\ Meta.seq_lst \in Nat /\ Meta.seq_tail \in Nat /\ Meta.num_fast \in Nat
      BY <1>1 DEF Recver
<1>3. W = [Meta EXCEPT !.seq_tail = tl, !.start = st]
  <2>1. CASE Chosen = "wrap" BY <2>1 DEF Wrapped
  <2>2. CASE Chosen # "wrap" BY <1>1, <2>2 DEF Wrapped, Recver
  <2>3. QED BY <2>1, <2>2
<1>4. Accepted(Meta, Chosen, s) = [W EXCEPT !.file[s] = o, !.tell = t,
                                            !.num_fast = W.num_fast + 1, !.seq_lst = s]
      BY DEF Accepted
<1>5. W.num_fast = Meta.num_fast /\ W.file = Meta.file BY <1>1, <1>3 DEF Recver
<1>6. o \in Nat /\ t \in Nat /\ k \in Nat /\ st \in Int /\ tl \in Nat
      BY <1>1, <1>2
<1>7. w \in [SeqNums -> Nat \union {Unwritten}] /\ w[s] = o /\ \A x \in SeqNums : x # s => w[x] = Meta.file[x]
  <2> HIDE DEF o
  <2>1. QED BY <1>1, <1>2, <1>6
<1>8. o # Unwritten BY <1>6 DEF Unwritten
<1>9. recv' = [Meta EXCEPT !.seq_tail = tl, !.start = st, !.file = w, !.tell = t,
                           !.num_fast = k, !.seq_lst = s, !.lock = TRUE]
  <2> HIDE DEF o, t, st, tl
  <2>1. [W EXCEPT !.file[s] = o, !.tell = t, !.num_fast = W.num_fast + 1, !.seq_lst = s]
            = [W EXCEPT !.file = w, !.tell = t, !.num_fast = k, !.seq_lst = s]
        BY <1>5
  <2> HIDE DEF w, k, W
  <2>2. recv' = [[W EXCEPT !.file = w, !.tell = t, !.num_fast = k, !.seq_lst = s] EXCEPT !.lock = TRUE]
        BY <1>4, <2>1
  <2>3. QED BY <1>1, <1>3, <2>2 DEF Recver
<1>10. /\ Meta.is_fastpath = recv.is_fastpath /\ Meta.is_finished = recv.is_finished
       /\ Meta.is_seq_fst /\ Meta.seq_fst = Cur.seq_fst /\ Meta.seq_lst = Cur.seq_lst
       /\ Meta.seq_tail = recv.seq_tail /\ Meta.tell = recv.tell /\ Meta.file = recv.file
       /\ Meta.buf = recv.buf /\ Meta.num_fast = recv.num_fast /\ Meta.num_slow = recv.num_slow
       BY MetaIs
<1> HIDE DEF o, t, w, st, tl, k, W, s, g
<1>11. s \in Nat BY <1>1
<1>12. recv' \in Recver
  <2> DEFINE a == [Meta EXCEPT !.seq_tail = tl, !.start = st, !.file = w]
  <2>1. a \in Recver BY <1>1, <1>6, <1>7 DEF Recver
  <2>2. recv' = [a EXCEPT !.tell = t, !.num_fast = k, !.seq_lst = s, !.lock = TRUE]
        BY <1>1, <1>9 DEF Recver
  <2> HIDE DEF a
  <2>3. QED BY <1>6, <1>11, <2>1, <2>2 DEF Recver
<1>13. /\ recv'.lock = TRUE /\ recv'.is_fastpath = Meta.is_fastpath
       /\ recv'.is_finished = Meta.is_finished /\ recv'.is_seq_fst = Meta.is_seq_fst
       /\ recv'.seq_fst = Meta.seq_fst /\ recv'.seq_lst = s
       /\ recv'.seq_tail = tl /\ recv'.start = st
       /\ recv'.is_seq_zero = Meta.is_seq_zero /\ recv'.seq_max = Meta.seq_max
       /\ recv'.tail_len = Meta.tail_len
       /\ recv'.num_fast = k /\ recv'.num_slow = Meta.num_slow
       /\ recv'.buf = Meta.buf /\ recv'.file = w /\ recv'.tell = t
       BY <1>1, <1>9 DEF Recver
<1>14. Written(recv)' = Written(recv) \union {s}
  <2>1. DOMAIN recv.file = SeqNums /\ DOMAIN w = SeqNums BY <1>2, <1>7, <1>10
  <2>2. Written(recv) = {x \in SeqNums : recv.file[x] # Unwritten \/ recv.buf[x] # Unwritten}
        BY <2>1 DEF Written
  <2>3. Written(recv)' = {x \in SeqNums : w[x] # Unwritten \/ recv.buf[x] # Unwritten}
        BY <1>10, <1>13, <2>1 DEF Written
  <2>4. w[s] # Unwritten /\ \A x \in SeqNums : x # s => w[x] = recv.file[x] BY <1>7, <1>8, <1>10
  <2>5. QED BY <1>1, <2>2, <2>3, <2>4
<1>15. /\ recv'.seq_tail = IF Chosen = "wrap" THEN Cur.seq_lst ELSE recv.seq_tail
       /\ recv'.start = IF Chosen = "wrap" THEN recv.tell ELSE Meta.start
       /\ recv'.num_fast = recv.num_fast + 1
       BY <1>10, <1>13 DEF st, tl, k
<1>16. /\ recv'.tell = recv.tell + g + PktLen(s)
       /\ recv'.file = [recv.file EXCEPT ![s] = recv.tell + g]
       BY <1>10, <1>13 DEF t, o, w
<1>17. QED BY <1>10, <1>12, <1>13, <1>14, <1>15, <1>16 DEF s, g

LEMMA AcceptChanges ==
    ASSUME NetmapAccept
    PROVE  /\ nm.pc = "accept" /\ dataSize' = dataSize /\ rc' = rc /\ nic' = nic /\ n2c' = n2c
           /\ c2i' = c2i /\ up' = up /\ patches' = patches /\ snd' = snd
           /\ IF Chosen = "wrap" /\ WrapAssert(Cur) # "no"
              THEN crash' = WrapAssert(Cur) /\ recv' = recv /\ nm' = nm /\ requested' = requested
              ELSE /\ crash' = crash
                   /\ recv' = [Accepted(Meta, Chosen, nm.seq) EXCEPT !.lock = TRUE]
                   /\ nm' = [nm EXCEPT !.pc = "last", !.first = ~recv.is_seq_fst,
                                       !.zero = Chosen \in {"zero", "zero_loss"}, !.jump = Lost]
                   /\ requested' = requested \union
                          (IF Lost = <<>> THEN {} ELSE SeqsOf(Lost[1], Lost[2], Cur.seq_fst))
  BY DEF NetmapAccept, Cur, Meta, Chosen, Lost

(* The second assertion of the wrap branch can fail, the first one cannot. *)
LEMMA WrapStops ==
    ASSUME RInv, NetmapAccept, Chosen = "wrap", WrapAssert(Cur) # "no"
    PROVE  RInv'
<1> USE DEF RInv
<1>1. /\ nm.pc = "accept" /\ dataSize' = dataSize /\ rc' = rc /\ nic' = nic /\ n2c' = n2c
      /\ c2i' = c2i /\ up' = up /\ patches' = patches /\ snd' = snd
      /\ crash' = WrapAssert(Cur) /\ recv' = recv /\ nm' = nm /\ requested' = requested
      BY AcceptChanges
<1>2. SameData /\ SameMessages BY <1>1, SameRecver DEF SameMessages
<1>3. SeqNums' = SeqNums /\ NSeq' = NSeq /\ Recver' = Recver BY <1>1, SameSize
<1>4. crash' = "start"
  <2>1. recv.is_seq_fst /\ Cur.seq_fst < Cur.seq_lst BY <1>1, Guards
  <2>2. Cur.seq_fst = recv.seq_fst /\ Cur.seq_lst = recv.seq_lst /\ Cur.seq_tail = recv.seq_tail
        BY <1>1, <2>1, FirstIs
  <2>3. recv.seq_tail # 0 => recv.seq_lst < recv.seq_fst BY DEF Shape
  <2>4. recv.seq_fst \in 0 .. (NSeq - 1) /\ recv.seq_lst \in 0 .. (NSeq - 1) /\ NSeq \in Nat
        BY WholePackets DEF Types
  <2>5. Cur.seq_tail = 0 BY <2>1, <2>2, <2>3, <2>4
  <2>6. QED BY <1>1, <2>5 DEF WrapAssert
<1>5. Types' BY <1>1, <1>3, <1>4 DEF Types
<1>6. Fresh'
  <2>1. ~recv.is_seq_fst => snd'.seqEnd = snd.seqEnd /\ rc' = "idle" /\ nm'.pc \notin Packets
        BY <1>1 DEF Fresh
  <2>2. recv' = [recv EXCEPT !.lock = recv.lock, !.is_fastpath = recv.is_fastpath]
        BY <1>1, SameRecver
  <2>3. QED BY <1>1, <2>1, <2>2, KeepsFresh
<1>7. RestRequested' <=> RestRequested BY <1>1 DEF RestRequested
<1>8. Threads' BY <1>1, <1>2, <1>7, DataKept DEF Threads
<1>9. Shape' /\ CountsAreExact' BY <1>2, DataKept
<1>10. Requests' /\ UnderWay' /\ ZeroFirst' BY <1>2, MessagesKept
<1>11. Firsts' BY <1>1, <1>3 DEF Firsts
<1>12. Finished'
  <2>1. Told' = Told BY <1>1, <1>3 DEF Told, Tells
  <2>2. QED BY <1>1, <1>2, <1>3, <2>1, DataKept DEF Finished, AllWritten
<1>13. EveryLossRequested' BY <1>2, <1>7, KeepsRequested
<1>14. PatchesAreReady' BY <1>4 DEF PatchesAreReady
<1>15. QED BY <1>5, <1>6, <1>8, <1>9, <1>10, <1>11, <1>12, <1>13, <1>14

(* Nothing is complete while a packet is accepted.                         *)
LEMMA NotYet ==
    ASSUME RInv, nm.pc = "accept"
    PROVE  /\ ~RestRequested /\ ~Complete(recv) /\ rc # "finish" /\ ~recv.is_finished /\ ~Told
           /\ recv.lock
<1> USE DEF RInv
<1>1. ~RestRequested /\ ~Complete(recv) /\ recv.lock BY DEF Threads
<1>2. Written(recv) # SeqNums BY <1>1, FinishedIsComplete
<1>3. rc # "finish" BY <1>2 DEF Finished
<1>4. AllWritten => Written(recv) = SeqNums BY WrittenFinite DEF AllWritten
<1>5. ~recv.is_finished BY <1>2, <1>4 DEF Finished
<1>6. QED BY <1>1, <1>3, <1>5 DEF Finished

(* A refused packet leaves the data alone but for the metadata.            *)
LEMMA PacketRefused ==
    ASSUME RInv, NetmapAccept, Chosen = "error"
    PROVE  RInv'
<1> USE DEF RInv
<1>1. /\ nm.pc = "accept" /\ dataSize' = dataSize /\ rc' = rc /\ nic' = nic /\ n2c' = n2c
      /\ c2i' = c2i /\ up' = up /\ patches' = patches /\ snd' = snd /\ crash' = crash
      /\ recv' = [Accepted(Meta, Chosen, nm.seq) EXCEPT !.lock = TRUE]
      /\ nm' = [nm EXCEPT !.pc = "last", !.first = ~recv.is_seq_fst,
                          !.zero = Chosen \in {"zero", "zero_loss"}, !.jump = Lost]
      /\ requested' = requested \union
             (IF Lost = <<>> THEN {} ELSE SeqsOf(Lost[1], Lost[2], Cur.seq_fst))
      BY AcceptChanges
<1>2. Lost = <<>> /\ requested' = requested
  <2>1. Lost = <<>> BY DEF Lost, Jump
  <2>2. QED BY <1>1, <2>1
<1>3. recv' = [Meta EXCEPT !.lock = TRUE] BY <1>1 DEF Accepted
<1>4. recv.is_seq_fst BY <1>1, Guards
<1>5. Cur.seq_fst = recv.seq_fst /\ Cur.seq_lst = recv.seq_lst BY <1>1, <1>4, FirstIs
<1>6. /\ Meta \in Recver /\ Meta.is_seq_fst
      /\ Meta.seq_fst = Cur.seq_fst /\ Meta.seq_lst = Cur.seq_lst
      /\ Meta.is_seq_zero <=> recv.is_seq_zero \/ nm.seq = 0
      /\ Meta.seq_max = IF Meta.is_seq_zero THEN NSeq ELSE 0
      /\ Meta.is_seq_zero \/ recv.seq_tail # 0 => Meta.start >= 0
      /\ Meta.tail_len = IF Meta.is_seq_zero /\ recv.seq_tail # 0 /\ TailLen > 0
                         THEN TailLen ELSE 0
      /\ Meta.is_fastpath = recv.is_fastpath /\ Meta.is_finished = recv.is_finished
      /\ Meta.seq_tail = recv.seq_tail /\ Meta.tell = recv.tell
      /\ Meta.file = recv.file /\ Meta.buf = recv.buf
      /\ Meta.num_fast = recv.num_fast /\ Meta.num_slow = recv.num_slow
      BY <1>1, MetaIs
<1>7. /\ recv' \in Recver /\ recv'.lock /\ recv'.is_seq_fst
      /\ recv'.seq_fst = recv.seq_fst /\ recv'.seq_lst = recv.seq_lst
      /\ recv'.is_seq_zero <=> recv.is_seq_zero \/ nm.seq = 0
      /\ recv'.seq_max = IF recv'.is_seq_zero THEN NSeq ELSE 0
      /\ recv'.is_seq_zero \/ recv.seq_tail # 0 => recv'.start >= 0
      /\ recv'.tail_len = IF recv'.is_seq_zero /\ recv.seq_tail # 0 /\ TailLen > 0
                          THEN TailLen ELSE 0
      /\ recv'.is_fastpath = recv.is_fastpath /\ recv'.is_finished = recv.is_finished
      /\ recv'.seq_tail = recv.seq_tail /\ recv'.file = recv.file /\ recv'.buf = recv.buf
      /\ recv'.num_fast = recv.num_fast /\ recv'.num_slow = recv.num_slow
  <2>1. /\ recv' \in Recver /\ recv'.lock = TRUE /\ recv'.is_seq_fst = Meta.is_seq_fst
        /\ recv'.seq_fst = Meta.seq_fst /\ recv'.seq_lst = Meta.seq_lst
        /\ recv'.is_seq_zero = Meta.is_seq_zero /\ recv'.seq_max = Meta.seq_max
        /\ recv'.start = Meta.start /\ recv'.tail_len = Meta.tail_len
        /\ recv'.is_fastpath = Meta.is_fastpath /\ recv'.is_finished = Meta.is_finished
        /\ recv'.seq_tail = Meta.seq_tail /\ recv'.file = Meta.file /\ recv'.buf = Meta.buf
        /\ recv'.num_fast = Meta.num_fast /\ recv'.num_slow = Meta.num_slow
        BY <1>3, <1>6 DEF Recver
  <2>2. QED BY <1>5, <1>6, <2>1
<1>8. nm \in Thread /\ nm.seq \in SeqNums /\ nm.jump = <<>> BY <1>1 DEF Types, Packets
<1>9. /\ nm' \in Thread /\ nm'.pc = "last" /\ nm'.seq = nm.seq /\ nm'.jump = <<>>
      /\ nm'.first = FALSE
  <2> DEFINE z == Chosen \in {"zero", "zero_loss"}
  <2>1. nm' = [nm EXCEPT !.pc = "last", !.first = FALSE, !.zero = z, !.jump = <<>>]
        BY <1>1, <1>2, <1>4
  <2>2. z \in BOOLEAN OBVIOUS
  <2> HIDE DEF z
  <2>3. QED BY <1>8, <2>1, <2>2 DEF Thread, Packets
<1>10. SeqNums' = SeqNums /\ NSeq' = NSeq /\ Recver' = Recver /\ PayloadMin' = PayloadMin
       BY <1>1, SameSize
<1>11. Written(recv)' = Written(recv) BY <1>7 DEF Written
<1>12. /\ ~RestRequested /\ ~Complete(recv) /\ rc # "finish" /\ ~recv.is_finished /\ ~Told
       BY <1>1, NotYet
<1>13. Types' BY <1>1, <1>2, <1>7, <1>8, <1>9, <1>10 DEF Types, Packets
<1>14. Fresh' BY <1>7 DEF Fresh
<1>15. ~RestRequested' BY <1>1, <1>12 DEF RestRequested
<1>16. Threads'
  <2>1. ~Complete(recv)' BY <1>4, <1>7, <1>10, <1>12 DEF Complete
  <2>2. QED BY <1>1, <1>7, <1>9, <1>15, <2>1 DEF Threads
<1>17. Shape'
  <2>1. TailLen' = TailLen BY <1>7, <1>10 DEF TailLen
  <2>2. QED BY <1>2, <1>4, <1>7, <1>10, <1>11, <2>1 DEF Shape
<1>18. Reported' = Reported /\ Piped' = Piped /\ Sent' = Sent /\ Coming' = Coming
       BY <1>1, <1>7, <1>8, <1>9, <1>10 DEF Reported, Piped, Sent, Coming
<1>19. Requests' BY <1>1, <1>9, <1>10 DEF Requests
<1>20. UnderWay' BY <1>1, <1>2, <1>7, <1>10, <1>11, <1>18 DEF UnderWay
<1>21. ZeroFirst' BY <1>1, <1>7, <1>10, <1>18 DEF ZeroFirst
<1>22. Firsts' BY <1>1, <1>7, <1>9, <1>10 DEF Firsts
<1>23. Finished'
  <2>1. ~Told' BY <1>1, <1>9, <1>10, <1>12 DEF Told, Tells
  <2>2. QED BY <1>1, <1>7, <1>9, <1>12, <2>1 DEF Finished
<1>24. EveryLossRequested'
  <2>1. Span(recv)' = Span(recv) BY <1>7, <1>10 DEF Span
  <2>2. QED BY <1>2, <1>4, <1>11, <1>12, <1>15, <2>1 DEF EveryLossRequested
<1>25. CountsAreExact' BY <1>2, <1>7, <1>11 DEF CountsAreExact
<1>26. PatchesAreReady' BY <1>1 DEF PatchesAreReady
<1>27. QED BY <1>13, <1>14, <1>16, <1>17, <1>19, <1>20, <1>21, <1>22, <1>23, <1>24, <1>25, <1>26

(* The RecverState keeps its shape when a packet is accepted.              *)
LEMMA ShapeAccepted ==
    ASSUME RInv, nm.pc = "accept", Chosen # "error", dataSize' = dataSize,
           Chosen = "wrap" => WrapAssert(Cur) = "no",
           recv' = [Accepted(Meta, Chosen, nm.seq) EXCEPT !.lock = TRUE],
           requested' = requested \union Noted
    PROVE  /\ Shape' /\ recv'.seq_tail \in SeqNums
           /\ Chosen = "wrap" => ~recv.is_seq_zero /\ recv.seq_tail = 0
<1> USE DEF RInv
<1> DEFINE s == nm.seq
           l == Cur.seq_lst
           f == Cur.seq_fst
<1>1. /\ recv'.is_seq_fst /\ recv'.seq_fst = f /\ recv'.seq_lst = s
      /\ recv'.seq_tail = IF Chosen = "wrap" THEN l ELSE recv.seq_tail
      /\ recv'.start = IF Chosen = "wrap" THEN recv.tell ELSE Meta.start
      /\ recv'.is_seq_zero = Meta.is_seq_zero /\ recv'.seq_max = Meta.seq_max
      /\ recv'.tail_len = Meta.tail_len /\ recv'.buf = recv.buf
      /\ Written(recv)' = Written(recv) \union {s}
      BY AcceptedIs
<1>2. /\ Meta.is_seq_zero <=> recv.is_seq_zero \/ s = 0
      /\ Meta.seq_max = IF Meta.is_seq_zero THEN NSeq ELSE 0
      /\ Meta.is_seq_zero \/ recv.seq_tail # 0 => Meta.start >= 0
      /\ Meta.tail_len = IF Meta.is_seq_zero /\ recv.seq_tail # 0 /\ TailLen > 0
                         THEN TailLen ELSE 0
      BY MetaIs
<1>3. /\ Chosen = "next" => s # 0 /\ s = l + 1
      /\ Chosen = "zero" => s = 0 /\ l \in {NSeq - 1, SEQNUM_MAX}
      /\ Chosen = "zero_loss" => s = 0 /\ l > f
      /\ Chosen = "forward" => s # 0 /\ s > l + 1 /\ ((f > l /\ f > s) \/ l >= f)
      /\ Chosen = "wrap" => s # 0 /\ s <= l /\ s < f /\ f < l
      /\ ~recv.is_seq_fst => Chosen \in {"next", "zero"}
      /\ Chosen \in {"next", "zero", "zero_loss", "forward", "wrap"}
      BY Guards
<1>4. /\ dataSize \in Sizes /\ s \in SeqNums /\ f \in SeqNums /\ NSeq \in Nat \ {0}
      /\ SeqNums = 0 .. (NSeq - 1) /\ NSeq < SEQNUM_MAX /\ SEQNUM_MAX \in Nat
      /\ recv.seq_tail \in SeqNums /\ recv.tell \in Nat /\ recv.start \in Int
      BY FirstIs, WholePackets DEF Types, Recver
<1>5. recv.is_seq_fst => f = recv.seq_fst /\ l = recv.seq_lst /\ l \in SeqNums
      BY FirstIs DEF Types
<1>6. ~recv.is_seq_fst => f = s /\ ~recv.is_seq_zero /\ recv.seq_tail = 0 /\ requested = {}
      BY FirstIs
<1>7. ~Complete(recv) BY NotYet
<1>8. recv.is_seq_fst => l + 1 # f BY <1>5, <1>7 DEF Complete
<1>9. /\ recv.is_seq_fst /\ f = 0 => recv.is_seq_zero
      /\ recv.is_seq_fst /\ recv.seq_tail # 0 => l < f /\ f < recv.seq_tail
      /\ recv.is_seq_fst /\ l < f => recv.is_seq_zero \/ recv.seq_tail # 0
      /\ \A x \in SeqNums : recv.buf[x] # Unwritten =>
             recv.seq_tail # 0 /\ x > recv.seq_tail /\ recv.is_seq_zero
      /\ 0 \in Written(recv) => recv.is_seq_zero
      /\ recv.is_seq_fst => f \in Written(recv) \ requested
      BY <1>5 DEF Shape
<1>10. Chosen = "wrap" => /\ recv.is_seq_fst /\ ~recv.is_seq_zero /\ recv.seq_tail = 0
                          /\ l \in SeqNums /\ l # 0
  <2>1. SUFFICES ASSUME Chosen = "wrap"
                 PROVE  /\ recv.is_seq_fst /\ ~recv.is_seq_zero /\ recv.seq_tail = 0
                        /\ l \in SeqNums /\ l # 0
        OBVIOUS
  <2>2. recv.is_seq_fst BY <1>3, <2>1
  <2>3. Cur.seq_tail = 0 /\ Cur.start = -1 BY <2>1 DEF WrapAssert
  <2>4. recv.seq_tail = 0 /\ recv.start = -1 BY <2>3, FirstIs
  <2>5. ~recv.is_seq_zero
    <3>1. recv.is_seq_zero => recv.start >= 0 BY DEF Shape
    <3>2. QED BY <2>4, <3>1
  <2>6. l \in SeqNums /\ l # 0 BY <1>3, <1>4, <1>5, <2>1, <2>2
  <2>7. QED BY <2>2, <2>4, <2>5, <2>6
<1> HIDE DEF s, l, f
<1>11. SeqNums' = SeqNums /\ NSeq' = NSeq /\ PayloadMin' = PayloadMin BY SameSize
<1>12. recv'.seq_tail \in SeqNums BY <1>1, <1>4, <1>10
<1>13. recv'.seq_tail # 0 => s < f /\ f < recv'.seq_tail
  <2>1. CASE Chosen = "wrap" BY <1>1, <1>3, <2>1
  <2>2. CASE Chosen # "wrap"
    <3>1. SUFFICES ASSUME recv.seq_tail # 0 PROVE s < f /\ f < recv.seq_tail BY <1>1, <2>2
    <3>2. recv.is_seq_fst /\ l \in SeqNums /\ l < f /\ f < recv.seq_tail BY <1>5, <1>6, <1>9, <3>1
    <3>3. s < f BY <1>3, <1>4, <1>8, <2>2, <3>2
    <3>4. QED BY <3>2, <3>3
  <2>3. QED BY <2>1, <2>2
<1>14. s < f => recv'.is_seq_zero \/ recv'.seq_tail # 0
  <2>1. SUFFICES ASSUME s < f, s # 0, Chosen # "wrap" PROVE recv.is_seq_zero \/ recv.seq_tail # 0
        BY <1>1, <1>2, <1>10
  <2>2. recv.is_seq_fst /\ l \in SeqNums BY <1>4, <1>5, <1>6, <2>1
  <2>3. l < f BY <1>3, <1>4, <2>1, <2>2
  <2>4. QED BY <1>9, <2>2, <2>3
<1>15. recv'.is_seq_zero \/ recv'.seq_tail # 0 => recv'.start >= 0
       BY <1>1, <1>2, <1>4
<1>16. recv'.tail_len = IF recv'.is_seq_zero /\ recv'.seq_tail # 0 /\ TailLen' > 0 THEN TailLen' ELSE 0
  <2>1. CASE Chosen = "wrap"
    <3>1. ~Meta.is_seq_zero BY <1>2, <1>3, <1>10, <2>1
    <3>2. QED BY <1>1, <1>2, <3>1
  <2>2. CASE Chosen # "wrap"
    <3>1. TailLen' = TailLen BY <1>1, <1>11, <2>2 DEF TailLen
    <3>2. QED BY <1>1, <1>2, <2>2, <3>1
  <2>3. QED BY <2>1, <2>2
<1>17. \A x \in SeqNums : recv'.buf[x] # Unwritten =>
             recv'.seq_tail # 0 /\ x > recv'.seq_tail /\ recv'.is_seq_zero
       BY <1>1, <1>2, <1>9, <1>10
<1>18. 0 \in Written(recv)' => recv'.is_seq_zero BY <1>1, <1>2, <1>9
<1>19. f \in Written(recv)' \ requested'
  <2>1. Noted \intersect Written(recv) = {} /\ s \notin Noted BY Decided DEF s
  <2>2. CASE recv.is_seq_fst
    <3>1. f \in Written(recv) /\ f \notin requested BY <1>9, <2>2
    <3>2. f \notin Noted BY <2>1, <3>1
    <3>3. f \in Written(recv)' BY <1>1, <3>1
    <3>4. QED BY <3>1, <3>2, <3>3
  <2>3. CASE ~recv.is_seq_fst
    <3>1. f = s /\ requested = {} BY <1>6, <2>3
    <3>2. f \in Written(recv)' BY <1>1, <3>1
    <3>3. QED BY <2>1, <3>1, <3>2
  <2>4. QED BY <2>2, <2>3
<1>20. recv'.is_seq_fst /\ recv'.seq_fst = 0 => recv'.is_seq_zero BY <1>1, <1>2, <1>6, <1>9
<1>21. recv'.seq_max = IF recv'.is_seq_zero THEN NSeq ELSE 0 BY <1>1, <1>2
<1>22. Shape'
       BY <1>1, <1>11, <1>13, <1>14, <1>15, <1>16, <1>17, <1>18, <1>19, <1>20, <1>21 DEF Shape
<1>23. QED BY <1>10, <1>12, <1>22

(* A packet is accepted.                                                   *)
LEMMA PacketAccepted ==
    ASSUME RInv, NetmapAccept, Chosen # "error", Chosen = "wrap" => WrapAssert(Cur) = "no"
    PROVE  RInv'
<1> USE DEF RInv
<1> DEFINE s == nm.seq
           f == Cur.seq_fst
           V == Written(recv) \union requested
<1>1. /\ nm.pc = "accept" /\ dataSize' = dataSize /\ rc' = rc /\ nic' = nic /\ n2c' = n2c
      /\ c2i' = c2i /\ up' = up /\ patches' = patches /\ snd' = snd /\ crash' = crash
      /\ recv' = [Accepted(Meta, Chosen, nm.seq) EXCEPT !.lock = TRUE]
      /\ nm' = [nm EXCEPT !.pc = "last", !.first = ~recv.is_seq_fst,
                          !.zero = Chosen \in {"zero", "zero_loss"}, !.jump = Lost]
      /\ requested' = requested \union
             (IF Lost = <<>> THEN {} ELSE SeqsOf(Lost[1], Lost[2], Cur.seq_fst))
      BY AcceptChanges
<1>2. /\ Lost \in Tuple \union {<<>>} /\ Noted \subseteq SeqNums
      /\ Lost # <<>> => /\ Lost[1] \in 1 .. NSeq /\ Lost[2] \in 1 .. NSeq
                        /\ SeqsOf(Lost[1], Lost[2], Cur.seq_fst) = Noted
      /\ Lost = <<>> => Noted = {}
      /\ Past(f, s, NSeq) = V \union {s} \union Noted
      /\ s \notin V /\ s \notin Noted /\ Noted \intersect V = {}
      /\ recv.is_seq_fst => V = Span(recv)
      /\ Chosen \in {"next", "zero"} => Noted = {}
      /\ Chosen = "forward" => \A x \in Noted : Cur.seq_lst < x /\ x < s
      /\ Chosen = "wrap" => 0 \in Noted
      BY <1>1, Decided
<1>3. requested' = requested \union Noted BY <1>1, <1>2
<1>4. /\ recv' \in Recver /\ recv'.lock = TRUE /\ recv'.is_fastpath = recv.is_fastpath
      /\ recv'.is_finished = recv.is_finished /\ recv'.is_seq_fst
      /\ recv'.seq_fst = f /\ recv'.seq_lst = s
      /\ recv'.seq_tail = IF Chosen = "wrap" THEN Cur.seq_lst ELSE recv.seq_tail
      /\ recv'.is_seq_zero = Meta.is_seq_zero
      /\ recv'.num_fast = recv.num_fast + 1 /\ recv'.num_slow = recv.num_slow
      /\ Written(recv)' = Written(recv) \union {s}
      BY <1>1, AcceptedIs
<1>5. Meta.is_seq_zero <=> recv.is_seq_zero \/ s = 0 BY <1>1, MetaIs
<1>6. /\ Shape' /\ recv'.seq_tail \in SeqNums
      /\ Chosen = "wrap" => ~recv.is_seq_zero /\ recv.seq_tail = 0
      BY <1>1, <1>3, ShapeAccepted
<1>7. /\ f \in SeqNums
      /\ recv.is_seq_fst => f = recv.seq_fst /\ Cur.seq_lst = recv.seq_lst
      /\ ~recv.is_seq_fst =>
             /\ f = s /\ ~recv.is_seq_zero /\ recv.seq_tail = 0 /\ Written(recv) = {} /\ requested = {}
             /\ n2c = <<>> /\ up = <<>> /\ patches = <<>> /\ snd.seqEnd = NoSeq
      BY <1>1, FirstIs
<1>8. /\ ~RestRequested /\ ~Complete(recv) /\ rc # "finish" /\ ~recv.is_finished /\ ~Told
      BY <1>1, NotYet
<1>9. nm \in Thread /\ s \in SeqNums /\ nm.jump = <<>> BY <1>1 DEF Types, Packets
<1>10. /\ nm' \in Thread /\ nm'.pc = "last" /\ nm'.seq = s /\ nm'.jump = Lost
       /\ nm'.first = ~recv.is_seq_fst
  <2> DEFINE z == Chosen \in {"zero", "zero_loss"}
             i == ~recv.is_seq_fst
  <2>1. nm' = [nm EXCEPT !.pc = "last", !.first = i, !.zero = z, !.jump = Lost] BY <1>1
  <2>2. z \in BOOLEAN /\ i \in BOOLEAN OBVIOUS
  <2> HIDE DEF z, i
  <2>3. /\ nm' \in Thread /\ nm'.pc = "last" /\ nm'.seq = nm.seq /\ nm'.jump = Lost
        /\ nm'.first = i
        BY <1>2, <1>9, <2>1, <2>2 DEF Thread, Packets
  <2>4. QED BY <2>3 DEF i
<1>11. SeqNums' = SeqNums /\ NSeq' = NSeq /\ Recver' = Recver /\ PayloadMin' = PayloadMin
       BY <1>1, SameSize
<1>12. Reported' = Noted BY <1>4, <1>10, <1>11 DEF Reported, Noted
<1>13. Piped' = Piped /\ Sent' = Sent /\ Coming' = Coming
  <2>1. CASE recv.is_seq_fst BY <1>1, <1>4, <1>7, <1>11, <2>1 DEF Piped, Sent, Coming
  <2>2. CASE ~recv.is_seq_fst
    <3>1. n2c = <<>> /\ up = <<>> /\ patches = <<>> BY <1>7, <2>2
    <3>2. Piped = {} /\ Sent = {} BY <3>1, AskedOfNone DEF Piped, Sent
    <3>3. Piped' = {} /\ Sent' = {} BY <1>1, <1>4, <1>11, <3>1, AskedOfNone DEF Piped, Sent
    <3>4. Coming' = Coming BY <1>1 DEF Coming
    <3>5. QED BY <3>2, <3>3, <3>4
  <2>3. QED BY <2>1, <2>2
<1> HIDE DEF s, f, V
<1>14. requested' \subseteq SeqNums BY <1>2, <1>3 DEF Types
<1>15. Types'
       BY <1>1, <1>4, <1>6, <1>7, <1>9, <1>10, <1>11, <1>14 DEF Types, Packets
<1>16. Fresh' BY <1>4 DEF Fresh
<1>17. ~RestRequested' BY <1>1, <1>8 DEF RestRequested
<1>18. Threads' BY <1>1, <1>4, <1>10, <1>17 DEF Threads
<1>19. Requests' BY <1>1, <1>2, <1>10, <1>11 DEF Requests
<1>20. UnderWay'
  <2>1. Piped \union Sent \union Coming \subseteq requested \ Written(recv) BY DEF UnderWay
  <2>2. Noted \union Piped \union Sent \union Coming \subseteq requested' \ Written(recv)'
        BY <1>2, <1>3, <1>4, <2>1 DEF V
  <2>3. Apart(Noted, Piped, Sent, Coming) BY <1>2, <2>1 DEF UnderWay, Apart, V
  <2>4. Once(n2c, f, NSeq) /\ Once(up, f, NSeq)
    <3>1. CASE recv.is_seq_fst BY <1>7, <3>1 DEF UnderWay
    <3>2. CASE ~recv.is_seq_fst BY <1>7, <3>2, AskedOfNone
    <3>3. QED BY <3>1, <3>2
  <2>5. \A i, j \in DOMAIN patches : patches[i] = patches[j] => i = j BY DEF UnderWay
  <2>6. QED BY <1>1, <1>4, <1>11, <1>12, <1>13, <2>2, <2>3, <2>4, <2>5 DEF UnderWay
<1>21. Firsts'
  <2>1. nm'.first => nm'.seq = recv'.seq_fst BY <1>4, <1>7, <1>10
  <2>2. /\ \A m \in Range(n2c) : m.type = "FIRST" => m.seq = f
        /\ \A m \in Range(up) : m.type = "FIRST_SEQ" => m.seq = f
        /\ snd.seqEnd # NoSeq => snd.seqEnd % NSeq = f
    <3>1. CASE recv.is_seq_fst BY <1>7, <3>1 DEF Firsts
    <3>2. CASE ~recv.is_seq_fst
      <4>1. Range(<<>>) = {} BY NoMessage
      <4>2. QED BY <1>7, <3>2, <4>1
    <3>3. QED BY <3>1, <3>2
  <2>3. QED BY <1>1, <1>4, <1>11, <2>1, <2>2 DEF Firsts
<1>22. Finished'
  <2>1. ~Told' BY <1>1, <1>8, <1>10, <1>11 DEF Told, Tells
  <2>2. QED BY <1>1, <1>4, <1>8, <1>10, <2>1 DEF Finished
<1>23. EveryLossRequested'
  <2>1. Span(recv)' = Past(f, s, NSeq) BY <1>4, <1>11 DEF Span, Past
  <2>2. Written(recv)' \union requested' = V \union {s} \union Noted BY <1>3, <1>4 DEF V
  <2>3. QED BY <1>2, <1>17, <2>1, <2>2 DEF EveryLossRequested
<1>24. CountsAreExact'
  <2> DEFINE A == Written(recv) \ requested
  <2>1. /\ Written(recv)' \ requested' = A \union {s}
        /\ Written(recv)' \intersect requested' = Written(recv) \intersect requested
        BY <1>2, <1>3, <1>4 DEF V
  <2>2. IsFiniteSet(A) /\ s \notin A BY <1>2, WrittenFinite, FS_Subset DEF V
  <2>3. Cardinality(A \union {s}) = Cardinality(A) + 1 BY <2>2, FS_AddElement
  <2>4. QED BY <1>4, <2>1, <2>3 DEF CountsAreExact
<1>25. PatchesAreReady' BY <1>1 DEF PatchesAreReady
<1>26. ZeroFirst'
  <2> DEFINE t == recv'.seq_tail
  <2>1. SUFFICES ASSUME ~recv.is_seq_zero, s # 0, ~recv'.is_seq_zero PROVE ZeroFirst'
        BY <1>4, <1>5 DEF ZeroFirst
  <2>2. /\ dataSize \in Sizes /\ NSeq \in Nat \ {0} /\ SeqNums = 0 .. (NSeq - 1)
        /\ s \in 0 .. (NSeq - 1) /\ f \in 0 .. (NSeq - 1) /\ t \in 0 .. (NSeq - 1)
        /\ recv.seq_lst \in 0 .. (NSeq - 1) /\ recv.seq_tail \in 0 .. (NSeq - 1)
        BY <1>6, <1>7, <1>9, WholePackets DEF Types
  <2>3. /\ Chosen \in {"next", "zero", "zero_loss", "forward", "wrap"}
        /\ Chosen \in {"zero", "zero_loss"} => s = 0
        /\ Chosen = "wrap" => recv.is_seq_fst /\ f < recv.seq_lst
        /\ ~recv.is_seq_fst => Chosen \in {"next", "zero"}
    <3>1. /\ Chosen \in {"next", "zero", "zero_loss", "forward", "wrap"}
          /\ Chosen \in {"zero", "zero_loss"} => s = 0
          /\ Chosen = "wrap" => f < Cur.seq_lst
          /\ ~recv.is_seq_fst => Chosen \in {"next", "zero"}
          BY <1>1, Guards DEF s, f
    <3>2. QED BY <1>7, <3>1
  <2>4. ZeroIn(Noted, f, t)
    <3>1. CASE Chosen = "next" BY <1>2, <3>1 DEF ZeroIn
    <3>2. CASE Chosen = "wrap" BY <1>2, <3>2 DEF ZeroIn
    <3>3. CASE Chosen = "forward"
      <4>1. recv.is_seq_fst /\ t = recv.seq_tail /\ Cur.seq_lst = recv.seq_lst
            BY <1>4, <1>7, <2>3, <3>3
      <4>2. \A x \in Noted : x \in 0 .. (NSeq - 1) /\ recv.seq_lst < x /\ x < s
            BY <1>2, <2>2, <3>3, <4>1
      <4>3. CASE t # 0
        <5>1. s < f /\ f < t BY <1>4, <1>6, <4>3 DEF Shape
        <5>2. \A x \in Noted : ~(x > t) BY <2>2, <4>2, <5>1
        <5>3. QED BY <4>3, <5>2 DEF ZeroIn, NeedsZero
      <4>4. CASE t = 0
        <5>1. recv.seq_lst < recv.seq_fst => recv.is_seq_zero \/ recv.seq_tail # 0 BY DEF Shape
        <5>2. ~(recv.seq_lst < f) BY <1>7, <2>1, <4>1, <4>4, <5>1
        <5>3. \A x \in Noted : ~(x < f) BY <2>2, <4>2, <5>2
        <5>4. QED BY <4>4, <5>3 DEF ZeroIn, NeedsZero
      <4>5. QED BY <4>3, <4>4
    <3>4. QED BY <2>1, <2>3, <3>1, <3>2, <3>3
  <2>5. recv.is_seq_fst => \A x \in requested : NeedsZero(x, f, t) => NeedsZero(x, f, recv.seq_tail)
    <3>1. CASE Chosen # "wrap" BY <1>4, <3>1
    <3>2. CASE Chosen = "wrap"
      <4>1. recv.is_seq_fst /\ f < recv.seq_lst /\ t = recv.seq_lst /\ f = recv.seq_fst
            BY <1>4, <1>7, <2>3, <3>2
      <4>2. requested \subseteq Span(recv) BY <1>2, <4>1 DEF V
      <4>3. Span(recv) = f .. recv.seq_lst BY <2>2, <4>1 DEF Span
      <4>4. \A x \in requested : ~(x > t) BY <2>2, <4>1, <4>2, <4>3
      <4>5. t # 0 BY <2>2, <4>1
      <4>6. QED BY <4>4, <4>5 DEF NeedsZero
    <3>3. QED BY <3>1, <3>2
  <2>6. ASSUME NEW m \in Range(n2c) \union Range(up) PROVE ZeroIn(Asks(m, f, NSeq), f, t)
    <3>1. recv.is_seq_fst
      <4>1. Range(<<>>) = {} BY NoMessage
      <4>2. QED BY <1>7, <2>6, <4>1
    <3>2. f = recv.seq_fst BY <1>7, <3>1
    <3>3. Asks(m, f, NSeq) \subseteq Piped \union Sent BY <2>6, <3>2 DEF Piped, Sent, AskedBy
    <3>4. Asks(m, f, NSeq) \subseteq requested BY <3>3 DEF UnderWay
    <3>5. ZeroIn(Asks(m, f, NSeq), f, recv.seq_tail) BY <2>1, <2>6, <3>2 DEF ZeroFirst
    <3>6. QED BY <2>5, <3>1, <3>4, <3>5 DEF ZeroIn
  <2>7. ASSUME NEW j \in DOMAIN patches, NeedsZero(patches[j], f, t)
        PROVE  \E i \in 1 .. j : patches[i] = 0
    <3>1. patches \in Seq(SeqNums) BY DEF Types
    <3>2. recv.is_seq_fst
      <4>1. DOMAIN <<>> = {} BY NoMessage
      <4>2. QED BY <1>7, <2>7, <4>1
    <3>3. patches[j] \in Coming BY <3>1, ByIndex DEF Coming
    <3>4. patches[j] \in requested BY <3>3 DEF UnderWay
    <3>5. NeedsZero(patches[j], f, recv.seq_tail) BY <2>5, <2>7, <3>2, <3>4
    <3>6. QED BY <1>7, <2>1, <3>2, <3>5 DEF ZeroFirst
  <2>8. QED BY <1>1, <1>4, <1>11, <1>12, <2>4, <2>6, <2>7 DEF ZeroFirst
<1>27. QED BY <1>6, <1>15, <1>16, <1>18, <1>19, <1>20, <1>21, <1>22, <1>23, <1>24, <1>25, <1>26

LEMMA NetmapAcceptStep ==
    ASSUME RInv, NetmapAccept
    PROVE  RInv'
<1>1. CASE Chosen = "wrap" /\ WrapAssert(Cur) # "no" BY <1>1, WrapStops
<1>2. CASE Chosen = "error" BY <1>2, PacketRefused
<1>3. CASE Chosen # "error" /\ (Chosen = "wrap" => WrapAssert(Cur) = "no")
      BY <1>3, PacketAccepted
<1>4. QED BY <1>1, <1>2, <1>3

-----------------------------------------------------------------------------
(* Every step.                                                             *)

LEMMA RInvInit ==
    ASSUME Init, AllFitInt
    PROVE  RInv
<1> USE DEF Init
<1>1. /\ dataSize \in Sizes /\ NSeq \in Nat \ {0} /\ SeqNums = 0 .. (NSeq - 1) /\ 0 \in SeqNums
      /\ SeqNums \subseteq Nat
      BY WholePackets
<1>2. recv = NewRecver /\ recv \in Recver
  <2>1. /\ [s \in SeqNums |-> Unwritten] \in [SeqNums -> Nat \union {Unwritten}]
        /\ 0 \in Nat /\ -1 \in Int
        OBVIOUS
  <2>2. NewRecver \in Recver BY <2>1 DEF NewRecver, Recver
  <2>3. QED BY <2>2
<1>3. /\ recv.lock = FALSE /\ recv.is_fastpath = FALSE /\ recv.is_finished = FALSE
      /\ recv.is_seq_fst = FALSE /\ recv.seq_fst = 0 /\ recv.seq_lst = 0 /\ recv.seq_tail = 0
      /\ recv.is_seq_zero = FALSE /\ recv.seq_max = 0 /\ recv.tail_len = 0
      /\ recv.start = -1 /\ recv.num_fast = 0 /\ recv.num_slow = 0
      /\ recv.file = [s \in SeqNums |-> Unwritten] /\ recv.buf = [s \in SeqNums |-> Unwritten]
      BY <1>2 DEF NewRecver
<1>4. nm \in Thread /\ nm.pc = "idle" /\ nm.jump = <<>> /\ nm.first = FALSE /\ nm.pc \notin Packets
  <2>1. nm = NmIdle /\ NoSeq \in Int BY DEF NoSeq
  <2>2. QED BY <2>1 DEF NmIdle, Thread, Packets
<1>5. PICK p \in SeqNums :
          /\ nic = <<p>>
          /\ snd = [seq_cur |-> p + 1, seqEnd |-> NoSeq, fast_done |-> "no", all_done |-> 0]
      OBVIOUS
<1>6. snd \in Stream /\ snd.seqEnd = NoSeq /\ snd.fast_done = "no" /\ snd.all_done = 0
  <2>1. p + 1 \in Nat BY <1>1
  <2>2. QED BY <1>5, <2>1 DEF Stream
<1>7. nic \in Seq(SeqNums) BY <1>5
<1>8. /\ n2c = <<>> /\ c2i = <<>> /\ up = <<>> /\ patches = <<>> /\ requested = {}
      /\ crash = "no" /\ rc = "idle"
      OBVIOUS
<1>9. /\ patches \in Seq(SeqNums) /\ n2c \in Seq(Report) /\ up \in Seq(Message)
      /\ c2i \in Seq({"SEQ_ZERO", "SEQ_ALL"})
      /\ Range(n2c) = {} /\ Range(up) = {} /\ Range(c2i) = {} /\ Range(patches) = {}
      /\ DOMAIN n2c = {} /\ DOMAIN up = {} /\ DOMAIN patches = {}
      BY <1>8, NoMessage
<1> HIDE DEF Init
<1>10. Written(recv) = {} BY <1>3 DEF Written
<1>11. Types
  <2>1. 2 * dataSize <= Word BY <1>1 DEF AllFitInt
  <2>2. QED BY <1>1, <1>2, <1>3, <1>4, <1>6, <1>7, <1>8, <1>9, <2>1 DEF Types
<1>12. Fresh
  <2>1. recv = [NewRecver EXCEPT !.lock = recv.lock, !.is_fastpath = recv.is_fastpath]
        BY <1>2 DEF NewRecver
  <2>2. QED BY <1>4, <1>6, <1>8, <2>1 DEF Fresh
<1>13. Threads BY <1>3, <1>4, <1>6, <1>8 DEF Threads, RestRequested
<1>14. Shape BY <1>1, <1>3, <1>10 DEF Shape
<1>15. Reported = {} /\ Piped = {} /\ Sent = {} /\ Coming = {}
       BY <1>4, <1>8, <1>9, AskedOfNone DEF Reported, Piped, Sent, Coming, NotedBy
<1>16. Requests BY <1>4, <1>9 DEF Requests
<1>17. UnderWay BY <1>9, <1>15 DEF UnderWay, Apart, Once
<1>18. ZeroFirst BY <1>9, <1>15 DEF ZeroFirst, ZeroIn
<1>19. Firsts BY <1>4, <1>6, <1>9 DEF Firsts
<1>20. Finished BY <1>3, <1>4, <1>6, <1>8, <1>9 DEF Finished, Told
<1>21. EveryLossRequested BY <1>3 DEF EveryLossRequested
<1>22. CountsAreExact
  <2>1. Cardinality({}) = 0 BY FS_EmptySet
  <2>2. QED BY <1>3, <1>10, <2>1 DEF CountsAreExact
<1>23. PatchesAreReady BY <1>8 DEF PatchesAreReady
<1>24. QED BY <1>11, <1>12, <1>13, <1>14, <1>16, <1>17, <1>18, <1>19, <1>20, <1>21, <1>22, <1>23
           DEF RInv

LEMMA RInvStutter ==
    ASSUME RInv, UNCHANGED vars
    PROVE  RInv'
<1> USE DEF RInv
<1>1. /\ dataSize' = dataSize /\ recv' = recv /\ nm' = nm /\ rc' = rc /\ nic' = nic /\ n2c' = n2c
      /\ c2i' = c2i /\ up' = up /\ patches' = patches /\ snd' = snd /\ requested' = requested
      /\ crash' = crash
      BY DEF vars
<1>2. SameData /\ SameMessages BY <1>1, SameRecver DEF SameMessages
<1>3. /\ SeqNums' = SeqNums /\ NSeq' = NSeq /\ Recver' = Recver /\ NewRecver' = NewRecver
      BY <1>1, SameSize
<1>4. Types' BY <1>1, <1>3 DEF Types
<1>5. Fresh' BY <1>1, <1>3 DEF Fresh
<1>6. RestRequested' <=> RestRequested BY <1>1 DEF RestRequested
<1>7. Threads' BY <1>1, <1>2, <1>6, DataKept DEF Threads
<1>8. Shape' /\ CountsAreExact' BY <1>2, DataKept
<1>9. Requests' /\ UnderWay' /\ ZeroFirst' BY <1>2, MessagesKept
<1>10. Firsts' BY <1>1, <1>3 DEF Firsts
<1>11. Finished'
  <2>1. Told' = Told BY <1>1, <1>3 DEF Told, Tells
  <2>2. QED BY <1>1, <1>2, <1>3, <2>1, DataKept DEF Finished, AllWritten
<1>12. EveryLossRequested' BY <1>2, <1>6, KeepsRequested
<1>13. PatchesAreReady' BY <1>1 DEF PatchesAreReady
<1>14. QED BY <1>4, <1>5, <1>7, <1>8, <1>9, <1>10, <1>11, <1>12, <1>13

LEMMA RInvNext ==
    ASSUME RInv, [Next]_vars, ~StoreDelay
    PROVE  RInv'
<1>1. CASE Sender
  <2>1. CASE Transmit BY <2>1, TransmitStep
  <2>2. CASE SenderFirstSeq BY <2>2, SenderFirstSeqStep
  <2>3. CASE SenderPatchReq BY <2>3, SenderPatchReqStep
  <2>4. CASE SenderAllDone BY <2>4, SenderAllDoneStep
  <2>5. CASE SenderFastDone BY <2>5, SenderFastDoneStep
  <2>6. QED BY <1>1, <2>1, <2>2, <2>3, <2>4, <2>5 DEF Sender
<1>2. CASE Netmap
  <2>1. CASE NetmapTake BY <2>1, NetmapTakeStep
  <2>2. CASE NetmapTest BY <2>2, NetmapTestStep
  <2>3. CASE NetmapAccept BY <2>3, NetmapAcceptStep
  <2>4. CASE NetmapLast BY <2>4, NetmapLastStep
  <2>5. CASE NetmapFinish BY <2>5, NetmapFinishStep
  <2>6. CASE NetmapNotify BY <2>6, NetmapNotifyStep
  <2>7. QED BY <1>2, <2>1, <2>2, <2>3, <2>4, <2>5, <2>6 DEF Netmap
<1>3. CASE Recv
  <2>1. CASE RecvFirst BY <2>1, RecvFirstStep
  <2>2. CASE RecvZero BY <2>2, RecvZeroStep
  <2>3. CASE RecvAll BY <2>3, RecvAllStep
  <2>4. CASE RecvJump BY <2>4, RecvJumpStep
  <2>5. CASE RecvPatch BY <2>5, RecvPatchStep
  <2>6. CASE RecvPatched BY <2>6, RecvPatchedStep
  <2>7. CASE RecvFinish BY <2>7, RecvFinishStep
  <2>8. CASE RecvFastDone BY <2>8, RecvFastDoneStep
  <2>9. CASE RecvStopFastPath BY <2>9, RecvStopFastPathStep
  <2>10. CASE RecvRequestRest BY <2>10, RecvRequestRestStep
  <2>11. QED BY <1>3, <2>1, <2>2, <2>3, <2>4, <2>5, <2>6, <2>7, <2>8, <2>9, <2>10 DEF Recv
<1>4. CASE Stop BY <1>4, RInvStutter DEF Stop
<1>5. CASE UNCHANGED vars BY <1>5, RInvStutter
<1>6. QED BY <1>1, <1>2, <1>3, <1>4, <1>5 DEF Next

-----------------------------------------------------------------------------
(* Theorems.  The store to the lock becomes visible before is_fastpath is  *)
(* read: ~StoreDelay.  The data is of any size that fits an int, half of   *)
(* what the sequence numbers would allow: AllFitInt.                       *)

(* The two threads and the sender keep the invariant above: process_rings, *)
(* thread_recv.c and the messages between them.                            *)
THEOREM RecverInvariant ==
    ASSUME ~StoreDelay, AllFitInt
    PROVE  Spec => []RInv
<1>1. Init => RInv BY RInvInit
<1>2. RInv /\ [Next]_vars => RInv' BY RInvNext
<1>3. QED BY <1>1, <1>2, PTL DEF Spec

(* No loss is forgotten: what the stream has gone past was written by      *)
(* process_rings or asked for by thread_recv.c, and after MSG_FAST_DONE    *)
(* that is all of the data.                                                *)
THEOREM LossesAreRequested ==
    ASSUME ~StoreDelay, AllFitInt
    PROVE  Spec => []EveryLossRequested
<1>1. RInv => EveryLossRequested BY DEF RInv
<1>2. QED BY <1>1, RecverInvariant, PTL

(* The counters recverState_hasGottenAllData adds up count every packet    *)
(* written once, on the path it was written on.                            *)
THEOREM PacketsCountOnce ==
    ASSUME ~StoreDelay, AllFitInt
    PROVE  Spec => []CountsAreExact
<1>1. RInv => CountsAreExact BY DEF RInv
<1>2. QED BY <1>1, RecverInvariant, PTL

(* A patch reaches the tail buffer only when it is long enough, the zero   *)
(* packet comes before the patches that need it, and seq_tail is set once: *)
(* three assertions of thread_recv.c and thread_data.c cannot fail.        *)
THEOREM PatchesFindTheirPlace ==
    ASSUME ~StoreDelay, AllFitInt
    PROVE  Spec => []PatchesAreReady
<1>1. RInv => PatchesAreReady BY DEF RInv
<1>2. QED BY <1>1, RecverInvariant, PTL

(* MSG_ALL_DONE and MSG_C2I_SEQ_ALL are sent only when the file holds      *)
(* every packet.                                                           *)
THEOREM CompletionIsReached ==
    ASSUME ~StoreDelay, AllFitInt
    PROVE  Spec => []CompletionIsTrue
<1>1. RInv => CompletionIsTrue
  <2>1. SUFFICES ASSUME RInv, snd.all_done > 0 \/ \E i \in 1 .. Len(c2i) : c2i[i] = "SEQ_ALL"
                 PROVE  recv.is_finished /\ \A s \in SeqNums : recv.file[s] # Unwritten
        BY DEF CompletionIsTrue
  <2>2. c2i \in Seq({"SEQ_ZERO", "SEQ_ALL"}) BY <2>1 DEF RInv, Types
  <2>3. (\E i \in 1 .. Len(c2i) : c2i[i] = "SEQ_ALL") => "SEQ_ALL" \in Range(c2i) BY <2>2, ByIndex
  <2>4. Told BY <2>1, <2>3 DEF Told
  <2>5. QED BY <2>1, <2>4 DEF RInv, Finished, AllWritten
<1>2. QED BY <1>1, RecverInvariant, PTL

(* Once the rest of the data has been asked for, process_rings accepts no  *)
(* packet: the two waits for the lock in MSG_FAST_DONE do their work.      *)
THEOREM RestIsAskedOnce ==
    ASSUME ~StoreDelay, AllFitInt
    PROVE  Spec => FastPathStaysClosed
<1>1. RInv /\ [Next]_vars => [RestRequested => recv'.num_fast = recv.num_fast]_vars
  <2>1. SUFFICES ASSUME RInv, Next, RestRequested PROVE recv'.num_fast = recv.num_fast
        OBVIOUS
  <2>2. recv \in Recver BY <2>1 DEF RInv, Types
  <2>3. nm.pc # "accept" BY <2>1 DEF RInv, Threads
  <2>4. CASE Sender
        BY <2>4 DEF Sender, Transmit, SenderFirstSeq, SenderPatchReq, SenderAllDone, SenderFastDone
  <2>5. CASE Netmap
    <3>1. CASE NetmapTake BY <2>2, <3>1 DEF NetmapTake, Recver
    <3>2. CASE NetmapTest BY <2>2, <3>2 DEF NetmapTest, Recver
    <3>3. CASE NetmapAccept BY <2>3, <3>3 DEF NetmapAccept
    <3>4. CASE NetmapLast BY <2>2, <3>4 DEF NetmapLast, Recver
    <3>5. CASE NetmapFinish
      <4>1. recv' = recv \/ recv' = FinishRecv(recv) BY <3>5 DEF NetmapFinish, Finish
      <4>2. QED BY <2>2, <4>1 DEF FinishRecv, Recver
    <3>6. CASE NetmapNotify BY <2>2, <3>6 DEF NetmapNotify, Recver
    <3>7. QED BY <2>5, <3>1, <3>2, <3>3, <3>4, <3>5, <3>6 DEF Netmap
  <2>6. CASE Recv
    <3>1. CASE RecvPatch BY <2>1, <3>1, PatchChanges
    <3>2. CASE RecvFinish
      <4>1. recv' = recv \/ recv' = FinishRecv(recv) BY <3>2 DEF RecvFinish, Finish
      <4>2. QED BY <2>2, <4>1 DEF FinishRecv, Recver
    <3>3. CASE RecvStopFastPath BY <2>2, <3>3 DEF RecvStopFastPath, Recver
    <3>4. CASE ~(RecvPatch \/ RecvFinish \/ RecvStopFastPath)
          BY <2>6, <3>4 DEF Recv, RecvFirst, RecvZero, RecvAll, RecvJump, RecvPatched, RecvFastDone,
                            RecvRequestRest
    <3>5. QED BY <3>1, <3>2, <3>3, <3>4
  <2>7. CASE Stop BY <2>7 DEF Stop, vars
  <2>8. QED BY <2>1, <2>4, <2>5, <2>6, <2>7 DEF Next
<1>2. QED BY <1>1, RecverInvariant, PTL DEF Spec, FastPathStaysClosed
=============================================================================
