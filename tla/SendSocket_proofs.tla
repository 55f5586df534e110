------------------------- MODULE SendSocket_proofs -------------------------
(***************************************************************************)
(* Proofs about SendSocket, for any number of receivers, any capacities    *)
(* and lengths that satisfy SocketAssumption, and whatever TCP takes of a  *)
(* message at a time: the bytes on their way to a receiver are whole       *)
(* messages in the state of being delivered, so that the receiver's buffer *)
(* is never full of an unfinished one; the queue has room for messages     *)
(* with priority; and what is due to a receiver, in the rings, the queue,  *)
(* the kernel and the reader's buffer, changes as PatchDelivery says.      *)
(***************************************************************************)
EXTENDS SendSocket, TLAPS, SequenceTheorems, FiniteSetTheorems,
        WellFoundedInduction

-----------------------------------------------------------------------------
(* The invariant.                                                          *)

(* A message sent in part lacks something, TCP and the receive buffer hold *)
(* no more than they can.                                                  *)
Partial ==
    \A s \in Sock :
        /\ Len(wire[s]) <= SockBuf
        /\ Len(recv_buf[s]) <= RECVBUF_LEN
        /\ Len(remain[s]) <= 1
        /\ remain[s] # <<>> => remain[s][1].sent < MsgLen(remain[s][1].msg)

(* Patches are refused when the queue is more than half full, so that      *)
(* whatever lies behind its first half is a message with priority.         *)
Bounded(q) ==
    /\ Len(q) <= Capacity
    /\ \A i \in 1 .. Len(q) : i > Half + 1 => q[i].type \in Notice
Filling == \A s \in Sock : Bounded(sendQueue[s])

(* Every byte lies in a whole message.                                     *)
WholeAt(b, i) ==
    LET m == b[i][1]
        before == i - b[i][2]
    IN  /\ b[i][2] \in 1 .. MsgLen(m)
        /\ before >= 0 /\ before + MsgLen(m) <= Len(b)
        /\ \A j \in 1 .. MsgLen(m) : b[before + j] = <<m, j>>
Whole(b) == \A i \in 1 .. Len(b) : WholeAt(b, i)

(* What a receiver will have read once the message sent in part is sent.   *)
Rest(r) == IF r = <<>> THEN <<>> ELSE Bytes(r[1].msg, r[1].sent + 1, MsgLen(r[1].msg))
Stream(s) == recv_buf[s] \o (wire[s] \o Rest(remain[s]))

Framing ==
    \A s \in Sock : open[s] =>
        /\ Whole(Stream(s))
        /\ expect[s] = IF Len(recv_buf[s]) < MSG_HDRLEN THEN 0 ELSE MsgLen(recv_buf[s][1][1])

SInv == Types /\ Partial /\ Filling /\ Framing /\ StaysConnected /\ PriorityFits

-----------------------------------------------------------------------------
(* Messages as bytes.                                                      *)

LEMMA Lengths1 ==
    ASSUME NEW m \in Msg
    PROVE  /\ MsgLen(m) \in Nat \ {0} /\ MSG_HDRLEN <= MsgLen(m) /\ MsgLen(m) <= RECVBUF_LEN
           /\ MSG_HDRLEN \in Nat \ {0} /\ RECVBUF_LEN \in Nat /\ MSG_HDRLEN < RECVBUF_LEN
  BY SocketAssumption DEF MsgLen

LEMMA AsSeq ==
    ASSUME NEW S, NEW n \in Nat, NEW f \in [1 .. n -> S]
    PROVE  f \in Seq(S) /\ Len(f) = n
  BY SeqDef, LenProperties

LEMMA BytesAre ==
    ASSUME NEW m \in Msg, NEW a \in Nat, NEW z \in Nat, a <= z
    PROVE  /\ Bytes(m, a + 1, z) \in Seq(Byte) /\ Len(Bytes(m, a + 1, z)) = z - a
           /\ \A j \in 1 .. z - a : Bytes(m, a + 1, z)[j] = <<m, a + j>>
<1>1. z - (a + 1) + 1 = z - a /\ z - a \in Nat OBVIOUS
<1>2. Bytes(m, a + 1, z) = [i \in 1 .. z - a |-> <<m, a + 1 + i - 1>>] BY <1>1 DEF Bytes
<1>3. \A i \in 1 .. z - a : a + 1 + i - 1 = a + i /\ a + i \in Nat OBVIOUS
<1>4. Bytes(m, a + 1, z) = [i \in 1 .. z - a |-> <<m, a + i>>] BY <1>2, <1>3
<1>5. \A i \in 1 .. z - a : <<m, a + i>> \in Byte BY <1>3 DEF Byte
<1> HIDE DEF Byte
<1>6. Bytes(m, a + 1, z) \in [1 .. z - a -> Byte] BY <1>4, <1>5
<1>7. \A n \in Nat : \A f \in [1 .. n -> Byte] : f \in Seq(Byte) /\ Len(f) = n BY AsSeq
<1>8. Bytes(m, a + 1, z) \in Seq(Byte) /\ Len(Bytes(m, a + 1, z)) = z - a
      BY <1>1, <1>6, <1>7, Zenon
<1>9. QED BY <1>4, <1>8

LEMMA BytesJoin ==
    ASSUME NEW m \in Msg, NEW a \in Nat, NEW y \in Nat, NEW z \in Nat, a <= y, y <= z
    PROVE  Bytes(m, a + 1, y) \o Bytes(m, y + 1, z) = Bytes(m, a + 1, z)
<1> DEFINE u == Bytes(m, a + 1, y)
           v == Bytes(m, y + 1, z)
           w == Bytes(m, a + 1, z)
<1>1. /\ u \in Seq(Byte) /\ Len(u) = y - a /\ \A j \in 1 .. y - a : u[j] = <<m, a + j>>
      /\ v \in Seq(Byte) /\ Len(v) = z - y /\ \A j \in 1 .. z - y : v[j] = <<m, y + j>>
      /\ w \in Seq(Byte) /\ Len(w) = z - a /\ \A j \in 1 .. z - a : w[j] = <<m, a + j>>
  <2>1. a <= z OBVIOUS
  <2>2. QED BY <2>1, BytesAre
<1> HIDE DEF u, v, w
<1>2. u \o v \in Seq(Byte) /\ Len(u \o v) = z - a
      /\ \A j \in 1 .. z - a : (u \o v)[j] = IF j <= y - a THEN u[j] ELSE v[j - (y - a)]
      BY <1>1, ConcatProperties
<1>3. ASSUME NEW j \in 1 .. z - a PROVE (u \o v)[j] = w[j]
  <2>1. CASE j <= y - a
    <3>1. j \in 1 .. y - a BY <2>1
    <3>2. QED BY <1>1, <1>2, <2>1, <3>1
  <2>2. CASE ~(j <= y - a)
    <3>1. j - (y - a) \in 1 .. z - y /\ y + (j - (y - a)) = a + j BY <2>2
    <3>2. QED BY <1>1, <1>2, <2>2, <3>1
  <2>3. QED BY <2>1, <2>2
<1>4. u \o v = w BY <1>1, <1>2, <1>3, SeqEqual
<1>5. QED BY <1>4 DEF u, v, w

LEMMA NoBytes ==
    ASSUME NEW m \in Msg, NEW a \in Nat
    PROVE  Bytes(m, a + 1, a) = <<>>
<1>1. Bytes(m, a + 1, a) \in Seq(Byte) /\ Len(Bytes(m, a + 1, a)) = 0 BY BytesAre
<1>2. QED BY <1>1, EmptySeq

-----------------------------------------------------------------------------
(* Streams of whole messages.                                              *)

LEMMA WholeMore ==
    ASSUME NEW b \in Seq(Byte), Whole(b), NEW m \in Msg
    PROVE  Whole(b \o Bytes(m, 1, MsgLen(m)))
<1> DEFINE l == MsgLen(m)
           v == Bytes(m, 1, l)
           c == b \o v
<1>1. l \in Nat \ {0} BY Lengths1
<1>2. v \in Seq(Byte) /\ Len(v) = l /\ \A j \in 1 .. l : v[j] = <<m, j>>
  <2>1. /\ Bytes(m, 0 + 1, l) \in Seq(Byte) /\ Len(Bytes(m, 0 + 1, l)) = l - 0
        /\ \A j \in 1 .. l - 0 : Bytes(m, 0 + 1, l)[j] = <<m, 0 + j>>
    <3>1. 0 <= l BY <1>1
    <3> HIDE DEF l
    <3>2. QED BY <1>1, <3>1, BytesAre
  <2>2. \A j \in 1 .. l : 0 + j = j BY <1>1
  <2>3. 0 + 1 = 1 /\ l - 0 = l BY <1>1
  <2>4. QED BY <2>1, <2>2, <2>3
<1>3. Len(b) \in Nat /\ \A i \in 1 .. Len(b) : b[i] \in Byte BY ElementOfSeq
<1> HIDE DEF v
<1>4. c \in Seq(Byte) /\ Len(c) = Len(b) + l
      /\ \A j \in 1 .. Len(c) : c[j] = IF j <= Len(b) THEN b[j] ELSE v[j - Len(b)]
      BY <1>2, ConcatProperties
<1> HIDE DEF c
<1>5. ASSUME NEW i \in 1 .. Len(c), i <= Len(b) PROVE WholeAt(c, i)
  <2>1. i \in 1 .. Len(b) /\ WholeAt(b, i) /\ c[i] = b[i] BY <1>3, <1>4, <1>5 DEF Whole
  <2>2. b[i][1] \in Msg /\ b[i][2] \in Nat BY <1>3, <2>1 DEF Byte
  <2>3. MsgLen(b[i][1]) \in Nat BY <2>2, Lengths1
  <2> DEFINE k == MsgLen(b[i][1])
             o == i - b[i][2]
  <2>4. /\ b[i][2] \in 1 .. k /\ o >= 0 /\ o + k <= Len(b) /\ o \in Int
        /\ \A j \in 1 .. k : b[o + j] = <<b[i][1], j>>
        BY <2>1, <2>2 DEF WholeAt
  <2>5. k \in Nat BY <2>3
  <2> HIDE DEF k, o
  <2>6. \A j \in 1 .. k : c[o + j] = <<b[i][1], j>>
    <3> TAKE j \in 1 .. k
    <3>1. o + j \in 1 .. Len(c) /\ o + j <= Len(b) BY <1>1, <1>3, <1>4, <2>4, <2>5
    <3>2. QED BY <1>4, <2>4, <3>1
  <2>7. o + k <= Len(c) BY <1>1, <1>3, <1>4, <2>4, <2>5
  <2>8. QED BY <2>1, <2>4, <2>6, <2>7 DEF WholeAt, k, o
<1>6. ASSUME NEW i \in 1 .. Len(c), ~(i <= Len(b)) PROVE WholeAt(c, i)
  <2>1. i - Len(b) \in 1 .. l BY <1>1, <1>3, <1>4, <1>6
  <2>2. c[i] = <<m, i - Len(b)>> BY <1>2, <1>4, <1>6, <2>1
  <2>3. c[i][1] = m /\ c[i][2] = i - Len(b) BY <2>2
  <2>4. i - (i - Len(b)) = Len(b) BY <1>3
  <2>5. \A j \in 1 .. l : c[Len(b) + j] = <<m, j>>
    <3> TAKE j \in 1 .. l
    <3>1. Len(b) + j \in 1 .. Len(c) /\ ~(Len(b) + j <= Len(b)) /\ (Len(b) + j) - Len(b) = j
          BY <1>1, <1>3, <1>4
    <3>2. QED BY <1>2, <1>4, <3>1
  <2>6. Len(b) >= 0 /\ Len(b) + l <= Len(c) BY <1>1, <1>3, <1>4
  <2>7. QED BY <2>1, <2>3, <2>4, <2>5, <2>6 DEF WholeAt
<1>7. QED BY <1>5, <1>6 DEF Whole, c, v

(* The first message of a stream.                                          *)
LEMMA WholeFirst ==
    ASSUME NEW b \in Seq(Byte), Whole(b), b # <<>>
    PROVE  /\ b[1][1] \in Msg /\ b[1][2] = 1 /\ MsgLen(b[1][1]) <= Len(b)
           /\ \A j \in 1 .. MsgLen(b[1][1]) : b[j] = <<b[1][1], j>>
<1>1. Len(b) \in Nat /\ Len(b) >= 1 BY EmptySeq
<1>2. 1 \in 1 .. Len(b) BY <1>1
<1>3. b[1] \in Byte BY <1>2, ElementOfSeq
<1>4. b[1][1] \in Msg /\ b[1][2] \in Nat BY <1>3 DEF Byte
<1> DEFINE m == b[1][1]
           l == MsgLen(m)
           k == b[1][2]
<1>5. l \in Nat \ {0} BY <1>4, Lengths1
<1>6. /\ k \in 1 .. l /\ 1 - k >= 0 /\ (1 - k) + l <= Len(b)
      /\ \A j \in 1 .. l : b[(1 - k) + j] = <<m, j>>
      BY <1>2 DEF Whole, WholeAt
<1> HIDE DEF l
<1>7. k = 1 BY <1>4, <1>5, <1>6
<1>8. \A j \in 1 .. l : (1 - 1) + j = j BY <1>5
<1>9. l <= Len(b) BY <1>1, <1>5, <1>6, <1>7
<1>10. \A j \in 1 .. l : b[j] = <<m, j>> BY <1>6, <1>7, <1>8
<1>11. QED BY <1>4, <1>7, <1>9, <1>10 DEF l

(* What follows the first message.                                         *)
LEMMA WholeRest ==
    ASSUME NEW b \in Seq(Byte), Whole(b), b # <<>>
    PROVE  LET l == MsgLen(b[1][1])
           IN  /\ SubSeq(b, l + 1, Len(b)) \in Seq(Byte)
               /\ Len(SubSeq(b, l + 1, Len(b))) = Len(b) - l
               /\ Whole(SubSeq(b, l + 1, Len(b)))
<1> DEFINE m == b[1][1]
           l == MsgLen(m)
           c == SubSeq(b, l + 1, Len(b))
<1>1. /\ m \in Msg /\ l <= Len(b) /\ \A j \in 1 .. l : b[j] = <<m, j>> BY WholeFirst
<1>2. l \in Nat \ {0} /\ Len(b) \in Nat BY <1>1, Lengths1
<1>3. \A i \in 1 .. Len(b) : b[i] \in Byte BY ElementOfSeq
<1> HIDE DEF l
<1>4. /\ c \in Seq(Byte) /\ Len(c) = Len(b) - l
      /\ \A j \in 1 .. Len(b) - l : c[j] = b[l + j]
  <2>1. \A i \in (l + 1) .. Len(b) : b[i] \in Byte BY <1>2, <1>3
  <2>2. l + 1 \in Int /\ Len(b) \in Int BY <1>2
  <2>3. Len(c) = IF l + 1 <= Len(b) THEN Len(b) - (l + 1) + 1 ELSE 0
        BY <1>2, SubSeqProperties
  <2>4. Len(c) = Len(b) - l BY <1>1, <1>2, <2>3
  <2>5. c \in Seq(Byte) BY <1>2, SubSeqProperties
  <2>6. \A j \in 1 .. Len(c) : c[j] = b[(l + 1) + j - 1] BY <1>2, SubSeqProperties
  <2>7. \A j \in 1 .. Len(b) - l : (l + 1) + j - 1 = l + j BY <1>2
  <2> HIDE DEF c
  <2>8. QED BY <2>4, <2>5, <2>6, <2>7
<1> HIDE DEF c
<1>5. ASSUME NEW i \in 1 .. Len(c) PROVE WholeAt(c, i)
  <2> DEFINE p == b[l + i][1]
             q == b[l + i][2]
             k == MsgLen(p)
             o == (l + i) - q
  <2>1. l + i \in 1 .. Len(b) /\ c[i] = b[l + i] BY <1>2, <1>4
  <2>2. p \in Msg /\ q \in Nat BY <1>3, <2>1 DEF Byte
  <2>3. k \in Nat \ {0} BY <2>2, Lengths1
  <2>4. /\ q \in 1 .. k /\ o >= 0 /\ o + k <= Len(b)
        /\ \A j \in 1 .. k : b[o + j] = <<p, j>>
        BY <2>1 DEF Whole, WholeAt
  <2>5. o \in Int BY <1>2, <2>2
  <2>6. o >= l
    <3> SUFFICES ASSUME o < l PROVE FALSE BY <1>2, <2>5
    <3>0. o \in Int /\ o >= 0 /\ o < l BY <2>4, <2>5
    <3> HIDE DEF o, k, p, q
    <3>1. o + 1 \in 1 .. l /\ 1 \in 1 .. k BY <1>2, <2>3, <3>0
    <3>2. b[o + 1] = <<m, o + 1>> /\ b[o + 1] = <<p, 1>> BY <1>1, <2>4, <3>1
    <3>3. p = m /\ o + 1 = 1 BY <3>2
    <3>4. o = 0 BY <3>0, <3>3
    <3>5. k = l BY <3>3 DEF k, l
    <3>6. l + i = q /\ q <= k /\ i >= 1 BY <1>2, <2>2, <2>4, <3>4 DEF o
    <3>7. QED BY <1>2, <2>2, <3>5, <3>6
  <2> HIDE DEF k
  <2>7. /\ i - q >= 0 /\ (i - q) + k <= Len(c) /\ o = l + (i - q)
    <3>1. i \in Int /\ q \in Int /\ k \in Int /\ l \in Int /\ Len(b) \in Int BY <1>2, <2>2, <2>3
    <3>2. Len(c) = Len(b) - l /\ (l + i) - q >= l /\ ((l + i) - q) + k <= Len(b) BY <1>4, <2>4, <2>6
    <3> HIDE DEF q
    <3>3. QED BY <3>1, <3>2
  <2>8. \A j \in 1 .. k : c[(i - q) + j] = <<p, j>>
    <3> TAKE j \in 1 .. k
    <3>1. (i - q) + j \in 1 .. Len(b) - l /\ l + ((i - q) + j) = o + j
          BY <1>2, <1>4, <2>2, <2>3, <2>7
    <3> HIDE DEF o, p, q
    <3>2. QED BY <1>4, <2>4, <3>1
  <2>9. c[i][1] = p /\ c[i][2] = q BY <2>1
  <2> HIDE DEF p, q, o
  <2>10. QED BY <2>4, <2>7, <2>8, <2>9 DEF WholeAt, k
<1>6. Whole(c) BY <1>5 DEF Whole
<1>7. QED BY <1>4, <1>6 DEF c, l

-----------------------------------------------------------------------------
(* What no step of the send thread changes but the sending of bytes.       *)

LEMMA FramingKept ==
    ASSUME SInv, UNCHANGED <<remain, wire, open, recv_buf, expect>>
    PROVE  Partial' /\ Framing' /\ StaysConnected'
  BY DEF SInv, Partial, Framing, StaysConnected, Stream

LEMMA FillingKept ==
    ASSUME SInv, crash' # "abort", \A s \in Sock : Bounded(sendQueue'[s])
    PROVE  Filling' /\ PriorityFits'
<1>1. PriorityFits' BY DEF PriorityFits
<1>2. Filling' BY DEF Filling, Bounded
<1>3. QED BY <1>1, <1>2

LEMMA FillingSame ==
    ASSUME SInv, UNCHANGED <<sendQueue, crash>>
    PROVE  Filling' /\ PriorityFits'
BY DEF SInv, Filling, Bounded, PriorityFits, FullOfNotices

LEMMA AppendBounded ==
    ASSUME NEW q \in Seq(Msg), Bounded(q), NEW m \in Msg, Len(q) < Capacity,
           Len(q) <= Half \/ m.type \in Notice
    PROVE  Bounded(Append(q, m))
<1>1. /\ Len(Append(q, m)) = Len(q) + 1 /\ Len(q) \in Nat
      /\ \A i \in 1 .. Len(q) : Append(q, m)[i] = q[i]
      /\ Append(q, m)[Len(q) + 1] = m
      BY AppendProperties, LenProperties
<1>2. Capacity \in Nat /\ Half \in Nat BY SocketAssumption
<1>3. ASSUME NEW i \in 1 .. Len(q) + 1, i > Half + 1 PROVE Append(q, m)[i].type \in Notice
  <2>1. CASE i \in 1 .. Len(q) BY <1>1, <1>3, <2>1 DEF Bounded
  <2>2. CASE i = Len(q) + 1
    <3>1. ~(Len(q) <= Half) BY <1>1, <1>2, <1>3, <2>2
    <3>2. QED BY <1>1, <2>2, <3>1
  <2>3. QED BY <1>1, <2>1, <2>2
<1>4. Len(Append(q, m)) <= Capacity BY <1>1, <1>2
<1>5. QED BY <1>1, <1>3, <1>4 DEF Bounded

LEMMA TailBounded ==
    ASSUME NEW q \in Seq(Msg), Bounded(q), q # <<>>
    PROVE  Bounded(Tail(q))
<1>1. /\ Len(q) \in Nat \ {0} /\ Len(Tail(q)) = Len(q) - 1
      /\ \A i \in 1 .. Len(Tail(q)) : Tail(q)[i] = q[i + 1]
      BY EmptySeq, LenProperties, HeadTailProperties
<1>2. Capacity \in Nat /\ Half \in Nat BY SocketAssumption
<1>3. ASSUME NEW i \in 1 .. Len(Tail(q)), i > Half + 1 PROVE Tail(q)[i].type \in Notice
  <2>1. i + 1 \in 1 .. Len(q) /\ i + 1 > Half + 1 BY <1>1, <1>2, <1>3
  <2>2. q[i + 1].type \in Notice BY <2>1 DEF Bounded
  <2>3. QED BY <1>1, <2>2
<1>4. Len(Tail(q)) <= Capacity BY <1>1, <1>2 DEF Bounded
<1>5. QED BY <1>3, <1>4 DEF Bounded

LEMMA Chosen == ASSUME todo # {} PROVE At \in todo
  BY DEF At

LEMMA Queued == ASSUME SInv, NEW s \in Sock PROVE Len(sendQueue[s]) \in Nat
  BY LenProperties DEF SInv, Types

LEMMA Signals == FAST_DONE \in Msg /\ PULL_REJECT \in Msg /\ \A n \in Nat : Patch(n) \in Msg
  BY DEF FAST_DONE, PULL_REJECT, Patch, Msg, Notice

-----------------------------------------------------------------------------
(* Steps.                                                                  *)

LEMMA TellStep == ASSUME SInv, NEW s \in Sock, SsTell(s) PROVE SInv'
<1>1. Partial' /\ Framing' /\ StaysConnected' BY FramingKept DEF SsTell, recver
<1>2. ringCmd \in Seq(Sock) /\ ringCmd' = Append(ringCmd, s) /\ n_tell' = [n_tell EXCEPT ![s] = @ + 1]
      /\ n_tell \in [Sock -> Nat]
      BY DEF SsTell, SInv, Types
<1>3. ringCmd' \in Seq(Sock) /\ n_tell' \in [Sock -> Nat] BY <1>2, AppendProperties
<1>4. Types' BY <1>3 DEF SsTell, SInv, Types, thread, recver, At
<1>5. Filling' /\ PriorityFits' BY FillingSame DEF SsTell
<1>6. QED BY <1>1, <1>4, <1>5 DEF SInv

LEMMA CommandStep == ASSUME SInv, SsCommand PROVE SInv'
<1>0. PICK s \in Sock : s = Head(ringCmd)
  <2>1. ringCmd \in Seq(Sock) /\ ringCmd # <<>> BY DEF SsCommand, SInv, Types
  <2>2. QED BY <2>1
<1>1. Partial' /\ Framing' /\ StaysConnected' BY FramingKept DEF SsCommand, recver
<1>2. /\ ringCmd \in Seq(Sock) /\ ringCmd # <<>> /\ ringCmd' = Tail(ringCmd)
      /\ sendQueue \in [Sock -> Seq(Msg)] /\ ~(Len(sendQueue[s]) >= Capacity)
      /\ sendQueue' = [sendQueue EXCEPT ![s] = Append(@, FAST_DONE)]
      BY <1>0 DEF SsCommand, HeadBlocked, SInv, Types
<1>3. ringCmd' \in Seq(Sock) BY <1>2, HeadTailProperties
<1> DEFINE q == Append(sendQueue[s], FAST_DONE)
<1>4. q \in Seq(Msg) BY <1>2, Signals, AppendProperties
<1>5. Bounded(q)
  <2>1. Len(sendQueue[s]) \in Nat /\ Capacity \in Nat BY SocketAssumption, Queued
  <2>2. Len(sendQueue[s]) < Capacity BY <1>2, <2>1
  <2>3. Bounded(sendQueue[s]) BY DEF SInv, Filling
  <2>4. FAST_DONE.type \in Notice BY DEF FAST_DONE, Notice
  <2>5. QED BY <1>2, <2>2, <2>3, <2>4, Signals, AppendBounded
<1> HIDE DEF q
<1>6. sendQueue' = [sendQueue EXCEPT ![s] = q] BY <1>2 DEF q
<1>7. sendQueue' \in [Sock -> Seq(Msg)] BY <1>2, <1>4, <1>6
<1>8. Types' BY <1>3, <1>7 DEF SsCommand, SInv, Types, thread, recver, inputs, At
<1>9. ASSUME NEW t \in Sock PROVE Bounded(sendQueue'[t])
  <2>1. sendQueue'[t] = IF t = s THEN q ELSE sendQueue[t] BY <1>2, <1>6
  <2>2. Bounded(sendQueue[t]) BY DEF SInv, Filling
  <2>3. QED BY <1>5, <2>1, <2>2
<1>10. crash' # "abort" BY DEF SsCommand, Running
<1>11. Filling' /\ PriorityFits' BY <1>9, <1>10, FillingKept
<1>12. QED BY <1>1, <1>8, <1>11 DEF SInv

(* Steps that only move the thread on.                                     *)
LEMMA ThreadMoves ==
    ASSUME SInv, UNCHANGED <<queues, wire, open, recver, inputs, crash>>,
           pc' \in {"command", "patch", "send", "recv"}, within' = FALSE,
           todo' \subseteq Sock, write_set' \subseteq Sock, list' \subseteq Sock
    PROVE  SInv'
<1>1. Partial' /\ Framing' /\ StaysConnected' BY FramingKept DEF queues, recver
<1>2. Types' BY DEF SInv, Types, queues, recver, inputs
<1>3. Filling' /\ PriorityFits' BY FillingSame DEF queues
<1>4. QED BY <1>1, <1>2, <1>3 DEF SInv

LEMMA ThreadTypes ==
    ASSUME SInv
    PROVE  /\ pc \in {"command", "patch", "send", "recv"} /\ within \in BOOLEAN
           /\ todo \subseteq Sock /\ write_set \subseteq Sock /\ list \subseteq Sock
           /\ pc # "patch" \/ todo = {} => within = FALSE
           /\ todo # {} => At \in Sock
  BY Chosen DEF SInv, Types

LEMMA ThreadStep ==
    ASSUME SInv, \/ SsCommandsOver \/ PtRefused \/ PtOver \/ SsSelect
                 \/ SmOver \/ RcClosed \/ RcNothing
    PROVE  SInv'
<1> USE ThreadTypes
<1>1. CASE SsCommandsOver
  <2>1. UNCHANGED <<queues, wire, open, recver, inputs, crash>> /\ pc' = "patch" /\ within' = within
        /\ pc = "command" /\ todo' = list /\ write_set' = {} /\ list' = list
        BY <1>1 DEF SsCommandsOver
  <2>2. QED BY <2>1, ThreadMoves
<1>2. CASE PtRefused
  <2>1. UNCHANGED <<queues, wire, open, recver, inputs, crash>> /\ pc' = pc /\ within' = FALSE
        /\ todo # {} /\ todo' = todo \ {At} /\ write_set' = write_set \union {At} /\ list' = list
        BY <1>2 DEF PtRefused, Visiting, Visited
  <2>2. QED BY <2>1, ThreadMoves
<1>3. CASE PtOver
  <2>1. UNCHANGED <<queues, wire, open, recver, inputs, crash>> /\ pc' = pc /\ within' = FALSE
        /\ todo # {} /\ todo' = todo \ {At} /\ list' = list
        BY <1>3 DEF PtOver, Visiting, Visited
  <2>2. write_set' = write_set \union {At} \/ write_set' = write_set BY <1>3 DEF PtOver
  <2>3. write_set' \subseteq Sock BY <2>1, <2>2
  <2>4. QED BY <2>1, <2>3, ThreadMoves
<1>4. CASE SsSelect
  <2>1. UNCHANGED <<queues, wire, open, recver, inputs, crash>> /\ within' = within
        /\ todo = {} /\ todo' = list /\ write_set' \subseteq write_set /\ list' = list
        BY <1>4 DEF SsSelect
  <2>2. pc' \in {"command", "send"} BY <1>4 DEF SsSelect, Onward
  <2>3. QED BY <2>1, <2>2, ThreadMoves
<1>5. CASE SmOver
  <2>1. UNCHANGED <<queues, wire, open, recver, inputs, crash>> /\ pc' = "recv" /\ within' = within
        /\ pc = "send" /\ todo' = todo /\ write_set' = write_set /\ list' = list
        BY <1>5 DEF SmOver, Visiting
  <2>2. QED BY <2>1, ThreadMoves
<1>6. CASE RcClosed
  <2>1. UNCHANGED <<queues, wire, open, recver, inputs, crash>> /\ within' = within
        /\ pc = "recv" /\ todo' \subseteq todo /\ write_set' = write_set /\ list' \subseteq list
        BY <1>6 DEF RcClosed, Visiting, Visited
  <2>2. pc' \in {"command", "send"} BY <1>6 DEF RcClosed, Onward
  <2>3. QED BY <2>1, <2>2, ThreadMoves
<1>7. CASE RcNothing
  <2>1. UNCHANGED <<queues, wire, open, recver, inputs, crash>> /\ within' = within
        /\ pc = "recv" /\ todo' \subseteq todo /\ write_set' = write_set /\ list' = list
        BY <1>7 DEF RcNothing, Visiting, Visited
  <2>2. pc' \in {"command", "send"} BY <1>7 DEF RcNothing, Onward
  <2>3. QED BY <2>1, <2>2, ThreadMoves
<1>8. QED BY <1>1, <1>2, <1>3, <1>4, <1>5, <1>6, <1>7

(* A packet more in the queue: it was at most half full.                   *)
LEMMA RingAdvanced ==
    ASSUME NEW r \in Seq(Nat \X Nat), r # <<>>
    PROVE  /\ Advanced(r) \in Seq(Nat \X Nat)
           /\ Len(Advanced(r)) = Len(r) => Advanced(r) # <<>>
           /\ r[1][1] \in Nat
<1>1. Len(r) \in Nat \ {0} /\ r[1] \in Nat \X Nat /\ Tail(r) \in Seq(Nat \X Nat)
      BY EmptySeq, LenProperties, ElementOfSeq, HeadTailProperties
<1>2. r[1][1] \in Nat /\ r[1][2] \in Nat BY <1>1
<1> DEFINE e == <<r[1][1] + 1, r[1][2]>>
<1>3. e \in Nat \X Nat BY <1>2
<1> HIDE DEF e
<1>4. [r EXCEPT ![1] = e] \in Seq(Nat \X Nat) BY <1>1, <1>3, ExceptSeq
<1>5. Advanced(r) = Tail(r) \/ Advanced(r) = [r EXCEPT ![1] = e] BY DEF Advanced, e
<1>6. Len(Advanced(r)) = Len(r) => Advanced(r) # <<>> BY <1>1, EmptySeq
<1>7. QED BY <1>1, <1>2, <1>4, <1>5, <1>6

LEMMA InsertStep == ASSUME SInv, PtInsert PROVE SInv'
<1>0. PICK s \in Sock : s = At BY ThreadTypes DEF PtInsert, Visiting
<1>1. Partial' /\ Framing' /\ StaysConnected' BY FramingKept DEF PtInsert, recver
<1>2. /\ ringPatch \in [Sock -> Seq(Nat \X Nat)] /\ sendQueue \in [Sock -> Seq(Msg)]
      /\ ringPatch[s] # <<>> /\ Len(sendQueue[s]) <= Half
      /\ sendQueue' = [sendQueue EXCEPT ![s] = Append(@, Patch(ringPatch[s][1][1]))]
      /\ ringPatch' = [ringPatch EXCEPT ![s] = Advanced(@)]
      /\ within' = (Len(ringPatch'[s]) = Len(ringPatch[s]))
      /\ pc = "patch" /\ todo # {} /\ UNCHANGED <<pc, todo>>
      BY <1>0 DEF PtInsert, PtAccepts, Visiting, SInv, Types
<1>3. At' = s BY <1>0, <1>2 DEF At
<1> DEFINE q == Append(sendQueue[s], Patch(ringPatch[s][1][1]))
           r == Advanced(ringPatch[s])
<1>4. /\ r \in Seq(Nat \X Nat) /\ (Len(r) = Len(ringPatch[s]) => r # <<>>)
      /\ ringPatch[s][1][1] \in Nat
      BY <1>2, RingAdvanced
<1>5. q \in Seq(Msg) /\ Len(q) = Len(sendQueue[s]) + 1 BY <1>2, <1>4, Signals, AppendProperties
<1> HIDE DEF q, r
<1>6. sendQueue' = [sendQueue EXCEPT ![s] = q] /\ ringPatch' = [ringPatch EXCEPT ![s] = r]
      BY <1>2 DEF q, r
<1>7. sendQueue' \in [Sock -> Seq(Msg)] /\ ringPatch' \in [Sock -> Seq(Nat \X Nat)]
      /\ ringPatch'[s] = r /\ sendQueue'[s] = q
      BY <1>2, <1>4, <1>5, <1>6
<1>8. within' \in BOOLEAN /\ (within' => ringPatch'[s] # <<>>) BY <1>2, <1>4, <1>7
<1>9. Types' BY <1>2, <1>3, <1>7, <1>8 DEF PtInsert, SInv, Types, recver, inputs
<1>10. Bounded(q)
  <2>1. Capacity \in Nat /\ Half \in Nat /\ Half < Capacity BY SocketAssumption
  <2>2. Len(sendQueue[s]) < Capacity BY <1>2, <2>1, Queued
  <2>3. Bounded(sendQueue[s]) BY DEF SInv, Filling
  <2>4. Patch(ringPatch[s][1][1]) \in Msg BY <1>4, Signals
  <2>5. QED BY <1>2, <2>2, <2>3, <2>4, AppendBounded DEF q
<1>11. ASSUME NEW t \in Sock PROVE Bounded(sendQueue'[t])
  <2>1. sendQueue'[t] = IF t = s THEN q ELSE sendQueue[t] BY <1>2, <1>6
  <2>2. Bounded(sendQueue[t]) BY DEF SInv, Filling
  <2>3. QED BY <1>10, <2>1, <2>2
<1>12. crash' # "abort" BY DEF PtInsert, Visiting, Running
<1>13. Filling' /\ PriorityFits' BY <1>11, <1>12, FillingKept
<1>14. QED BY <1>1, <1>9, <1>13 DEF SInv

(* A tuple without packets leaves the ring, nothing else moves.            *)
LEMMA EmptyStep == ASSUME SInv, PtEmpty PROVE SInv'
<1>0. PICK s \in Sock : s = At BY ThreadTypes DEF PtEmpty, Visiting
<1>1. Partial' /\ Framing' /\ StaysConnected' BY FramingKept DEF PtEmpty, recver
<1>2. /\ ringPatch \in [Sock -> Seq(Nat \X Nat)] /\ ringPatch[s] # <<>>
      /\ ringPatch' = [ringPatch EXCEPT ![s] = Tail(@)] /\ ~within
      BY <1>0 DEF PtEmpty, SInv, Types
<1>3. ringPatch' \in [Sock -> Seq(Nat \X Nat)]
  <2>1. Tail(ringPatch[s]) \in Seq(Nat \X Nat) BY <1>2, HeadTailProperties
  <2>2. QED BY <1>2, <2>1
<1>4. Types' BY <1>2, <1>3 DEF PtEmpty, SInv, Types, thread, recver, inputs
<1>5. Filling' /\ PriorityFits'
  <2>1. UNCHANGED <<sendQueue, crash>> BY DEF PtEmpty, inputs
  <2>2. QED BY <2>1, FillingSame
<1>6. QED BY <1>1, <1>4, <1>5 DEF SInv

LEMMA RequestStep == ASSUME SInv, RcRequest PROVE SInv'
<1>0. PICK s \in Sock : s = At BY ThreadTypes DEF RcRequest, Visiting
<1>1. Partial' /\ Framing' /\ StaysConnected' BY FramingKept DEF RcRequest, recver
<1>2. PICK q \in Requests[s] : ringPatch' = [ringPatch EXCEPT ![s] = @ \o q]
      BY <1>0 DEF RcRequest
<1>3. ringPatch \in [Sock -> Seq(Nat \X Nat)] /\ q \in Seq(Nat \X Nat)
      BY SocketAssumption DEF SInv, Types
<1>4. ringPatch' \in [Sock -> Seq(Nat \X Nat)]
  <2>1. ringPatch[s] \o q \in Seq(Nat \X Nat) BY <1>3, ConcatProperties
  <2>2. QED BY <1>2, <1>3, <2>1
<1>5. within' = FALSE /\ pc' \in {"command", "send"} /\ todo' \subseteq Sock
      BY ThreadTypes DEF RcRequest, Visiting, Visited, Onward
<1>6. Types'
  <2>1. /\ UNCHANGED <<write_set, list, ringCmd, sendQueue, remain, wire, open, recv_buf, expect>>
        /\ UNCHANGED <<n_pull, n_tell, crash>> /\ n_req' = n_req + 1
        BY DEF RcRequest, recver
  <2>2. n_req' \in Nat BY <2>1 DEF SInv, Types
  <2>3. within' => pc' = "patch" /\ todo' # {} /\ ringPatch'[At'] # <<>> BY <1>5
  <2>4. QED BY <1>4, <1>5, <2>1, <2>2, <2>3 DEF SInv, Types
<1>7. Filling' /\ PriorityFits'
  <2>1. UNCHANGED <<sendQueue, crash>> BY DEF RcRequest
  <2>2. QED BY <2>1, FillingSame
<1>8. QED BY <1>1, <1>6, <1>7 DEF SInv

(* A rejection finds room, or the queue is full of messages with priority  *)
(* behind its first half.                                                  *)
LEMMA PullStep == ASSUME SInv, RcPull PROVE SInv'
<1>0. PICK s \in Sock : s = At BY ThreadTypes DEF RcPull, Visiting
<1>1. Partial' /\ Framing' /\ StaysConnected' BY FramingKept DEF RcPull, recver
<1> DEFINE q == Append(sendQueue[s], PULL_REJECT)
<1>2. /\ sendQueue \in [Sock -> Seq(Msg)] /\ n_pull' = [n_pull EXCEPT ![s] = @ + 1] /\ crash = "no"
      /\ \/ /\ Len(sendQueue[s]) < Capacity /\ crash' = crash
            /\ sendQueue' = [sendQueue EXCEPT ![s] = q]
         \/ /\ ~(Len(sendQueue[s]) < Capacity) /\ crash' = "abort"
            /\ sendQueue' = sendQueue
      BY <1>0 DEF RcPull, Visiting, Running, SInv, Types
<1>3. n_pull \in [Sock -> Nat] /\ Half \in Nat /\ Capacity \in Nat /\ Len(sendQueue[s]) \in Nat
      BY SocketAssumption, Queued DEF SInv, Types
<1>4. q \in Seq(Msg) BY <1>2, Signals, AppendProperties
<1>5. sendQueue' \in [Sock -> Seq(Msg)] BY <1>2, <1>4
<1>6. within' = FALSE /\ pc' \in {"command", "send"} /\ todo' \subseteq Sock
      BY ThreadTypes DEF RcPull, Visiting, Visited, Onward
<1>7. crash' \in {"no", "sigpipe", "abort"} /\ n_pull' \in [Sock -> Nat] BY <1>2, <1>3
<1>8. Types' BY <1>5, <1>6, <1>7 DEF RcPull, SInv, Types, recver
<1>9. \A t \in Sock : Bounded(sendQueue[t]) BY DEF SInv, Filling
<1>10. CASE Len(sendQueue[s]) < Capacity
  <2>1. PULL_REJECT.type \in Notice BY DEF PULL_REJECT, Notice
  <2>2. Bounded(q) BY <1>2, <1>9, <1>10, <2>1, Signals, AppendBounded
  <2>3. crash' # "abort" /\ sendQueue' = [sendQueue EXCEPT ![s] = q] BY <1>2, <1>10
  <2> HIDE DEF q
  <2>4. ASSUME NEW t \in Sock PROVE Bounded(sendQueue'[t])
    <3>1. sendQueue'[t] = IF t = s THEN q ELSE sendQueue[t] BY <1>2, <2>3
    <3>2. QED BY <1>9, <2>2, <3>1
  <2>5. Filling' /\ PriorityFits' BY <2>3, <2>4, FillingKept
  <2>6. QED BY <1>1, <1>8, <2>5 DEF SInv
<1>11. CASE ~(Len(sendQueue[s]) < Capacity)
  <2>1. sendQueue' = sendQueue BY <1>2, <1>11
  <2>2. Filling' BY <1>9, <2>1 DEF Filling, Bounded
  <2>3. Len(sendQueue[s]) = Capacity BY <1>3, <1>9, <1>11 DEF Bounded
  <2>4. \A i \in (Half + 2) .. Capacity : sendQueue[s][i].type \in Notice
    <3> TAKE i \in (Half + 2) .. Capacity
    <3>1. i \in 1 .. Len(sendQueue[s]) /\ i > Half + 1 BY <1>3, <2>3
    <3>2. QED BY <1>9, <3>1 DEF Bounded
  <2>5. FullOfNotices(s)' BY <2>1, <2>3, <2>4 DEF FullOfNotices
  <2>6. PriorityFits' BY <2>5 DEF PriorityFits
  <2>7. QED BY <1>1, <1>8, <2>2, <2>6 DEF SInv
<1>12. QED BY <1>10, <1>11

-----------------------------------------------------------------------------
(* Bytes are sent.                                                         *)

LEMMA Joined ==
    ASSUME NEW u \in Seq(Byte), NEW v \in Seq(Byte), NEW w \in Seq(Byte)
    PROVE  (u \o v) \o w = u \o (v \o w)
<1> HIDE DEF Byte
<1>1. QED BY ConcatAssociative

LEMMA TokenIs ==
    ASSUME SInv, NEW s \in Sock, HasToken(s)
    PROVE  /\ Token(s).msg \in Msg /\ Token(s).sent \in Nat /\ Token(s).sent < MsgLen(Token(s).msg)
           /\ Token(s) \in [msg : Msg, sent : Nat]
           /\ remain[s] # <<>> =>
                   Rest(remain[s]) = Bytes(Token(s).msg, Token(s).sent + 1, MsgLen(Token(s).msg))
           /\ remain[s] = <<>> => /\ Rest(remain[s]) = <<>> /\ Token(s).sent = 0
                                  /\ sendQueue[s] # <<>>
<1> USE DEF SInv
<1>1. remain[s] \in Seq([msg : Msg, sent : Nat]) /\ sendQueue[s] \in Seq(Msg) BY DEF Types
<1>2. CASE remain[s] # <<>>
  <2>1. Len(remain[s]) >= 1 /\ Len(remain[s]) \in Nat BY <1>1, <1>2, EmptySeq, LenProperties
  <2>2. remain[s][1] \in [msg : Msg, sent : Nat]
    <3>1. 1 \in 1 .. Len(remain[s]) BY <2>1
    <3>2. QED BY <1>1, <3>1, ElementOfSeq
  <2>3. Token(s) = remain[s][1] BY <1>2 DEF Token
  <2>4. remain[s][1].sent < MsgLen(remain[s][1].msg) BY <1>2 DEF Partial
  <2>5. QED BY <1>2, <2>2, <2>3, <2>4 DEF Rest
<1>3. CASE remain[s] = <<>>
  <2>1. sendQueue[s] # <<>> BY <1>3 DEF HasToken
  <2>2. Head(sendQueue[s]) \in Msg BY <1>1, <2>1, HeadTailProperties
  <2>3. Token(s) = [msg |-> Head(sendQueue[s]), sent |-> 0] BY <1>3 DEF Token
  <2>4. MsgLen(Head(sendQueue[s])) \in Nat \ {0} BY <2>2, Lengths1
  <2>5. QED BY <1>3, <2>1, <2>2, <2>3, <2>4 DEF Rest
<1>4. QED BY <1>2, <1>3

LEMMA PoppedIs ==
    ASSUME SInv, todo # {}, HasToken(At), Popped
    PROVE  /\ sendQueue' \in [Sock -> Seq(Msg)]
           /\ \A t \in Sock : Bounded(sendQueue'[t])
<1>1. PICK s \in Sock : s = At BY ThreadTypes
<1>2. sendQueue \in [Sock -> Seq(Msg)] /\ \A t \in Sock : Bounded(sendQueue[t])
      BY DEF SInv, Types, Filling
<1>3. CASE remain[s] # <<>>
  <2>1. sendQueue' = sendQueue BY <1>1, <1>3 DEF Popped
  <2>2. QED BY <1>2, <2>1
<1>4. CASE remain[s] = <<>>
  <2> DEFINE q == Tail(sendQueue[s])
  <2>1. sendQueue' = [sendQueue EXCEPT ![s] = q] BY <1>1, <1>4 DEF Popped
  <2>2. sendQueue[s] # <<>> BY <1>1, <1>4, TokenIs
  <2>3. q \in Seq(Msg) BY <1>2, <2>2, HeadTailProperties
  <2>4. Bounded(q) BY <1>2, <2>2, TailBounded
  <2> HIDE DEF q
  <2>5. ASSUME NEW t \in Sock PROVE Bounded(sendQueue'[t])
    <3>1. sendQueue'[t] = IF t = s THEN q ELSE sendQueue[t] BY <1>2, <2>1
    <3>2. QED BY <1>2, <2>4, <3>1
  <2>6. sendQueue' \in [Sock -> Seq(Msg)] BY <1>2, <2>1, <2>3
  <2>7. QED BY <2>5, <2>6
<1>5. QED BY <1>3, <1>4

(* What TCP takes makes the stream no shorter and no longer, unless a new  *)
(* message is begun.                                                       *)
LEMMA SendStep == ASSUME SInv, SmSend PROVE SInv'
<1>0. PICK s \in Sock : s = At BY ThreadTypes DEF SmSend, Visiting
<1> DEFINE t == Token(s)
           m == t.msg
           a == t.sent
           l == MsgLen(m)
           n == Lesser(l - a, Room(s))
           z == a + n
<1>1. HasToken(s) /\ open[s] BY <1>0 DEF SmSend
<1>2. /\ m \in Msg /\ a \in Nat /\ a < l /\ l \in Nat \ {0} /\ t \in [msg : Msg, sent : Nat]
      /\ remain[s] # <<>> => Rest(remain[s]) = Bytes(m, a + 1, l)
      /\ remain[s] = <<>> => Rest(remain[s]) = <<>> /\ a = 0
      BY <1>1, TokenIs, Lengths1
<1>3. /\ wire' = [wire EXCEPT ![s] = @ \o Bytes(m, a + 1, z)]
      /\ \/ z = l /\ remain' = [remain EXCEPT ![s] = <<>>] /\ pc' = pc
         \/ z # l /\ remain' = [remain EXCEPT ![s] = <<[t EXCEPT !.sent = @ + n]>>] /\ pc' = "recv"
      /\ pc = "send" /\ todo # {}
      BY <1>0 DEF SmSend, Visiting
<1>4. /\ wire \in [Sock -> Seq(Byte)] /\ remain \in [Sock -> Seq([msg : Msg, sent : Nat])]
      /\ recv_buf[s] \in Seq(Byte) /\ wire[s] \in Seq(Byte) /\ Len(wire[s]) \in Nat
      /\ Len(wire[s]) <= SockBuf /\ SockBuf \in Nat
      BY SocketAssumption, LenProperties DEF SInv, Types, Partial
<1>5. /\ sendQueue' \in [Sock -> Seq(Msg)]
      /\ \A x \in Sock : Bounded(sendQueue'[x])
      BY <1>0, <1>1, <1>3, PoppedIs DEF SmSend
<1> DEFINE more == Bytes(m, a + 1, z)
           left == Bytes(m, z + 1, l)
           all == Bytes(m, a + 1, l)
           rest == IF z = l THEN <<>> ELSE <<[t EXCEPT !.sent = @ + n]>>
<1> HIDE DEF m, a, l, t
<1>6. /\ z \in Nat /\ a <= z /\ z <= l /\ z - a <= SockBuf - Len(wire[s])
      BY <1>2, <1>4 DEF Lesser, Room
<1> HIDE DEF z
<1>7. /\ more \in Seq(Byte) /\ Len(more) = z - a /\ left \in Seq(Byte)
      /\ all = more \o left /\ all \in Seq(Byte)
  <2>1. more \in Seq(Byte) /\ Len(more) = z - a BY <1>2, <1>6, BytesAre
  <2>2. left \in Seq(Byte) BY <1>2, <1>6, BytesAre
  <2>3. all = more \o left BY <1>2, <1>6, BytesJoin
  <2>4. a <= l BY <1>2
  <2>5. all \in Seq(Byte) BY <1>2, <2>4, BytesAre
  <2>6. QED BY <2>1, <2>2, <2>3, <2>5
<1>8. remain' = [remain EXCEPT ![s] = rest] BY <1>3
<1>9. /\ rest \in Seq([msg : Msg, sent : Nat]) /\ Len(rest) <= 1 /\ Rest(rest) = left
      /\ rest # <<>> => rest[1].sent < MsgLen(rest[1].msg)
  <2>1. CASE z = l
    <3>1. rest = <<>> BY <2>1
    <3>2. left = <<>> BY <1>2, <2>1, NoBytes
    <3>3. QED BY <3>1, <3>2 DEF Rest
  <2>2. CASE z # l
    <3> DEFINE u == [t EXCEPT !.sent = @ + n]
    <3>1. u \in [msg : Msg, sent : Nat] /\ u.msg = m /\ u.sent = z
      <4>1. t.sent + n = z BY DEF z, a
      <4>2. [t EXCEPT !.sent = @ + n] = [t EXCEPT !.sent = z] BY <4>1
      <4> HIDE DEF n
      <4>3. QED BY <1>2, <1>6, <4>2 DEF m
    <3> HIDE DEF u
    <3>2. rest = <<u>> BY <2>2 DEF u
    <3> HIDE DEF rest
    <3>3. rest[1] = u /\ Len(rest) = 1 /\ rest # <<>> /\ rest \in Seq([msg : Msg, sent : Nat])
          BY <3>1, <3>2
    <3>4. Rest(rest) = left BY <3>1, <3>3 DEF Rest, l
    <3>5. z < l BY <1>2, <1>6, <2>2
    <3>6. QED BY <3>1, <3>3, <3>4, <3>5 DEF l
  <2>3. QED BY <2>1, <2>2
<1> HIDE DEF more, left, all, rest
<1>10. /\ wire' = [wire EXCEPT ![s] = @ \o more] /\ wire[s] \o more \in Seq(Byte)
       /\ Len(wire[s] \o more) = Len(wire[s]) + Len(more) /\ Len(more) \in Nat
       BY <1>3, <1>4, <1>7, ConcatProperties, LenProperties DEF more
<1>11. wire' \in [Sock -> Seq(Byte)] /\ remain' \in [Sock -> Seq([msg : Msg, sent : Nat])]
       BY <1>4, <1>8, <1>9, <1>10
<1>12. pc' \in {"send", "recv"} /\ within' = FALSE BY <1>3, ThreadTypes DEF SmSend
<1>13. /\ UNCHANGED <<todo, write_set, list, ringCmd, ringPatch, open, recv_buf, expect>>
       /\ UNCHANGED <<n_req, n_pull, n_tell, crash>>
       BY DEF SmSend, recver, inputs
<1>14. Types' BY <1>5, <1>11, <1>12, <1>13 DEF SInv, Types
<1>15. Partial'
  <2>1. Len(wire'[s]) <= SockBuf
    <3>1. wire'[s] = wire[s] \o more BY <1>4, <1>10
    <3>2. QED BY <1>2, <1>4, <1>6, <1>7, <1>10, <3>1
  <2>2. remain'[s] = rest BY <1>4, <1>8
  <2>3. \A x \in Sock : x # s => wire'[x] = wire[x] /\ remain'[x] = remain[x] BY <1>4, <1>8, <1>10
  <2>4. QED BY <1>9, <1>13, <2>1, <2>2, <2>3 DEF SInv, Partial
<1>16. Filling' /\ PriorityFits'
  <2>1. crash' # "abort" BY <1>13 DEF SmSend, Visiting, Running
  <2>2. QED BY <1>5, <2>1, FillingKept
<1>17. StaysConnected' BY <1>13 DEF SInv, StaysConnected
<1>18. Stream(s)' = recv_buf[s] \o (wire[s] \o all)
  <2>1. wire'[s] = wire[s] \o more /\ remain'[s] = rest BY <1>4, <1>8, <1>10
  <2>2. Stream(s)' = recv_buf[s] \o ((wire[s] \o more) \o left)
        BY <1>9, <1>13, <2>1 DEF Stream
  <2>3. (wire[s] \o more) \o left = wire[s] \o (more \o left)
        BY <1>4, <1>7, Joined
  <2>4. QED BY <1>7, <2>2, <2>3
<1>19. Whole(Stream(s)')
  <2>1. Whole(Stream(s)) BY <1>1 DEF SInv, Framing
  <2>2. CASE remain[s] # <<>>
    <3>1. Stream(s)' = Stream(s) BY <1>2, <1>18, <2>2 DEF Stream, all
    <3>2. QED BY <2>1, <3>1
  <2>3. CASE remain[s] = <<>>
    <3>1. wire[s] \o <<>> = wire[s] BY <1>4, ConcatEmptySeq
    <3>2. Stream(s) = recv_buf[s] \o wire[s] BY <1>2, <2>3, <3>1 DEF Stream
    <3>3. Stream(s)' = Stream(s) \o all
      <4>1. recv_buf[s] \o (wire[s] \o all) = (recv_buf[s] \o wire[s]) \o all BY <1>4, <1>7, Joined
      <4>2. QED BY <1>18, <3>2, <4>1
    <3>4. Stream(s) \in Seq(Byte) BY <1>4, <3>2, ConcatProperties
    <3>5. a + 1 = 1 BY <1>2, <2>3
    <3>6. all = Bytes(m, 1, MsgLen(m)) BY <3>5 DEF all, l
    <3>7. QED BY <1>2, <2>1, <3>3, <3>4, <3>6, WholeMore
  <2>4. QED BY <2>2, <2>3
<1>20. Framing'
  <2>1. \A x \in Sock : x # s => Stream(x)' = Stream(x) BY <1>4, <1>8, <1>10, <1>13 DEF Stream
  <2>2. ASSUME NEW x \in Sock, open'[x]
        PROVE  /\ Whole(Stream(x)')
               /\ expect'[x] = IF Len(recv_buf'[x]) < MSG_HDRLEN THEN 0 ELSE MsgLen(recv_buf'[x][1][1])
    <3>1. open[x] BY <1>13, <2>2
    <3>2. Whole(Stream(x)') BY <1>19, <2>1, <3>1 DEF SInv, Framing
    <3>3. QED BY <1>13, <3>1, <3>2 DEF SInv, Framing
  <2>3. QED BY <2>2 DEF Framing, Whole, WholeAt
<1>21. QED BY <1>14, <1>15, <1>16, <1>17, <1>20 DEF SInv

(* The other end is gone.                                                  *)
LEMMA ResetStep == ASSUME SInv, SmReset PROVE SInv'
<1>0. PICK s \in Sock : s = At BY ThreadTypes DEF SmReset, Visiting
<1>1. /\ todo # {} /\ HasToken(At) /\ Popped /\ ~open[s] /\ pc = "send"
      /\ remain' = [remain EXCEPT ![s] = <<>>] /\ crash' \in {"no", "sigpipe"}
      BY <1>0 DEF SmReset, Visiting
<1>2. /\ sendQueue' \in [Sock -> Seq(Msg)]
      /\ \A t \in Sock : Bounded(sendQueue'[t])
      BY <1>1, PoppedIs
<1>3. /\ UNCHANGED <<pc, todo, within, write_set, list, ringCmd, ringPatch, wire, open, recv_buf>>
      /\ UNCHANGED <<expect, n_req, n_pull, n_tell>>
      BY DEF SmReset, thread, recver, inputs
<1>4. remain \in [Sock -> Seq([msg : Msg, sent : Nat])] BY DEF SInv, Types
<1>5. remain' \in [Sock -> Seq([msg : Msg, sent : Nat])]
  <2> DEFINE T == Seq([msg : Msg, sent : Nat])
  <2>1. <<>> \in T BY EmptySeq
  <2> HIDE DEF T
  <2>2. remain \in [Sock -> T] BY <1>4 DEF T
  <2>3. remain' \in [Sock -> T] BY <1>1, <2>1, <2>2
  <2>4. QED BY <2>3 DEF T
<1>6. within' = FALSE /\ within = FALSE BY <1>1, <1>3, ThreadTypes
<1>7. Types' BY <1>1, <1>2, <1>3, <1>5, <1>6 DEF SInv, Types
<1>8. Filling' /\ PriorityFits' BY <1>1, <1>2, FillingKept
<1>9. \A t \in Sock : remain'[t] = IF t = s THEN <<>> ELSE remain[t] BY <1>1, <1>4
<1>10. Partial' BY <1>3, <1>9 DEF SInv, Partial
<1>11. Framing'
  <2>1. \A t \in Sock : t # s => Stream(t)' = Stream(t) BY <1>3, <1>9 DEF Stream
  <2>2. \A t \in Sock : open'[t] => open[t] /\ t # s BY <1>1, <1>3
  <2>3. ASSUME NEW t \in Sock, open'[t]
        PROVE  /\ Whole(Stream(t)')
               /\ expect'[t] = IF Len(recv_buf'[t]) < MSG_HDRLEN THEN 0 ELSE MsgLen(recv_buf'[t][1][1])
    <3>1. open[t] /\ Stream(t)' = Stream(t) BY <2>1, <2>2, <2>3
    <3>2. Whole(Stream(t)') BY <3>1 DEF SInv, Framing
    <3>3. QED BY <1>3, <3>1, <3>2 DEF SInv, Framing
  <2>4. QED BY <2>3 DEF Framing, Whole, WholeAt
<1>12. StaysConnected' BY <1>3 DEF SInv, StaysConnected
<1>13. QED BY <1>7, <1>8, <1>10, <1>11, <1>12 DEF SInv

-----------------------------------------------------------------------------
(* Bytes are read.                                                         *)

LEMMA Cut ==
    ASSUME NEW b \in Seq(Byte), NEW k \in 0 .. Len(b)
    PROVE  /\ SubSeq(b, 1, k) \in Seq(Byte) /\ Len(SubSeq(b, 1, k)) = k
           /\ SubSeq(b, k + 1, Len(b)) \in Seq(Byte) /\ Len(SubSeq(b, k + 1, Len(b))) = Len(b) - k
           /\ SubSeq(b, 1, k) \o SubSeq(b, k + 1, Len(b)) = b
<1> HIDE DEF Byte
<1>1. Len(b) \in Nat /\ \A i \in 1 .. Len(b) : b[i] \in Byte BY LenProperties, ElementOfSeq
<1>2. /\ SubSeq(b, 1, k) \in Seq(Byte) /\ Len(SubSeq(b, 1, k)) = IF 1 <= k THEN k - 1 + 1 ELSE 0
  <2>1. \A i \in 1 .. k : b[i] \in Byte BY <1>1
  <2>2. QED BY <1>1, <2>1, SubSeqProperties
<1>3. /\ SubSeq(b, k + 1, Len(b)) \in Seq(Byte)
      /\ Len(SubSeq(b, k + 1, Len(b))) = IF k + 1 <= Len(b) THEN Len(b) - (k + 1) + 1 ELSE 0
  <2>1. \A i \in (k + 1) .. Len(b) : b[i] \in Byte BY <1>1
  <2>2. QED BY <1>1, <2>1, SubSeqProperties
<1>4. SubSeq(b, 1, k) \o SubSeq(b, k + 1, Len(b)) = SubSeq(b, 1, Len(b))
  <2>1. 1 \in 1 .. Len(b) + 1 /\ k \in (1 - 1) .. Len(b) /\ Len(b) \in k .. Len(b) BY <1>1
  <2>2. QED BY <2>1, ConcatAdjacentSubSeq
<1>5. SubSeq(b, 1, Len(b)) = b BY SubSeqFull
<1>6. Len(SubSeq(b, 1, k)) = k BY <1>1, <1>2
<1>7. Len(SubSeq(b, k + 1, Len(b))) = Len(b) - k
  <2>1. CASE k < Len(b)
    <3>1. k + 1 <= Len(b) /\ Len(b) - (k + 1) + 1 = Len(b) - k BY <1>1, <2>1
    <3>2. QED BY <1>3, <3>1
  <2>2. CASE k = Len(b)
    <3>1. ~(k + 1 <= Len(b)) /\ Len(b) - k = 0 BY <1>1, <2>2
    <3>2. QED BY <1>3, <3>1
  <2>3. QED BY <1>1, <2>1, <2>2
<1>8. QED BY <1>2, <1>3, <1>4, <1>5, <1>6, <1>7

LEMMA Suffix ==
    ASSUME NEW u \in Seq(Byte), NEW w \in Seq(Byte)
    PROVE  SubSeq(u \o w, Len(u) + 1, Len(u \o w)) = w
<1> DEFINE b == u \o w
           v == SubSeq(b, Len(u) + 1, Len(b))
<1>1. /\ Len(u) \in Nat /\ Len(w) \in Nat /\ b \in Seq(Byte) /\ Len(b) = Len(u) + Len(w)
      /\ \A i \in 1 .. Len(u) + Len(w) : b[i] = IF i <= Len(u) THEN u[i] ELSE w[i - Len(u)]
      BY ConcatProperties, LenProperties
<1> HIDE DEF b
<1>2. v \in Seq(Byte) /\ Len(v) = Len(b) - Len(u)
  <2>1. Len(u) \in 0 .. Len(b) BY <1>1
  <2>2. QED BY <1>1, <2>1, Cut
<1>3. \A i \in 1 .. Len(w) : v[i] = b[Len(u) + i]
  <2>1. \A i \in (Len(u) + 1) .. Len(b) : b[i] \in Byte
    <3>1. \A i \in 1 .. Len(b) : b[i] \in Byte BY <1>1, ElementOfSeq
    <3>2. QED BY <1>1, <3>1
  <2>2. \A i \in 1 .. Len(b) - (Len(u) + 1) + 1 : v[i] = b[(Len(u) + 1) + i - 1]
        BY <1>1, <2>1, SubSeqProperties
  <2>3. \A i \in 1 .. Len(w) : i \in 1 .. Len(b) - (Len(u) + 1) + 1 /\ (Len(u) + 1) + i - 1 = Len(u) + i
        BY <1>1
  <2> HIDE DEF v
  <2>4. QED BY <2>2, <2>3
<1> HIDE DEF v
<1>4. \A i \in 1 .. Len(w) : v[i] = w[i]
  <2> TAKE i \in 1 .. Len(w)
  <2>1. Len(u) + i \in 1 .. Len(u) + Len(w) /\ ~(Len(u) + i <= Len(u)) /\ (Len(u) + i) - Len(u) = i
        BY <1>1
  <2>2. QED BY <1>1, <1>3, <2>1
<1>5. Len(v) = Len(w) BY <1>1, <1>2
<1>6. v = w BY <1>2, <1>4, <1>5, SeqEqual
<1>7. QED BY <1>6 DEF v, b

(* What is known of a receiver before it reads.                            *)
LEMMA ReaderKnows ==
    ASSUME SInv, NEW s \in Sock, open[s]
    PROVE  /\ recv_buf[s] \in Seq(Byte) /\ wire[s] \in Seq(Byte) /\ Rest(remain[s]) \in Seq(Byte)
           /\ Stream(s) \in Seq(Byte) /\ Whole(Stream(s))
           /\ Len(recv_buf[s]) \in Nat /\ Len(wire[s]) \in Nat
           /\ MSG_HDRLEN \in Nat \ {0} /\ RECVBUF_LEN \in Nat /\ MSG_HDRLEN < RECVBUF_LEN
           /\ recv_buf[s] # <<>> =>
                  /\ Len(recv_buf[s]) >= 1 /\ recv_buf[s][1] = Stream(s)[1]
                  /\ recv_buf[s][1][1] \in Msg /\ recv_buf[s][1][2] = 1
           /\ Len(recv_buf[s]) < MSG_HDRLEN => expect[s] = 0
           /\ Len(recv_buf[s]) >= MSG_HDRLEN =>
                  /\ recv_buf[s] # <<>> /\ expect[s] = MsgLen(recv_buf[s][1][1])
                  /\ expect[s] \in Nat \ {0} /\ expect[s] <= RECVBUF_LEN
<1> USE DEF SInv
<1>1. /\ recv_buf[s] \in Seq(Byte) /\ wire[s] \in Seq(Byte)
      /\ remain[s] \in Seq([msg : Msg, sent : Nat])
      BY DEF Types
<1>2. Rest(remain[s]) \in Seq(Byte)
  <2>1. CASE remain[s] = <<>> BY <2>1 DEF Rest
  <2>2. CASE remain[s] # <<>>
    <3>1. HasToken(s) BY <2>2 DEF HasToken
    <3>2. /\ Token(s).msg \in Msg /\ Token(s).sent \in Nat /\ Token(s).sent < MsgLen(Token(s).msg)
          /\ Rest(remain[s]) = Bytes(Token(s).msg, Token(s).sent + 1, MsgLen(Token(s).msg))
          BY <2>2, <3>1, TokenIs
    <3>3. MsgLen(Token(s).msg) \in Nat BY <3>2, Lengths1
    <3>4. Token(s).sent <= MsgLen(Token(s).msg) BY <3>2, <3>3
    <3>5. QED BY <3>2, <3>3, <3>4, BytesAre
  <2>3. QED BY <2>1, <2>2
<1> DEFINE c == wire[s] \o Rest(remain[s])
           b == recv_buf[s]
<1>3. c \in Seq(Byte) BY <1>1, <1>2, ConcatProperties
<1> HIDE DEF c
<1>4. /\ Stream(s) = b \o c /\ Stream(s) \in Seq(Byte) /\ Len(Stream(s)) = Len(b) + Len(c)
      /\ \A i \in 1 .. Len(b) + Len(c) : Stream(s)[i] = IF i <= Len(b) THEN b[i] ELSE c[i - Len(b)]
  <2>1. Stream(s) = b \o c BY DEF Stream, c
  <2>2. QED BY <1>1, <1>3, <2>1, ConcatProperties
<1>5. Len(b) \in Nat /\ Len(c) \in Nat /\ Len(wire[s]) \in Nat BY <1>1, <1>3, LenProperties
<1>6. Whole(Stream(s)) /\ expect[s] = IF Len(b) < MSG_HDRLEN THEN 0 ELSE MsgLen(b[1][1])
      BY DEF Framing
<1>7. MSG_HDRLEN \in Nat \ {0} /\ RECVBUF_LEN \in Nat /\ MSG_HDRLEN < RECVBUF_LEN
      BY SocketAssumption
<1>8. ASSUME b # <<>>
      PROVE  Len(b) >= 1 /\ b[1] = Stream(s)[1] /\ b[1][1] \in Msg /\ b[1][2] = 1
  <2>1. Len(b) >= 1 BY <1>1, <1>5, <1>8, EmptySeq
  <2>2. 1 \in 1 .. Len(b) + Len(c) /\ 1 <= Len(b) BY <1>5, <2>1
  <2>3. b[1] = Stream(s)[1] BY <1>4, <2>2
  <2>4. Stream(s) # <<>>
    <3>1. Len(Stream(s)) # 0 BY <1>4, <1>5, <2>1
    <3>2. QED BY <3>1, EmptySeq
  <2>5. Stream(s)[1][1] \in Msg /\ Stream(s)[1][2] = 1 BY <1>4, <1>6, <2>4, WholeFirst
  <2>6. QED BY <2>1, <2>3, <2>5
<1>9. ASSUME Len(b) >= MSG_HDRLEN
      PROVE  /\ b # <<>> /\ expect[s] = MsgLen(b[1][1])
             /\ expect[s] \in Nat \ {0} /\ expect[s] <= RECVBUF_LEN
  <2>1. Len(b) # 0 BY <1>5, <1>7, <1>9
  <2>2. b # <<>> BY <2>1, EmptySeq
  <2>3. b[1][1] \in Msg BY <1>8, <2>2
  <2>4. expect[s] = MsgLen(b[1][1]) BY <1>5, <1>6, <1>7, <1>9
  <2> HIDE DEF b
  <2>5. QED BY <2>2, <2>3, <2>4, Lengths1
<1>10. QED BY <1>1, <1>2, <1>4, <1>5, <1>6, <1>7, <1>8, <1>9

LEMMA ReadStep == ASSUME SInv, NEW s \in Sock, RvRead(s) PROVE SInv'
<1> DEFINE B == recv_buf[s]
           W == wire[s]
           n == Lesser(Len(W), RECVBUF_LEN - Len(B))
           C == B \o SubSeq(W, 1, n)
           V == SubSeq(W, n + 1, Len(W))
<1>1. /\ open[s] /\ ~HasMessage(s) /\ W # <<>>
      /\ recv_buf' = [recv_buf EXCEPT ![s] = C] /\ wire' = [wire EXCEPT ![s] = V]
      /\ open' = [open EXCEPT ![s] = n > 0]
      /\ UNCHANGED <<thread, queues, inputs, crash>>
      BY DEF RvRead
<1>2. PICK e \in Lengths(expect[s], recv_buf'[s]) : expect' = [expect EXCEPT ![s] = e]
      BY DEF RvRead
<1>3. /\ recv_buf \in [Sock -> Seq(Byte)] /\ wire \in [Sock -> Seq(Byte)]
      /\ open \in [Sock -> BOOLEAN] /\ expect \in [Sock -> Nat]
      BY DEF SInv, Types
<1>4. /\ B \in Seq(Byte) /\ W \in Seq(Byte) /\ Rest(remain[s]) \in Seq(Byte)
      /\ Stream(s) \in Seq(Byte) /\ Whole(Stream(s)) /\ Len(B) \in Nat /\ Len(W) \in Nat
      /\ MSG_HDRLEN \in Nat \ {0} /\ RECVBUF_LEN \in Nat /\ MSG_HDRLEN < RECVBUF_LEN
      /\ B # <<>> => Len(B) >= 1 /\ B[1][1] \in Msg /\ B[1][2] = 1
      /\ Len(B) < MSG_HDRLEN => expect[s] = 0
      /\ Len(B) >= MSG_HDRLEN => /\ B # <<>> /\ expect[s] = MsgLen(B[1][1])
                                 /\ expect[s] \in Nat \ {0} /\ expect[s] <= RECVBUF_LEN
      BY <1>1, ReaderKnows
<1> HIDE DEF B, W
<1>5. Len(B) < RECVBUF_LEN
  <2>1. CASE Len(B) < MSG_HDRLEN BY <1>4, <2>1
  <2>2. CASE Len(B) >= MSG_HDRLEN
    <3>1. ~(Len(B) >= expect[s]) BY <1>1, <1>4, <2>2 DEF HasMessage, B
    <3>2. QED BY <1>4, <2>2, <3>1
  <2>3. QED BY <1>4, <2>1, <2>2
<1>6. Len(W) >= 1 BY <1>1, <1>4, EmptySeq
<1>7. n \in 1 .. Len(W) /\ Len(B) + n <= RECVBUF_LEN BY <1>4, <1>5, <1>6 DEF Lesser
<1> HIDE DEF n
<1>8. /\ SubSeq(W, 1, n) \in Seq(Byte) /\ Len(SubSeq(W, 1, n)) = n
      /\ V \in Seq(Byte) /\ Len(V) = Len(W) - n /\ SubSeq(W, 1, n) \o V = W
  <2>1. n \in 0 .. Len(W) BY <1>7
  <2>2. QED BY <1>4, <2>1, Cut
<1>9. /\ C \in Seq(Byte) /\ Len(C) = Len(B) + n
      /\ \A i \in 1 .. Len(B) + n : C[i] = IF i <= Len(B) THEN B[i] ELSE SubSeq(W, 1, n)[i - Len(B)]
  <2> DEFINE X == SubSeq(W, 1, n)
  <2>1. B \in Seq(Byte) /\ X \in Seq(Byte) /\ Len(X) = n BY <1>4, <1>8
  <2> HIDE DEF X
  <2>2. /\ B \o X \in Seq(Byte) /\ Len(B \o X) = Len(B) + Len(X)
        /\ \A i \in 1 .. Len(B) + Len(X) : (B \o X)[i] = IF i <= Len(B) THEN B[i] ELSE X[i - Len(B)]
        BY <2>1, ConcatProperties
  <2>3. QED BY <2>1, <2>2 DEF X
<1> DEFINE R == Rest(remain[s])
<1>10. C \o (V \o R) = Stream(s)
  <2> DEFINE X == SubSeq(W, 1, n)
  <2>1. X \in Seq(Byte) /\ V \in Seq(Byte) /\ R \in Seq(Byte) /\ B \in Seq(Byte) /\ X \o V = W
        BY <1>4, <1>8
  <2>2. Stream(s) = B \o (W \o R) BY DEF Stream, B, W
  <2>3. C = B \o X OBVIOUS
  <2> HIDE DEF X, V, R, C
  <2>4. V \o R \in Seq(Byte) BY <2>1, ConcatProperties
  <2>5. C \o (V \o R) = B \o (X \o (V \o R)) BY <2>1, <2>3, <2>4, Joined
  <2>6. (X \o V) \o R = X \o (V \o R) BY <2>1, Joined
  <2>7. QED BY <2>1, <2>2, <2>5, <2>6
<1> HIDE DEF C, V, R
<1>11. /\ recv_buf'[s] = C /\ wire'[s] = V /\ open'[s] = TRUE /\ remain' = remain
       /\ \A t \in Sock : t # s => /\ recv_buf'[t] = recv_buf[t] /\ wire'[t] = wire[t]
                                   /\ open'[t] = open[t] /\ expect'[t] = expect[t]
  <2>1. (n > 0) = TRUE BY <1>7
  <2>2. QED BY <1>1, <1>2, <1>3, <2>1 DEF queues
<1>12. Stream(s)' = Stream(s)
  <2>1. Stream(s)' = C \o (V \o Rest(remain[s])) BY <1>11 DEF Stream
  <2>2. QED BY <1>10, <2>1 DEF R
<1>13. C # <<>> /\ C[1][1] \in Msg /\ C[1][2] = 1
  <2>1. Len(C) # 0 /\ Len(C) \in Nat BY <1>4, <1>7, <1>9
  <2>2. C # <<>> BY <2>1, EmptySeq
  <2>3. V \o R \in Seq(Byte) BY <1>4, <1>8, ConcatProperties DEF R
  <2>4. C[1] = Stream(s)[1]
    <3>1. 1 \in 1 .. Len(C) + Len(V \o R) /\ 1 <= Len(C)
          BY <2>1, <2>3, LenProperties
    <3>2. (C \o (V \o R))[1] = C[1] BY <1>9, <2>3, <3>1, ConcatProperties
    <3>3. QED BY <1>10, <3>2
  <2>5. Stream(s) # <<>>
    <3>1. C \o (V \o R) # <<>> BY <1>9, <2>2, <2>3, ConcatEqualIffEmpty
    <3>2. QED BY <1>10, <3>1
  <2>6. Stream(s)[1][1] \in Msg /\ Stream(s)[1][2] = 1 BY <1>4, <2>5, WholeFirst
  <2>7. QED BY <2>2, <2>4, <2>6
<1>14. e = (IF Len(C) < MSG_HDRLEN THEN 0 ELSE MsgLen(C[1][1])) /\ e \in Nat
  <2>1. e \in Lengths(expect[s], C) BY <1>2, <1>11
  <2>2. CASE expect[s] # 0
    <3>1. Len(B) >= MSG_HDRLEN /\ Len(C) >= MSG_HDRLEN /\ Len(C) \in Nat BY <1>4, <1>7, <1>9, <2>2
    <3>2. 1 \in 1 .. Len(B) + n /\ 1 <= Len(B) BY <1>4, <1>7, <3>1
    <3>3. C[1] = B[1] BY <1>9, <3>2
    <3>4. e = expect[s] BY <2>1, <2>2 DEF Lengths
    <3>5. QED BY <1>4, <3>1, <3>3, <3>4
  <2>3. CASE expect[s] = 0 /\ Len(C) < MSG_HDRLEN BY <2>1, <2>3 DEF Lengths
  <2>4. CASE expect[s] = 0 /\ ~(Len(C) < MSG_HDRLEN)
    <3>1. e = MsgLen(C[1][1]) BY <1>13, <2>1, <2>4 DEF Lengths
    <3>2. QED BY <1>13, <2>4, <3>1, Lengths1
  <2>5. QED BY <2>2, <2>3, <2>4
<1>15. expect'[s] = e BY <1>2, <1>3
<1>16. Types'
  <2>1. recv_buf' \in [Sock -> Seq(Byte)] /\ wire' \in [Sock -> Seq(Byte)]
        BY <1>1, <1>3, <1>8, <1>9
  <2>2. open' \in [Sock -> BOOLEAN] /\ expect' \in [Sock -> Nat] BY <1>1, <1>2, <1>3, <1>14
  <2>3. QED BY <1>1, <2>1, <2>2 DEF SInv, Types, thread, queues, inputs, At
<1>17. Partial'
  <2>1. Len(wire'[s]) <= Len(W) BY <1>4, <1>7, <1>8, <1>11
  <2>2. Len(wire'[s]) <= SockBuf
    <3>1. Len(W) <= SockBuf /\ SockBuf \in Nat BY SocketAssumption DEF SInv, Partial, W
    <3>2. Len(wire'[s]) \in Nat BY <1>4, <1>7, <1>8, <1>11
    <3>3. QED BY <1>4, <2>1, <3>1, <3>2
  <2>3. Len(recv_buf'[s]) <= RECVBUF_LEN BY <1>7, <1>9, <1>11
  <2>4. QED BY <1>11, <2>2, <2>3 DEF SInv, Partial
<1>18. Filling' /\ PriorityFits'
  <2>1. UNCHANGED <<sendQueue, crash>> BY <1>1 DEF queues
  <2>2. QED BY <2>1, FillingSame
<1>19. Framing'
  <2>1. ASSUME NEW t \in Sock, open'[t]
        PROVE  /\ Whole(Stream(t)')
               /\ expect'[t] = IF Len(recv_buf'[t]) < MSG_HDRLEN THEN 0 ELSE MsgLen(recv_buf'[t][1][1])
    <3>1. CASE t = s
      <4>1. Whole(Stream(t)') BY <1>4, <1>12, <3>1
      <4>2. QED BY <1>11, <1>14, <1>15, <3>1, <4>1
    <3>2. CASE t # s
      <4>1. open[t] /\ Stream(t)' = Stream(t) BY <1>11, <2>1, <3>2 DEF Stream
      <4>2. Whole(Stream(t)') BY <4>1 DEF SInv, Framing
      <4>3. QED BY <1>11, <3>2, <4>1, <4>2 DEF SInv, Framing
    <3>3. QED BY <3>1, <3>2
  <2>2. QED BY <2>1 DEF Framing, Whole, WholeAt
<1>20. StaysConnected' BY <1>11 DEF SInv, StaysConnected
<1>21. QED BY <1>16, <1>17, <1>18, <1>19, <1>20 DEF SInv

(* A message is cut off where the next one begins.                         *)
LEMMA MessageStep == ASSUME SInv, NEW s \in Sock, RvMessage(s) PROVE SInv'
<1> DEFINE B == recv_buf[s]
           l == expect[s]
           C == SubSeq(B, l + 1, Len(B))
           R == wire[s] \o Rest(remain[s])
<1>1. /\ open[s] /\ HasMessage(s) /\ recv_buf' = [recv_buf EXCEPT ![s] = C]
      /\ UNCHANGED <<thread, queues, wire, open, inputs, crash>>
      BY DEF RvMessage
<1>2. PICK e \in Lengths(0, recv_buf'[s]) : expect' = [expect EXCEPT ![s] = e]
      BY DEF RvMessage
<1>3. /\ recv_buf \in [Sock -> Seq(Byte)] /\ expect \in [Sock -> Nat]
      BY DEF SInv, Types
<1>4. /\ B \in Seq(Byte) /\ wire[s] \in Seq(Byte) /\ Rest(remain[s]) \in Seq(Byte)
      /\ Stream(s) \in Seq(Byte) /\ Whole(Stream(s)) /\ Len(B) \in Nat
      /\ MSG_HDRLEN \in Nat \ {0}
      /\ Len(B) < MSG_HDRLEN => l = 0
      /\ Len(B) >= MSG_HDRLEN => /\ B # <<>> /\ l = MsgLen(B[1][1]) /\ B[1] = Stream(s)[1]
                                 /\ l \in Nat \ {0}
      BY <1>1, ReaderKnows
<1>5. /\ l # 0 /\ Len(B) >= l BY <1>1 DEF HasMessage
<1>6. /\ B # <<>> /\ l = MsgLen(Stream(s)[1][1]) /\ l \in Nat \ {0} /\ l \in 0 .. Len(B)
  <2>1. Len(B) >= MSG_HDRLEN BY <1>4, <1>5
  <2>2. QED BY <1>4, <1>5, <2>1
<1>7. R \in Seq(Byte) BY <1>4, ConcatProperties
<1>8. Stream(s) = B \o R BY DEF Stream
<1> HIDE DEF B, l, R
<1> DEFINE X == SubSeq(B, 1, l)
<1>9. /\ X \in Seq(Byte) /\ Len(X) = l /\ C \in Seq(Byte) /\ X \o C = B
      /\ Len(C) = Len(B) - l
      BY <1>4, <1>6, Cut
<1> HIDE DEF X, C
<1>10. C \o R \in Seq(Byte) /\ Stream(s) = X \o (C \o R)
  <2>1. C \o R \in Seq(Byte) BY <1>7, <1>9, ConcatProperties
  <2>2. (X \o C) \o R = X \o (C \o R) BY <1>7, <1>9, Joined
  <2>3. QED BY <1>8, <1>9, <2>1, <2>2
<1>11. C \o R = SubSeq(Stream(s), l + 1, Len(Stream(s))) BY <1>9, <1>10, Suffix
<1>12. Whole(C \o R)
  <2>1. Stream(s) # <<>> BY <1>4, <1>6, <1>7, <1>8, ConcatEqualIffEmpty
  <2>2. QED BY <1>4, <1>6, <1>11, <2>1, WholeRest
<1>13. /\ recv_buf'[s] = C /\ expect'[s] = e /\ wire' = wire /\ open' = open /\ remain' = remain
       /\ \A t \in Sock : t # s => recv_buf'[t] = recv_buf[t] /\ expect'[t] = expect[t]
       BY <1>1, <1>2, <1>3 DEF queues
<1>14. Stream(s)' = C \o R
  <2>1. Stream(s)' = recv_buf'[s] \o (wire'[s] \o Rest(remain'[s])) BY DEF Stream, Rest, Bytes
  <2>2. QED BY <1>13, <2>1 DEF R
<1>15. e = (IF Len(C) < MSG_HDRLEN THEN 0 ELSE MsgLen(C[1][1])) /\ e \in Nat
  <2>1. e \in Lengths(0, C) BY <1>2, <1>13
  <2>2. CASE Len(C) < MSG_HDRLEN BY <2>1, <2>2 DEF Lengths
  <2>3. CASE ~(Len(C) < MSG_HDRLEN)
    <3>1. Len(C) \in Nat /\ Len(R) \in Nat BY <1>7, <1>9, LenProperties
    <3>2. Len(C) >= 1 BY <1>4, <2>3, <3>1
    <3>3. C # <<>> BY <3>2, EmptySeq
    <3>4. C \o R # <<>> BY <1>7, <1>9, <3>3, ConcatEqualIffEmpty
    <3>5. 1 \in 1 .. Len(C) + Len(R) /\ 1 <= Len(C) BY <3>1, <3>2
    <3>6. (C \o R)[1] = C[1] BY <1>7, <1>9, <3>5, ConcatProperties
    <3>7. C[1][1] \in Msg /\ C[1][2] = 1 BY <1>10, <1>12, <3>4, <3>6, WholeFirst
    <3>8. e = MsgLen(C[1][1]) BY <2>1, <2>3, <3>7 DEF Lengths
    <3>9. QED BY <2>3, <3>7, <3>8, Lengths1
  <2>4. QED BY <2>2, <2>3
<1>16. Types'
  <2>1. recv_buf' \in [Sock -> Seq(Byte)] BY <1>1, <1>3, <1>9
  <2>2. expect' \in [Sock -> Nat] BY <1>2, <1>3, <1>15
  <2>3. QED BY <1>1, <2>1, <2>2 DEF SInv, Types, thread, queues, inputs, At
<1>17. Partial'
  <2>1. Len(B) <= RECVBUF_LEN BY DEF SInv, Partial, B
  <2>2. Len(recv_buf'[s]) <= RECVBUF_LEN
    <3>1. RECVBUF_LEN \in Nat BY SocketAssumption
    <3>2. QED BY <1>4, <1>6, <1>9, <1>13, <2>1, <3>1
  <2>3. QED BY <1>13, <2>2 DEF SInv, Partial
<1>18. Filling' /\ PriorityFits'
  <2>1. UNCHANGED <<sendQueue, crash>> BY <1>1 DEF queues
  <2>2. QED BY <2>1, FillingSame
<1>19. Framing'
  <2>1. ASSUME NEW t \in Sock, open'[t]
        PROVE  /\ Whole(Stream(t)')
               /\ expect'[t] = IF Len(recv_buf'[t]) < MSG_HDRLEN THEN 0 ELSE MsgLen(recv_buf'[t][1][1])
    <3>1. CASE t = s
      <4>1. Whole(Stream(t)') BY <1>12, <1>14, <3>1
      <4>2. QED BY <1>13, <1>15, <3>1, <4>1
    <3>2. CASE t # s
      <4>1. open[t] /\ Stream(t)' = Stream(t) BY <1>13, <2>1, <3>2 DEF Stream
      <4>2. Whole(Stream(t)') BY <4>1 DEF SInv, Framing
      <4>3. QED BY <1>13, <3>2, <4>1, <4>2 DEF SInv, Framing
    <3>3. QED BY <3>1, <3>2
  <2>2. QED BY <2>1 DEF Framing, Whole, WholeAt
<1>20. StaysConnected' BY <1>13 DEF SInv, StaysConnected
<1>21. QED BY <1>16, <1>17, <1>18, <1>19, <1>20 DEF SInv

LEMMA DiesStep == ASSUME SInv, NEW s \in Sock, RvDies(s) PROVE SInv'
<1>1. /\ s \in Flaky /\ open' = [open EXCEPT ![s] = FALSE] /\ wire' = [wire EXCEPT ![s] = <<>>]
      /\ recv_buf' = [recv_buf EXCEPT ![s] = <<>>] /\ expect' = [expect EXCEPT ![s] = 0]
      /\ UNCHANGED <<thread, queues, inputs, crash>>
      BY DEF RvDies
<1>2. /\ recv_buf \in [Sock -> Seq(Byte)] /\ wire \in [Sock -> Seq(Byte)]
      /\ open \in [Sock -> BOOLEAN] /\ expect \in [Sock -> Nat]
      BY DEF SInv, Types
<1>3. /\ ~open'[s] /\ wire'[s] = <<>> /\ remain' = remain
      /\ \A t \in Sock : t # s => /\ recv_buf'[t] = recv_buf[t] /\ wire'[t] = wire[t]
                                  /\ open'[t] = open[t] /\ expect'[t] = expect[t]
      BY <1>1, <1>2 DEF queues
<1>4. Types'
  <2> DEFINE T == Seq(Byte)
  <2>1. <<>> \in T BY EmptySeq
  <2> HIDE DEF T
  <2>2. recv_buf \in [Sock -> T] /\ wire \in [Sock -> T] BY <1>2 DEF T
  <2>3. recv_buf' \in [Sock -> T] /\ wire' \in [Sock -> T] BY <1>1, <2>1, <2>2
  <2>4. open' \in [Sock -> BOOLEAN] /\ expect' \in [Sock -> Nat] BY <1>1, <1>2
  <2>5. QED BY <1>1, <2>3, <2>4 DEF T, SInv, Types, thread, queues, inputs, At
<1>5. Partial'
  <2>1. Len(wire'[s]) = 0 /\ SockBuf \in Nat BY <1>3, SocketAssumption
  <2>2. Len(recv_buf'[s]) = 0 /\ RECVBUF_LEN \in Nat BY <1>1, <1>2, SocketAssumption
  <2>3. QED BY <1>3, <2>1, <2>2 DEF SInv, Partial
<1>6. Filling' /\ PriorityFits'
  <2>1. UNCHANGED <<sendQueue, crash>> BY <1>1 DEF queues
  <2>2. QED BY <2>1, FillingSame
<1>7. Framing'
  <2>1. ASSUME NEW t \in Sock, open'[t]
        PROVE  /\ Whole(Stream(t)')
               /\ expect'[t] = IF Len(recv_buf'[t]) < MSG_HDRLEN THEN 0 ELSE MsgLen(recv_buf'[t][1][1])
    <3>1. t # s /\ open[t] BY <1>3, <2>1
    <3>2. Stream(t)' = Stream(t) BY <1>3, <3>1 DEF Stream
    <3>3. Whole(Stream(t)') BY <3>1, <3>2 DEF SInv, Framing
    <3>4. QED BY <1>3, <3>1, <3>3 DEF SInv, Framing
  <2>2. QED BY <2>1 DEF Framing, Whole, WholeAt
<1>8. StaysConnected' BY <1>1, <1>3 DEF SInv, StaysConnected
<1>9. QED BY <1>4, <1>5, <1>6, <1>7, <1>8 DEF SInv

-----------------------------------------------------------------------------
(* The theorems.                                                           *)

LEMMA SInvInit == Init => SInv
<1> SUFFICES ASSUME Init PROVE SInv OBVIOUS
<1>1. /\ MSG_HDRLEN \in Nat \ {0} /\ SockBuf \in Nat \ {0} /\ Half \in Nat
      /\ Capacity \in Nat /\ RECVBUF_LEN \in Nat
      BY SocketAssumption
<1>2. Types
  <2>1. \A S : <<>> \in Seq(S) BY EmptySeq
  <2> DEFINE P == Seq(Nat \X Nat)
             M == Seq(Msg)
             T == Seq([msg : Msg, sent : Nat])
             B == Seq(Byte)
  <2>2. <<>> \in P /\ <<>> \in M /\ <<>> \in T /\ <<>> \in B /\ <<>> \in Seq(Sock) BY <2>1
  <2> HIDE DEF P, M, T, B
  <2>3. /\ ringPatch \in [Sock -> P] /\ sendQueue \in [Sock -> M] /\ remain \in [Sock -> T]
        /\ wire \in [Sock -> B] /\ recv_buf \in [Sock -> B] /\ ringCmd \in Seq(Sock)
        BY <2>2 DEF Init
  <2>4. QED BY <2>3 DEF Init, Types, P, M, T, B
<1>3. Partial BY <1>1 DEF Init, Partial
<1>4. Filling
  <2>1. \A s \in Sock : Len(sendQueue[s]) = 0 BY DEF Init
  <2>2. QED BY <1>1, <2>1 DEF Filling, Bounded
<1>5. Framing
  <2>1. <<>> \o (<<>> \o <<>>) = <<>> OBVIOUS
  <2>2. \A s \in Sock : Stream(s) = <<>> BY <2>1 DEF Init, Stream, Rest
  <2>3. QED BY <1>1, <2>2 DEF Init, Framing, Whole
<1>6. StaysConnected /\ PriorityFits BY DEF Init, StaysConnected, PriorityFits
<1>7. QED BY <1>2, <1>3, <1>4, <1>5, <1>6 DEF SInv

LEMMA SInvNext == SInv /\ [Next]_vars => SInv'
<1> SUFFICES ASSUME SInv, [Next]_vars PROVE SInv' OBVIOUS
<1>1. CASE Agent
  <2>1. CASE SsCommand BY <2>1, CommandStep
  <2>2. CASE PtInsert BY <2>2, InsertStep
  <2>3. CASE SmSend BY <2>3, SendStep
  <2>4. CASE SmReset BY <2>4, ResetStep
  <2>5. CASE RcRequest BY <2>5, RequestStep
  <2>6. CASE RcPull BY <2>6, PullStep
  <2>7. CASE \/ SsCommandsOver \/ PtRefused \/ PtOver \/ SsSelect
             \/ SmOver \/ RcClosed \/ RcNothing
        BY <2>7, ThreadStep
  <2>8. CASE PtEmpty BY <2>8, EmptyStep
  <2>9. QED BY <1>1, <2>1, <2>2, <2>3, <2>4, <2>5, <2>6, <2>7, <2>8 DEF Agent
<1>2. ASSUME NEW s \in Sock, SsTell(s) \/ Reader(s) \/ RvDies(s) PROVE SInv'
  <2>1. CASE SsTell(s) BY <2>1, TellStep
  <2>2. CASE RvRead(s) BY <2>2, ReadStep
  <2>3. CASE RvMessage(s) BY <2>3, MessageStep
  <2>4. CASE RvDies(s) BY <2>4, DiesStep
  <2>5. QED BY <1>2, <2>1, <2>2, <2>3, <2>4 DEF Reader
<1>3. CASE UNCHANGED vars
  <2>1. UNCHANGED <<queues, wire, open, recver, inputs, crash>>
        /\ UNCHANGED <<pc, todo, within, write_set, list>>
        BY <1>3 DEF vars, thread
  <2>2. Partial' /\ Framing' /\ StaysConnected' BY <2>1, FramingKept DEF queues, recver
  <2>3. Types' BY <2>1 DEF SInv, Types, queues, recver, inputs, At
  <2>4. Filling' /\ PriorityFits'
        BY <2>1, FillingSame DEF queues
  <2>5. QED BY <2>2, <2>3, <2>4 DEF SInv
<1>4. QED BY <1>1, <1>2, <1>3 DEF Next

(* The bytes on the way to a receiver that is connected are whole messages *)
(* of which the last one may still be in the send thread's hands, and the  *)
(* queues hold no more than patches and priority messages allow.           *)
THEOREM StreamsAreWhole == Spec => []SInv
<1>1. QED BY SInvInit, SInvNext, PTL DEF Spec

(* Type correctness of the send thread's connections: the queue of a       *)
(* receiver, what TCP holds for it and its receive buffer keep to their    *)
(* capacities, and no more than one message is sent in part.               *)
THEOREM TypeCorrect == Spec => []TypeOK
<1>1. SInv => TypeOK BY DEF SInv, TypeOK, WithinCapacities, Partial, Filling, Bounded
<1>2. QED BY <1>1, StreamsAreWhole, PTL

(* No receiver that keeps reading takes a full buffer for a closed         *)
(* connection (thread_recv.c:353-356), whatever TCP delivers at a time.    *)
THEOREM ReadersStay == Spec => []StaysConnected
<1>1. SInv => StaysConnected BY DEF SInv
<1>2. QED BY <1>1, StreamsAreWhole, PTL

(* When a message with priority finds the queue full and the agent aborts  *)
(* (thread_send.c:262), it is full of messages with priority behind its    *)
(* first half: patches never take the room that is kept for them.          *)
THEOREM PriorityHasRoom == Spec => []PriorityFits
<1>1. SInv => PriorityFits BY DEF SInv
<1>2. QED BY <1>1, StreamsAreWhole, PTL

-----------------------------------------------------------------------------
(* What Gather makes of a sequence.                                        *)

(* A set of numbers has a least one: sets of numbers below n are finite,   *)
(* and there is no endless descent among finite sets.                      *)
LEMMA Least ==
    ASSUME NEW T, T \subseteq Nat, T # {}
    PROVE  \E m \in T : \A k \in T : m <= k
<1> DEFINE R == StrictSubsetOrdering(Nat)
           S == FiniteSubsetsOf(Nat)
           U == {0 .. n : n \in T}
<1>1. IsWellFoundedOn(R, S) BY FS_StrictSubsetOrderingWellFounded
<1>2. U \subseteq S /\ U # {}
  <2>1. \A n \in T : 0 .. n \subseteq Nat /\ IsFiniteSet(0 .. n) BY FS_Interval
  <2>2. QED BY <2>1 DEF FiniteSubsetsOf
<1>3. PICK x \in U : \A y \in U : <<y, x>> \notin R
  <2> HIDE DEF R, S, U
  <2>1. QED BY <1>1, <1>2, WFMin
<1>4. PICK m \in T : x = 0 .. m OBVIOUS
<1>5. ASSUME NEW k \in T, ~(m <= k) PROVE FALSE
  <2>1. 0 .. k \subseteq 0 .. m /\ m \notin 0 .. k /\ m \in 0 .. m BY <1>5
  <2>2. <<0 .. k, 0 .. m>> \in R BY <2>1 DEF StrictSubsetOrdering
  <2>3. QED BY <1>3, <1>4, <2>2
<1>6. QED BY <1>5

(* f[i] is what has been gathered from the first i elements.               *)
Gathers(f, n, s, g) ==
    \A i \in 0 .. n : f[i] = IF i = 0 THEN <<>> ELSE f[i - 1] \o g[s[i]]

LEMMA GatherExists ==
    ASSUME NEW S, NEW R, NEW g \in [S -> Seq(R)], NEW s \in Seq(S), NEW n \in 0 .. Len(s)
    PROVE  \E f \in [0 .. n -> Seq(R)] : Gathers(f, n, s, g)
<1> DEFINE P(k) == \E f \in [0 .. k -> Seq(R)] : Gathers(f, k, s, g)
           T == {k \in 0 .. Len(s) : ~P(k)}
<1>0. Len(s) \in Nat /\ \A i \in 1 .. Len(s) : s[i] \in S BY LenProperties, ElementOfSeq
<1>1. P(0)
  <2>1. <<>> \in Seq(R) /\ \A i \in 0 .. 0 : i = 0 BY EmptySeq
  <2>2. [i \in 0 .. 0 |-> <<>>] \in [0 .. 0 -> Seq(R)] BY <2>1
  <2>3. Gathers([i \in 0 .. 0 |-> <<>>], 0, s, g) BY <2>1 DEF Gathers
  <2>4. QED BY <2>2, <2>3
<1>2. ASSUME NEW k \in Nat, k + 1 \in 0 .. Len(s), P(k) PROVE P(k + 1)
  <2>1. PICK f \in [0 .. k -> Seq(R)] : Gathers(f, k, s, g) BY <1>2
  <2> DEFINE x == f[k] \o g[s[k + 1]]
             h == [i \in 0 .. k + 1 |-> IF i = k + 1 THEN x ELSE f[i]]
  <2>2. k + 1 \in 1 .. Len(s) /\ k \in 0 .. k BY <1>0, <1>2
  <2>3. f[k] \in Seq(R) /\ g[s[k + 1]] \in Seq(R) BY <1>0, <2>2
  <2>4. x \in Seq(R) BY <2>3, ConcatProperties
  <2> HIDE DEF x
  <2>5. \A i \in 0 .. k + 1 : i = k + 1 \/ i \in 0 .. k BY <1>2
  <2>6. h \in [0 .. k + 1 -> Seq(R)] BY <2>4, <2>5
  <2>7. ASSUME NEW i \in 0 .. k + 1
        PROVE  h[i] = IF i = 0 THEN <<>> ELSE h[i - 1] \o g[s[i]]
    <3>1. CASE i = k + 1
      <4>1. i # 0 /\ i - 1 = k /\ k \in 0 .. k + 1 /\ k # k + 1 BY <1>2, <3>1
      <4>2. h[i] = x /\ h[i - 1] = f[k] BY <3>1, <4>1
      <4>3. QED BY <3>1, <4>1, <4>2 DEF x
    <3>2. CASE i \in 0 .. k /\ i # k + 1
      <4>1. h[i] = f[i] BY <3>2
      <4>2. f[i] = IF i = 0 THEN <<>> ELSE f[i - 1] \o g[s[i]] BY <2>1, <3>2 DEF Gathers
      <4>3. i # 0 => i - 1 \in 0 .. k + 1 /\ i - 1 # k + 1 BY <1>2, <3>2
      <4>4. i # 0 => h[i - 1] = f[i - 1] BY <4>3
      <4>5. QED BY <4>1, <4>2, <4>4
    <3>3. QED BY <2>5, <3>1, <3>2
  <2> HIDE DEF h
  <2>8. Gathers(h, k + 1, s, g) BY <2>7 DEF Gathers
  <2>9. QED BY <2>6, <2>8
<1>3. ASSUME T # {} PROVE FALSE
  <2>1. PICK m \in T : \A k \in T : m <= k
    <3>1. T \subseteq Nat OBVIOUS
    <3> HIDE DEF T
    <3>2. QED BY <1>3, <3>1, Least
  <2>2. m \in Nat /\ m \in 0 .. Len(s) /\ ~P(m) BY <1>0
  <2> HIDE DEF P
  <2>3. m # 0 BY <1>1, <2>2
  <2>4. m - 1 \in Nat /\ (m - 1) + 1 = m /\ m - 1 \in 0 .. Len(s) /\ ~(m <= m - 1) BY <1>0, <2>2, <2>3
  <2>5. P(m - 1) BY <2>1, <2>4
  <2>6. P((m - 1) + 1) BY <1>2, <2>2, <2>4, <2>5
  <2>7. QED BY <2>2, <2>4, <2>6
<1> HIDE DEF P
<1>4. P(n) BY <1>3
<1>5. QED BY <1>4 DEF P

LEMMA GatherUnique ==
    ASSUME NEW n \in Nat, NEW s, NEW g, NEW f, NEW h, Gathers(f, n, s, g), Gathers(h, n, s, g)
    PROVE  f[n] = h[n]
<1> DEFINE T == {k \in 0 .. n : f[k] # h[k]}
<1>1. ASSUME T # {} PROVE FALSE
  <2>1. PICK m \in T : \A k \in T : m <= k
    <3>1. T \subseteq Nat OBVIOUS
    <3> HIDE DEF T
    <3>2. QED BY <1>1, <3>1, Least
  <2>2. m \in Nat /\ m \in 0 .. n /\ f[m] # h[m] OBVIOUS
  <2>3. m # 0 BY <2>2 DEF Gathers
  <2>4. m - 1 \in 0 .. n /\ ~(m <= m - 1) BY <2>2, <2>3
  <2>5. f[m - 1] = h[m - 1] BY <2>1, <2>4
  <2>6. QED BY <2>2, <2>3, <2>5 DEF Gathers
<1>2. n \in 0 .. n OBVIOUS
<1>3. QED BY <1>1, <1>2

LEMMA GatherIs ==
    ASSUME NEW S, NEW R, NEW g \in [S -> Seq(R)], NEW s \in Seq(S),
           NEW h, Gathers(h, Len(s), s, g)
    PROVE  Gather(s, g) = h[Len(s)]
<1> DEFINE n == Len(s)
           Body(f, i) == IF i = 0 THEN <<>> ELSE f[i - 1] \o g[s[i]]
           F == CHOOSE f : f = [i \in 0 .. n |-> Body(f, i)]
<1>1. n \in Nat /\ n \in 0 .. n BY LenProperties
<1>2. PICK c \in [0 .. n -> Seq(R)] : Gathers(c, n, s, g) BY <1>1, GatherExists
<1>3. c = [i \in 0 .. n |-> Body(c, i)]
  <2>1. \A i \in 0 .. n : c[i] = Body(c, i) BY <1>2 DEF Gathers
  <2>2. QED BY <1>2, <2>1
<1>4. \E f : f = [i \in 0 .. n |-> Body(f, i)] BY <1>3
<1>5. F = [i \in 0 .. n |-> Body(F, i)] BY Zenon, <1>4
<1>6. Gather(s, g) = F[n] BY DEF Gather
<1> HIDE DEF F
<1>7. \A i \in 0 .. n : F[i] = Body(F, i) BY <1>5
<1>8. Gathers(F, n, s, g) BY <1>7 DEF Gathers
<1>9. QED BY <1>1, <1>6, <1>8, GatherUnique

LEMMA GatherType ==
    ASSUME NEW S, NEW R, NEW g \in [S -> Seq(R)], NEW s \in Seq(S)
    PROVE  Gather(s, g) \in Seq(R)
<1>1. Len(s) \in Nat /\ Len(s) \in 0 .. Len(s) BY LenProperties
<1>2. PICK c \in [0 .. Len(s) -> Seq(R)] : Gathers(c, Len(s), s, g) BY <1>1, GatherExists
<1>3. Gather(s, g) = c[Len(s)] BY <1>2, GatherIs
<1>4. QED BY <1>1, <1>2, <1>3

LEMMA GatherNone ==
    ASSUME NEW S, NEW R, NEW g \in [S -> Seq(R)]
    PROVE  Gather(<<>>, g) = <<>>
<1>1. <<>> \in Seq(S) /\ Len(<<>>) = 0 BY EmptySeq
<1> DEFINE h == [i \in 0 .. 0 |-> <<>>]
<1>2. Gathers(h, 0, <<>>, g) BY DEF Gathers
<1>3. h[0] = <<>> OBVIOUS
<1> HIDE DEF h
<1>4. QED BY <1>1, <1>2, <1>3, GatherIs

LEMMA GatherOne ==
    ASSUME NEW S, NEW R, NEW g \in [S -> Seq(R)], NEW x \in S
    PROVE  Gather(<<x>>, g) = g[x]
<1>1. <<x>> \in Seq(S) /\ Len(<<x>>) = 1 /\ <<x>>[1] = x OBVIOUS
<1> DEFINE s == <<x>>
           h == [i \in 0 .. 1 |-> IF i = 0 THEN <<>> ELSE g[x]]
<1> HIDE DEF s
<1>2. g[x] \in Seq(R) /\ <<>> \o g[x] = g[x] BY ConcatEmptySeq
<1>3. \A i \in 0 .. 1 : i = 0 \/ i = 1 OBVIOUS
<1>4. h[0] = <<>> /\ h[1] = g[x] OBVIOUS
<1> HIDE DEF h
<1>5. Gathers(h, 1, s, g)
  <2>1. 1 - 1 = 0 /\ s[1] = x BY <1>1 DEF s
  <2>2. h[1] = h[1 - 1] \o g[s[1]] BY <1>2, <1>4, <2>1
  <2>3. QED BY <1>3, <1>4, <2>2 DEF Gathers
<1>6. s \in Seq(S) /\ Len(s) = 1 BY <1>1 DEF s
<1>7. Gather(s, g) = h[Len(s)] BY <1>5, <1>6, GatherIs
<1>8. QED BY <1>4, <1>6, <1>7 DEF s

LEMMA GatherJoin ==
    ASSUME NEW S, NEW R, NEW g \in [S -> Seq(R)], NEW a \in Seq(S), NEW b \in Seq(S)
    PROVE  Gather(a \o b, g) = Gather(a, g) \o Gather(b, g)
<1> DEFINE m == Len(a)
           n == Len(b)
           c == a \o b
<1>1. m \in Nat /\ n \in Nat /\ m \in 0 .. m /\ n \in 0 .. n
      /\ (\A i \in 1 .. m : a[i] \in S) /\ (\A i \in 1 .. n : b[i] \in S)
      BY LenProperties, ElementOfSeq
<1>2. /\ c \in Seq(S) /\ Len(c) = m + n
      /\ \A i \in 1 .. m + n : c[i] = IF i <= m THEN a[i] ELSE b[i - m]
      BY ConcatProperties
<1>3. PICK p \in [0 .. m -> Seq(R)] : Gathers(p, m, a, g) BY <1>1, GatherExists
<1>4. PICK q \in [0 .. n -> Seq(R)] : Gathers(q, n, b, g) BY <1>1, GatherExists
<1>5. Gather(a, g) = p[m] /\ Gather(b, g) = q[n] BY <1>3, <1>4, GatherIs
<1> DEFINE h == [i \in 0 .. m + n |-> IF i <= m THEN p[i] ELSE p[m] \o q[i - m]]
<1> HIDE DEF m, n, c
<1>6. p[m] \in Seq(R) BY <1>1
<1>7. /\ \A i \in 0 .. m : h[i] = p[i]
      /\ \A i \in 1 .. n : h[m + i] = p[m] \o q[i]
  <2>1. ASSUME NEW i \in 0 .. m PROVE h[i] = p[i]
    <3>1. i \in 0 .. m + n /\ i <= m BY <1>1
    <3>2. QED BY <3>1
  <2>2. ASSUME NEW i \in 1 .. n PROVE h[m + i] = p[m] \o q[i]
    <3>1. m + i \in 0 .. m + n /\ ~(m + i <= m) /\ (m + i) - m = i BY <1>1
    <3>2. QED BY <3>1
  <2>3. QED BY <2>1, <2>2
<1> HIDE DEF h
<1>8. ASSUME NEW i \in 0 .. m
      PROVE  h[i] = IF i = 0 THEN <<>> ELSE h[i - 1] \o g[c[i]]
  <2>1. p[i] = IF i = 0 THEN <<>> ELSE p[i - 1] \o g[a[i]] BY <1>3 DEF Gathers
  <2>2. i # 0 => i - 1 \in 0 .. m /\ i \in 1 .. m + n /\ i <= m BY <1>1
  <2>3. QED BY <1>2, <1>7, <2>1, <2>2
<1>9. ASSUME NEW k \in 1 .. n PROVE h[m + k] = h[(m + k) - 1] \o g[c[m + k]]
  <2>1. m + k \in 1 .. m + n /\ ~(m + k <= m) /\ (m + k) - m = k /\ k \in 0 .. n /\ k # 0
        /\ k - 1 \in 0 .. n /\ (m + k) - 1 = m + (k - 1)
        BY <1>1
  <2>2. c[m + k] = b[k] BY <1>2, <2>1
  <2>3. q[k] = q[k - 1] \o g[b[k]] BY <1>4, <2>1 DEF Gathers
  <2>4. q[k - 1] \in Seq(R) /\ g[b[k]] \in Seq(R) BY <1>1, <2>1
  <2>5. h[m + (k - 1)] = p[m] \o q[k - 1]
    <3>1. CASE k = 1
      <4>1. k - 1 = 0 /\ m + (k - 1) = m /\ 0 \in 0 .. n BY <1>1, <3>1
      <4>2. q[0] = <<>> BY <1>4, <4>1 DEF Gathers
      <4>3. p[m] \o <<>> = p[m] BY <1>6, ConcatEmptySeq
      <4>4. h[m] = p[m] BY <1>1, <1>7
      <4>5. QED BY <4>1, <4>2, <4>3, <4>4
    <3>2. CASE k # 1
      <4>1. k - 1 \in 1 .. n BY <1>1, <3>2
      <4>2. QED BY <1>7, <4>1
    <3>3. QED BY <3>1, <3>2
  <2>6. (p[m] \o q[k - 1]) \o g[b[k]] = p[m] \o (q[k - 1] \o g[b[k]])
    <3>1. \A u, v, w \in Seq(R) : (u \o v) \o w = u \o (v \o w) BY ConcatAssociative
    <3>2. QED BY <1>6, <2>4, <3>1
  <2>7. h[m + k] = p[m] \o q[k] BY <1>7
  <2>8. QED BY <2>1, <2>2, <2>3, <2>5, <2>6, <2>7
<1>10. Gathers(h, m + n, c, g)
  <2>1. ASSUME NEW i \in 0 .. m + n
        PROVE  h[i] = IF i = 0 THEN <<>> ELSE h[i - 1] \o g[c[i]]
    <3>1. CASE i <= m
      <4>1. i \in 0 .. m BY <1>1, <3>1
      <4>2. QED BY <1>8, <4>1
    <3>2. CASE ~(i <= m)
      <4>1. i - m \in 1 .. n /\ m + (i - m) = i /\ i # 0 BY <1>1, <3>2
      <4>2. h[m + (i - m)] = h[(m + (i - m)) - 1] \o g[c[m + (i - m)]] BY <1>9, <4>1
      <4>3. QED BY <4>1, <4>2
    <3>3. QED BY <3>1, <3>2
  <2>2. QED BY <2>1 DEF Gathers
<1>11. h[m + n] = p[m] \o q[n]
  <2>1. CASE n = 0
    <3>1. m + n = m /\ 0 \in 0 .. n BY <1>1, <2>1
    <3>2. q[n] = <<>> BY <1>4, <2>1, <3>1 DEF Gathers
    <3>3. p[m] \o <<>> = p[m] BY <1>6, ConcatEmptySeq
    <3>4. h[m] = p[m] BY <1>1, <1>7
    <3>5. QED BY <3>1, <3>2, <3>3, <3>4
  <2>2. CASE n # 0
    <3>1. n \in 1 .. n BY <1>1, <2>2
    <3>2. QED BY <1>7, <3>1
  <2>3. QED BY <2>1, <2>2
<1>12. Gather(c, g) = h[Len(c)]
  <2>1. c \in Seq(S) /\ Gathers(h, Len(c), c, g) BY <1>2, <1>10
  <2>2. QED BY <2>1, GatherIs
<1>13. QED BY <1>2, <1>5, <1>11, <1>12 DEF c

-----------------------------------------------------------------------------
(* Counting in a sequence.                                                 *)

LEMMA CountJoin ==
    ASSUME NEW S, NEW a \in Seq(S), NEW b \in Seq(S), NEW x
    PROVE  /\ CountOf(a, x) \in Nat /\ CountOf(b, x) \in Nat
           /\ CountOf(a \o b, x) = CountOf(a, x) + CountOf(b, x)
<1> DEFINE m == Len(a)
           n == Len(b)
           c == a \o b
           A == {i \in 1 .. m : a[i] = x}
           B == {i \in 1 .. n : b[i] = x}
           C == {i \in 1 .. m + n : c[i] = x}
           D == {i \in m + 1 .. m + n : b[i - m] = x}
<1>1. m \in Nat /\ n \in Nat /\ DOMAIN a = 1 .. m /\ DOMAIN b = 1 .. n BY LenProperties
<1>2. /\ c \in Seq(S) /\ Len(c) = m + n
      /\ \A i \in 1 .. m + n : c[i] = IF i <= m THEN a[i] ELSE b[i - m]
      BY ConcatProperties
<1>3. DOMAIN c = 1 .. m + n BY <1>2, LenProperties
<1>4. CountOf(a, x) = Cardinality(A) /\ CountOf(b, x) = Cardinality(B) /\ CountOf(c, x) = Cardinality(C)
      BY <1>1, <1>3 DEF CountOf
<1> HIDE DEF m, n, c
<1>5. IsFiniteSet(A) /\ IsFiniteSet(B)
  <2>1. IsFiniteSet(1 .. m) /\ IsFiniteSet(1 .. n) BY <1>1, FS_Interval
  <2>2. A \in SUBSET (1 .. m) /\ B \in SUBSET (1 .. n) OBVIOUS
  <2>3. QED BY <2>1, <2>2, FS_Subset
<1>6. IsFiniteSet(D) /\ Cardinality(D) = Cardinality(B)
  <2> DEFINE f == [i \in B |-> i + m]
  <2>1. f \in [B -> D]
    <3>1. \A i \in B : i + m \in m + 1 .. m + n /\ (i + m) - m = i BY <1>1
    <3>2. \A i \in B : i + m \in D BY <3>1
    <3> HIDE DEF B, D
    <3>3. QED BY <3>2
  <2>2. \A i, j \in B : f[i] = f[j] => i = j BY <1>1
  <2>3. \A k \in D : \E i \in B : f[i] = k
    <3>1. ASSUME NEW k \in D PROVE k - m \in B /\ f[k - m] = k BY <1>1
    <3> HIDE DEF B, D, f
    <3>2. QED BY <3>1
  <2> HIDE DEF B, D, f
  <2>4. f \in Bijection(B, D) BY <2>1, <2>2, <2>3 DEF Bijection, Injection, Surjection, IsInjective
  <2>5. ExistsBijection(B, D) BY <2>4 DEF ExistsBijection
  <2>6. QED BY <1>5, <2>5, FS_Bijection
<1>7. C = A \union D
  <2>1. ASSUME NEW i \in 1 .. m + n PROVE i \in C <=> i \in A \/ i \in D
    <3>1. CASE i <= m
      <4>1. i \in 1 .. m /\ i \notin m + 1 .. m + n /\ c[i] = a[i] BY <1>1, <1>2, <3>1
      <4>2. QED BY <4>1
    <3>2. CASE ~(i <= m)
      <4>1. i \notin 1 .. m /\ i \in m + 1 .. m + n /\ c[i] = b[i - m] BY <1>1, <1>2, <3>2
      <4>2. QED BY <4>1
    <3>3. QED BY <3>1, <3>2
  <2>2. C \subseteq 1 .. m + n /\ A \subseteq 1 .. m + n /\ D \subseteq 1 .. m + n BY <1>1
  <2> HIDE DEF A, C, D
  <2>3. QED BY <2>1, <2>2
<1>8. A \cap D = {} BY <1>1
<1> HIDE DEF A, B, C, D
<1>9. Cardinality(A) \in Nat /\ Cardinality(B) \in Nat BY <1>5, FS_CardinalityType
<1>10. Cardinality(A \union D) = Cardinality(A) + Cardinality(D) - Cardinality({})
       BY <1>5, <1>6, <1>8, FS_Union
<1>11. Cardinality({}) = 0 BY FS_EmptySet
<1>12. QED BY <1>4, <1>6, <1>7, <1>9, <1>10, <1>11 DEF c

LEMMA CountOne == ASSUME NEW x, NEW y PROVE CountOf(<<y>>, x) = IF y = x THEN 1 ELSE 0
<1>1. DOMAIN <<y>> = {1} /\ <<y>>[1] = y OBVIOUS
<1>2. CASE y = x
  <2>1. {i \in DOMAIN <<y>> : <<y>>[i] = x} = {1} BY <1>1, <1>2
  <2>2. QED BY <1>2, <2>1, FS_Singleton DEF CountOf
<1>3. CASE y # x
  <2>1. {i \in DOMAIN <<y>> : <<y>>[i] = x} = {} BY <1>1, <1>3
  <2>2. QED BY <1>3, <2>1, FS_EmptySet DEF CountOf
<1>4. QED BY <1>2, <1>3

-----------------------------------------------------------------------------
(* Messages in bytes, packets in messages and in ring elements.            *)

LEMMA PartTypes ==
    /\ EndOf \in [Byte -> Seq(Msg)] /\ PatchIn \in [Msg -> Seq(Nat)]
    /\ PacketsOf \in [Nat \X Nat -> Seq(Nat)]
<1>1. EndOf \in [Byte -> Seq(Msg)]
  <2>1. \A b \in Byte : b[1] \in Msg BY DEF Byte
  <2>2. <<>> \in Seq(Msg) /\ \A b \in Byte : <<b[1]>> \in Seq(Msg) BY <2>1
  <2> DEFINE T == Seq(Msg)
  <2>3. <<>> \in T /\ \A b \in Byte : <<b[1]>> \in T BY <2>2
  <2> HIDE DEF T
  <2>4. EndOf \in [Byte -> T] BY <2>3 DEF EndOf
  <2>5. QED BY <2>4 DEF T
<1>2. PatchIn \in [Msg -> Seq(Nat)]
  <2>1. \A m \in Msg : m.seq \in Nat BY DEF Msg
  <2> DEFINE T == Seq(Nat)
  <2>2. <<>> \in T /\ \A m \in Msg : <<m.seq>> \in T BY <2>1
  <2> HIDE DEF T
  <2>3. PatchIn \in [Msg -> T] BY <2>2 DEF PatchIn
  <2>4. QED BY <2>3 DEF T
<1>3. PacketsOf \in [Nat \X Nat -> Seq(Nat)]
  <2>1. ASSUME NEW a \in Nat, NEW z \in Nat PROVE Interval(a, z) \in Seq(Nat)
    <3> DEFINE k == IF z > a THEN z - a ELSE 0
    <3>1. k \in Nat OBVIOUS
    <3>2. \A i \in 1 .. k : a + i - 1 \in Nat BY <3>1
    <3>3. Interval(a, z) = [i \in 1 .. k |-> a + i - 1] BY DEF Interval
    <3> HIDE DEF k
    <3>4. Interval(a, z) \in [1 .. k -> Nat] BY <3>2, <3>3
    <3>5. QED BY <3>1, <3>4, AsSeq
  <2> DEFINE T == Seq(Nat)
  <2>2. \A e \in Nat \X Nat : Interval(e[1], e[2]) \in T BY <2>1
  <2> HIDE DEF T
  <2>3. PacketsOf \in [Nat \X Nat -> T] BY <2>2 DEF PacketsOf
  <2>4. QED BY <2>3 DEF T
<1>4. QED BY <1>1, <1>2, <1>3

LEMMA MessagesJoin ==
    ASSUME NEW a \in Seq(Byte), NEW b \in Seq(Byte)
    PROVE  /\ Messages(a) \in Seq(Msg) /\ Messages(b) \in Seq(Msg)
           /\ Messages(a \o b) = Messages(a) \o Messages(b)
<1> HIDE DEF Byte, Msg
<1>1. EndOf \in [Byte -> Seq(Msg)] BY PartTypes
<1>2. QED BY <1>1, GatherType, GatherJoin DEF Messages

LEMMA PatchesJoin ==
    ASSUME NEW a \in Seq(Msg), NEW b \in Seq(Msg)
    PROVE  /\ Patches(a) \in Seq(Nat) /\ Patches(b) \in Seq(Nat)
           /\ Patches(a \o b) = Patches(a) \o Patches(b)
<1> HIDE DEF Msg
<1>1. PatchIn \in [Msg -> Seq(Nat)] BY PartTypes
<1>2. QED BY <1>1, GatherType, GatherJoin DEF Patches

LEMMA PacketsJoin ==
    ASSUME NEW a \in Seq(Nat \X Nat), NEW b \in Seq(Nat \X Nat)
    PROVE  /\ Packets(a) \in Seq(Nat) /\ Packets(b) \in Seq(Nat)
           /\ Packets(a \o b) = Packets(a) \o Packets(b)
<1>1. PacketsOf \in [Nat \X Nat -> Seq(Nat)] BY PartTypes
<1> DEFINE E == Nat \X Nat
<1>2. a \in Seq(E) /\ b \in Seq(E) /\ PacketsOf \in [E -> Seq(Nat)] BY <1>1
<1> HIDE DEF E
<1>3. QED BY <1>2, GatherType, GatherJoin DEF Packets

LEMMA PatchesOne ==
    ASSUME NEW m \in Msg
    PROVE  Patches(<<m>>) = IF m.type = "PATCH_DATA" THEN <<m.seq>> ELSE <<>>
<1> HIDE DEF Msg
<1>1. PatchIn \in [Msg -> Seq(Nat)] BY PartTypes
<1>2. Patches(<<m>>) = PatchIn[m] BY <1>1, GatherOne DEF Patches
<1>3. QED BY <1>2 DEF PatchIn

LEMMA PacketsOne ==
    ASSUME NEW a \in Nat, NEW z \in Nat
    PROVE  Packets(<<<<a, z>>>>) = Interval(a, z)
<1> DEFINE E == Nat \X Nat
           e == <<a, z>>
<1>1. e \in E /\ PacketsOf \in [E -> Seq(Nat)] BY PartTypes
<1>2. PacketsOf[e] = Interval(a, z) BY DEF PacketsOf
<1> HIDE DEF E, e
<1>3. Packets(<<e>>) = PacketsOf[e] BY <1>1, GatherOne DEF Packets
<1>4. QED BY <1>2, <1>3 DEF e

(* The bytes of a message from the one after a to z hold its end or none.  *)
LEMMA MessagesOfBytes ==
    ASSUME NEW m \in Msg, NEW a \in Nat, NEW z \in Nat, a <= z, z <= MsgLen(m)
    PROVE  Messages(Bytes(m, a + 1, z)) = IF a < z /\ z = MsgLen(m) THEN <<m>> ELSE <<>>
<1> DEFINE b == Bytes(m, a + 1, z)
           n == z - a
           h == [i \in 0 .. n |-> IF i # 0 /\ a + i = MsgLen(m) THEN <<m>> ELSE <<>>]
<1>1. b \in Seq(Byte) /\ Len(b) = n /\ \A j \in 1 .. n : b[j] = <<m, a + j>> BY BytesAre
<1>2. n \in Nat /\ MsgLen(m) \in Nat BY Lengths1
<1> HIDE DEF b, Byte, Msg
<1>3. \A j \in 1 .. n : EndOf[b[j]] = IF a + j = MsgLen(m) THEN <<m>> ELSE <<>>
  <2>1. ASSUME NEW j \in 1 .. n PROVE EndOf[b[j]] = IF a + j = MsgLen(m) THEN <<m>> ELSE <<>>
    <3>1. b[j] \in Byte /\ b[j] = <<m, a + j>> BY <1>1, ElementOfSeq
    <3>2. EndOf[b[j]] = IF b[j][2] = MsgLen(b[j][1]) THEN <<b[j][1]>> ELSE <<>> BY <3>1 DEF EndOf
    <3>3. b[j][1] = m /\ b[j][2] = a + j BY <3>1
    <3>4. QED BY <3>2, <3>3
  <2>2. QED BY <2>1
<1>4. ASSUME NEW i \in 0 .. n
      PROVE  h[i] = IF i = 0 THEN <<>> ELSE h[i - 1] \o EndOf[b[i]]
  <2>1. CASE i = 0 BY <2>1
  <2>2. CASE i # 0
    <3>1. i \in 1 .. n /\ i - 1 \in 0 .. n /\ a + (i - 1) # MsgLen(m) BY <1>2, <2>2
    <3>2. h[i - 1] = <<>> BY <3>1
    <3>3. <<>> \o <<m>> = <<m>> /\ <<>> \o <<>> = <<>> OBVIOUS
    <3>4. h[i] = IF a + i = MsgLen(m) THEN <<m>> ELSE <<>> BY <2>2
    <3> HIDE DEF h
    <3>5. EndOf[b[i]] = IF a + i = MsgLen(m) THEN <<m>> ELSE <<>> BY <1>3, <3>1
    <3>6. QED BY <2>2, <3>2, <3>3, <3>4, <3>5
  <2>3. QED BY <2>1, <2>2
<1>5. h[n] = IF a < z /\ z = MsgLen(m) THEN <<m>> ELSE <<>>
  <2>1. n \in 0 .. n /\ a + n = z /\ (n # 0 <=> a < z) BY <1>2
  <2>2. QED BY <2>1
<1> HIDE DEF h, n
<1>6. Gathers(h, Len(b), b, EndOf) BY <1>1, <1>4 DEF Gathers
<1>7. EndOf \in [Byte -> Seq(Msg)] BY PartTypes
<1>8. Messages(b) = h[Len(b)] BY <1>1, <1>6, <1>7, GatherIs DEF Messages
<1>9. QED BY <1>1, <1>5, <1>8 DEF b

-----------------------------------------------------------------------------
(* Sequences by their first and their last element.                        *)

LEMMA FirstAndRest ==
    ASSUME NEW S, NEW q \in Seq(S), q # <<>>, NEW x \in S
    PROVE  /\ q[1] \in S /\ Tail(q) \in Seq(S) /\ Len(q) \in Nat \ {0}
           /\ q = <<q[1]>> \o Tail(q)
           /\ [q EXCEPT ![1] = x] = <<x>> \o Tail(q)
<1> DEFINE n == Len(q)
           t == Tail(q)
<1>1. /\ n \in Nat \ {0} /\ q[1] \in S /\ t \in Seq(S) /\ Len(t) = n - 1
      /\ \A i \in 1 .. n - 1 : t[i] = q[i + 1]
  <2>1. n \in Nat \ {0} BY EmptySeq, LenProperties
  <2>2. 1 \in 1 .. n BY <2>1
  <2>3. QED BY <2>1, <2>2, ElementOfSeq, HeadTailProperties
<1>2. ASSUME NEW y \in S
      PROVE  LET u == <<y>> \o t
             IN  u \in Seq(S) /\ Len(u) = n /\ u[1] = y /\ \A i \in 2 .. n : u[i] = q[i]
  <2> DEFINE o == <<y>>
             u == o \o t
  <2>1. o \in Seq(S) /\ Len(o) = 1 /\ o[1] = y OBVIOUS
  <2> HIDE DEF o, t, n
  <2>2. /\ u \in Seq(S) /\ Len(u) = n
        /\ \A i \in 1 .. n : u[i] = IF i <= 1 THEN o[i] ELSE t[i - 1]
    <3>1. /\ u \in Seq(S) /\ Len(u) = Len(o) + Len(t)
          /\ \A i \in 1 .. Len(o) + Len(t) : u[i] = IF i <= Len(o) THEN o[i] ELSE t[i - Len(o)]
          BY <1>1, <2>1, ConcatProperties
    <3>2. Len(o) + Len(t) = n BY <1>1, <2>1
    <3>3. QED BY <2>1, <3>1, <3>2
  <2>3. u[1] = y BY <1>1, <2>1, <2>2
  <2>4. ASSUME NEW i \in 2 .. n PROVE u[i] = q[i]
    <3>1. i \in 1 .. n /\ ~(i <= 1) /\ i - 1 \in 1 .. n - 1 /\ (i - 1) + 1 = i BY <1>1
    <3>2. u[i] = t[i - 1] BY <2>2, <3>1
    <3>3. QED BY <1>1, <3>1, <3>2
  <2>5. QED BY <2>2, <2>3, <2>4 DEF o
<1>3. q = <<q[1]>> \o t
  <2> DEFINE u == <<q[1]>> \o t
  <2>1. u \in Seq(S) /\ Len(u) = n /\ u[1] = q[1] /\ \A i \in 2 .. n : u[i] = q[i]
        BY <1>1, <1>2
  <2> HIDE DEF u
  <2>2. \A i \in 1 .. n : i = 1 \/ i \in 2 .. n BY <1>1
  <2>3. \A i \in 1 .. n : q[i] = u[i] BY <2>1, <2>2
  <2>4. q = u BY <2>1, <2>3, SeqEqual
  <2>5. QED BY <2>4 DEF u
<1>4. [q EXCEPT ![1] = x] = <<x>> \o t
  <2> DEFINE u == <<x>> \o t
             v == [q EXCEPT ![1] = x]
  <2>1. u \in Seq(S) /\ Len(u) = n /\ u[1] = x /\ \A i \in 2 .. n : u[i] = q[i]
        BY <1>2
  <2>2. v \in Seq(S) /\ Len(v) = n /\ \A i \in 1 .. n : v[i] = IF i = 1 THEN x ELSE q[i]
    <3>1. 1 \in 1 .. n BY <1>1
    <3> HIDE DEF v
    <3>2. QED BY <3>1, ExceptSeq DEF v
  <2> HIDE DEF u, v
  <2>3. \A i \in 1 .. n : i = 1 \/ (i # 1 /\ i \in 2 .. n) BY <1>1
  <2>4. \A i \in 1 .. n : v[i] = u[i] BY <2>1, <2>2, <2>3
  <2>5. v = u BY <2>1, <2>2, <2>4, SeqEqual
  <2>6. QED BY <2>5 DEF u, v
<1>5. QED BY <1>1, <1>3, <1>4

LEMMA NumbersJoined ==
    ASSUME NEW u \in Seq(Nat), NEW v \in Seq(Nat), NEW w \in Seq(Nat)
    PROVE  (u \o v) \o w = u \o (v \o w)
<1> DEFINE T == Nat
<1>1. u \in Seq(T) /\ v \in Seq(T) /\ w \in Seq(T) OBVIOUS
<1> HIDE DEF T
<1>2. QED BY <1>1, ConcatAssociative

LEMMA MessagesJoined ==
    ASSUME NEW u \in Seq(Msg), NEW v \in Seq(Msg), NEW w \in Seq(Msg)
    PROVE  (u \o v) \o w = u \o (v \o w)
<1> HIDE DEF Msg
<1>1. QED BY ConcatAssociative

-----------------------------------------------------------------------------
(* The patch ring and the packets its elements stand for.                  *)

Ordered(ring) == \A i \in 1 .. Len(ring) : ring[i][1] <= ring[i][2]
RingsOrdered == \A s \in Sock : Ordered(ringPatch[s])

LEMMA IntervalFirst ==
    ASSUME NEW a \in Nat, NEW z \in Nat
    PROVE  /\ Interval(a, z) \in Seq(Nat)
           /\ a = z => Interval(a, z) = <<>>
           /\ a < z => Interval(a, z) = <<a>> \o Interval(a + 1, z)
<1> DEFINE N(b) == IF z > b THEN z - b ELSE 0
<1>1. ASSUME NEW b \in Nat
      PROVE  /\ N(b) \in Nat /\ Interval(b, z) \in Seq(Nat) /\ Len(Interval(b, z)) = N(b)
             /\ \A i \in 1 .. N(b) : Interval(b, z)[i] = b + i - 1
  <2>1. N(b) \in Nat OBVIOUS
  <2>2. Interval(b, z) = [i \in 1 .. N(b) |-> b + i - 1] BY DEF Interval
  <2> HIDE DEF N
  <2>3. \A i \in 1 .. N(b) : b + i - 1 \in Nat BY <2>1
  <2>4. Interval(b, z) \in [1 .. N(b) -> Nat] BY <2>2, <2>3
  <2>5. QED BY <2>1, <2>2, <2>4, AsSeq
<1>2. CASE a = z
  <2>1. N(a) = 0 BY <1>2
  <2>2. QED BY <1>1, <1>2, <2>1, EmptySeq
<1>3. CASE a < z
  <2> DEFINE u == Interval(a, z)
             v == Interval(a + 1, z)
             o == <<a>>
             n == z - a
  <2>1. N(a) = n /\ N(a + 1) = n - 1 /\ n \in Nat \ {0} BY <1>3
  <2>2. u \in Seq(Nat) /\ Len(u) = n /\ \A i \in 1 .. n : u[i] = a + i - 1 BY <1>1, <2>1
  <2>3. v \in Seq(Nat) /\ Len(v) = n - 1 /\ \A i \in 1 .. n - 1 : v[i] = (a + 1) + i - 1
    <3>1. a + 1 \in Nat OBVIOUS
    <3> HIDE DEF N
    <3>2. /\ v \in Seq(Nat) /\ Len(v) = N(a + 1)
          /\ \A i \in 1 .. N(a + 1) : v[i] = (a + 1) + i - 1
          BY <1>1, <3>1
    <3>3. QED BY <2>1, <3>2
  <2>4. o \in Seq(Nat) /\ Len(o) = 1 /\ o[1] = a OBVIOUS
  <2> HIDE DEF u, v, o, N
  <2>5. /\ o \o v \in Seq(Nat) /\ Len(o \o v) = Len(o) + Len(v)
        /\ \A i \in 1 .. Len(o) + Len(v) : (o \o v)[i] = IF i <= Len(o) THEN o[i] ELSE v[i - Len(o)]
        BY <2>3, <2>4, ConcatProperties
  <2>6. Len(o) + Len(v) = n BY <2>1, <2>3, <2>4
  <2>7. ASSUME NEW i \in 1 .. n PROVE u[i] = (o \o v)[i]
    <3>1. CASE i = 1
      <4>1. (o \o v)[i] = a BY <2>4, <2>5, <2>6, <3>1
      <4>2. QED BY <2>2, <3>1, <4>1
    <3>2. CASE i # 1
      <4>1. ~(i <= Len(o)) /\ i - 1 \in 1 .. n - 1 BY <2>1, <2>4, <3>2
      <4>2. (o \o v)[i] = v[i - 1] BY <2>4, <2>5, <2>6, <4>1
      <4>3. v[i - 1] = (a + 1) + (i - 1) - 1 BY <2>3, <4>1
      <4>4. (a + 1) + (i - 1) - 1 = a + i - 1 BY <2>1
      <4>5. QED BY <2>2, <4>2, <4>3, <4>4
    <3>3. QED BY <3>1, <3>2
  <2>8. u = o \o v BY <2>2, <2>5, <2>6, <2>7, SeqEqual
  <2>9. QED BY <1>3, <2>2, <2>8 DEF u, v, o
<1>4. CASE z < a BY <1>1, <1>4
<1>5. QED BY <1>2, <1>3, <1>4

(* The oldest element of a ring after one of its packets has been sent.    *)
LEMMA RingHead ==
    ASSUME NEW r \in Seq(Nat \X Nat), r # <<>>, Ordered(r)
    PROVE  /\ r[1][1] = r[1][2] => Ordered(Tail(r)) /\ Packets(Tail(r)) = Packets(r)
           /\ r[1][1] # r[1][2] => /\ Ordered(Advanced(r))
                                   /\ Packets(r) = <<r[1][1]>> \o Packets(Advanced(r))
<1> DEFINE E == Nat \X Nat
           a == r[1][1]
           z == r[1][2]
           t == Tail(r)
           h == <<r[1]>>
<1>1. /\ r[1] \in E /\ t \in Seq(E) /\ Len(r) \in Nat \ {0} /\ r = h \o t
      /\ Len(t) = Len(r) - 1 /\ \A i \in 1 .. Len(t) : t[i] = r[i + 1]
      /\ \A x \in E : [r EXCEPT ![1] = x] = <<x>> \o t
  <2> HIDE DEF E
  <2>0. r \in Seq(E) BY DEF E
  <2>1. /\ r[1] \in E /\ t \in Seq(E) /\ Len(r) \in Nat \ {0} /\ r = h \o t
        /\ \A x \in E : [r EXCEPT ![1] = x] = <<x>> \o t
    <3>1. r[1] \in E BY <2>0, EmptySeq, LenProperties, ElementOfSeq
    <3>2. QED BY <2>0, <3>1, FirstAndRest
  <2>2. Len(t) = Len(r) - 1 /\ \A i \in 1 .. Len(t) : t[i] = r[i + 1]
        BY <2>0, HeadTailProperties
  <2>3. QED BY <2>1, <2>2
<1>2. a \in Nat /\ z \in Nat /\ a <= z
  <2>1. a \in Nat /\ z \in Nat BY <1>1
  <2>2. 1 \in 1 .. Len(r) BY <1>1
  <2>3. QED BY <2>1, <2>2 DEF Ordered
<1>3. r[1] = <<a, z>> BY <1>1
<1>4. h \in Seq(Nat \X Nat) /\ Packets(h) = Interval(a, z)
  <2>1. h \in Seq(Nat \X Nat) BY <1>1
  <2>2. Packets(<<<<a, z>>>>) = Interval(a, z)
    <3> HIDE DEF a, z
    <3>1. QED BY <1>2, PacketsOne
  <2>3. QED BY <1>3, <2>1, <2>2
<1>5. Ordered(t)
  <2>1. \A i \in 1 .. Len(t) : i + 1 \in 1 .. Len(r) BY <1>1
  <2>2. QED BY <1>1, <2>1 DEF Ordered
<1> HIDE DEF a, z, t, h
<1>6. t \in Seq(Nat \X Nat) /\ Packets(t) \in Seq(Nat) /\ Packets(r) = Packets(h) \o Packets(t)
  <2>1. t \in Seq(Nat \X Nat) BY <1>1
  <2>2. QED BY <1>1, <1>4, <2>1, PacketsJoin
<1>7. CASE a = z
  <2>1. Packets(h) = <<>> BY <1>2, <1>4, <1>7, IntervalFirst
  <2>2. <<>> \o Packets(t) = Packets(t) BY <1>6, ConcatEmptySeq
  <2>3. QED BY <1>5, <1>6, <1>7, <2>1, <2>2 DEF a, z, t
<1>8. CASE a # z
  <2> DEFINE o == <<a>>
             R == Interval(a + 1, z)
  <2>1. a < z /\ a + 1 \in Nat BY <1>2, <1>8
  <2>2. Interval(a, z) = o \o R /\ R \in Seq(Nat) BY <1>2, <2>1, IntervalFirst
  <2>3. o \in Seq(Nat) BY <1>2
  <2> HIDE DEF o, R
  <2>4. Packets(r) = o \o (R \o Packets(t))
    <3>1. Packets(r) = (o \o R) \o Packets(t) BY <1>4, <1>6, <2>2
    <3> DEFINE P == Packets(t)
    <3>2. P \in Seq(Nat) BY <1>6
    <3> HIDE DEF P
    <3>3. o \in Seq(Nat) /\ R \in Seq(Nat) BY <2>2, <2>3
    <3>4. (o \o R) \o P = o \o (R \o P) BY <3>2, <3>3, NumbersJoined
    <3>5. QED BY <3>1, <3>4 DEF P
  <2>5. CASE a + 1 = z
    <3>1. R = <<>> BY <2>1, <2>5, IntervalFirst DEF R
    <3>2. R \o Packets(t) = Packets(t) BY <1>6, <3>1, ConcatEmptySeq
    <3>3. Advanced(r) = t BY <2>5 DEF Advanced, a, z, t
    <3>4. QED BY <1>5, <1>8, <2>4, <3>2, <3>3 DEF a, z, o
  <2>6. CASE a + 1 # z
    <3> DEFINE e == <<a + 1, z>>
               g == <<e>>
    <3>1. e \in E /\ e[1] = a + 1 /\ e[2] = z BY <1>2
    <3>2. Advanced(r) = [r EXCEPT ![1] = e] BY <2>6 DEF Advanced, a, z
    <3>3. Advanced(r) = g \o t BY <1>1, <3>1, <3>2
    <3>4. g \in Seq(Nat \X Nat) BY <3>1
    <3>5. Packets(g) = R BY <1>2, <2>1, PacketsOne DEF R
    <3> HIDE DEF g
    <3>6. Packets(Advanced(r)) = R \o Packets(t) BY <1>6, <3>3, <3>4, <3>5, PacketsJoin
    <3>7. Ordered(Advanced(r))
      <4> DEFINE v == [r EXCEPT ![1] = e]
      <4>1. Len(v) = Len(r) /\ \A i \in 1 .. Len(r) : v[i] = IF i = 1 THEN e ELSE r[i]
        <5>1. r \in Seq(E) /\ 1 \in 1 .. Len(r) BY <1>1
        <5> HIDE DEF E, e
        <5>2. QED BY <3>1, <5>1, ExceptSeq
      <4>2. a + 1 <= z BY <1>2, <2>1
      <4> HIDE DEF v, e
      <4>3. \A i \in 1 .. Len(r) : v[i][1] <= v[i][2] BY <3>1, <4>1, <4>2 DEF Ordered
      <4>4. QED BY <3>2, <4>1, <4>3 DEF Ordered, v
    <3>8. QED BY <1>8, <2>4, <3>6, <3>7 DEF a, z, o
  <2>7. QED BY <2>5, <2>6
<1>9. QED BY <1>7, <1>8 DEF a, z, t

-----------------------------------------------------------------------------
(* What is owed to a receiver for the messages in pending, the ring        *)
(* elements and the n notices of its own that are left in the command ring.*)

Owes(pending, ring, n) ==
    [owed |-> Patches(pending) \o Packets(ring),
     notices |-> [k \in Notice |-> CountOf(pending, [type |-> k, seq |-> 0])
                                   + IF k = "FAST_DONE" THEN n ELSE 0]]

LEMMA PatchesMore ==
    ASSUME NEW p \in Seq(Msg), NEW m \in Msg
    PROVE  /\ m.seq \in Nat /\ Patches(p) \in Seq(Nat)
           /\ m.type = "PATCH_DATA" => /\ Patches(p \o <<m>>) = Patches(p) \o <<m.seq>>
                                       /\ Patches(<<m>> \o p) = <<m.seq>> \o Patches(p)
           /\ m.type # "PATCH_DATA" => /\ Patches(p \o <<m>>) = Patches(p)
                                       /\ Patches(<<m>> \o p) = Patches(p)
<1> DEFINE o == <<m>>
<1>1. o \in Seq(Msg) /\ m.seq \in Nat BY DEF Msg
<1>2. Patches(o) = IF m.type = "PATCH_DATA" THEN <<m.seq>> ELSE <<>> BY PatchesOne
<1> HIDE DEF o, Msg
<1>3. /\ Patches(p \o o) = Patches(p) \o Patches(o) /\ Patches(o \o p) = Patches(o) \o Patches(p)
      /\ Patches(p) \in Seq(Nat)
      BY <1>1, PatchesJoin
<1>4. Patches(p) \o <<>> = Patches(p) /\ <<>> \o Patches(p) = Patches(p) BY <1>3, ConcatEmptySeq
<1>5. QED BY <1>1, <1>2, <1>3, <1>4 DEF o

LEMMA CountMore ==
    ASSUME NEW p \in Seq(Msg), NEW m \in Msg, NEW x
    PROVE  /\ CountOf(p, x) \in Nat
           /\ CountOf(p \o <<m>>, x) = CountOf(p, x) + (IF m = x THEN 1 ELSE 0)
           /\ CountOf(<<m>> \o p, x) = CountOf(p, x) + (IF m = x THEN 1 ELSE 0)
<1> DEFINE o == <<m>>
<1>1. o \in Seq(Msg) OBVIOUS
<1>2. CountOf(o, x) = IF m = x THEN 1 ELSE 0 BY CountOne
<1> HIDE DEF o, Msg
<1>3. /\ CountOf(p, x) \in Nat /\ CountOf(o, x) \in Nat
      /\ CountOf(p \o o, x) = CountOf(p, x) + CountOf(o, x)
      /\ CountOf(o \o p, x) = CountOf(o, x) + CountOf(p, x)
      BY <1>1, CountJoin
<1>4. QED BY <1>2, <1>3 DEF o

(* The first packet of the ring moves to the end of the queue.             *)
Begins(ring, a, less) == Packets(ring) = <<a>> \o Packets(less)

LEMMA OwesMoved ==
    ASSUME NEW p \in Seq(Msg), NEW ring \in Seq(Nat \X Nat), NEW less \in Seq(Nat \X Nat),
           NEW a \in Nat, Begins(ring, a, less), NEW n \in Nat
    PROVE  Owes(p \o <<Patch(a)>>, less, n) = Owes(p, ring, n)
<1>1. Patch(a) \in Msg /\ Patch(a).type = "PATCH_DATA" /\ Patch(a).seq = a
      BY Signals DEF Patch
<1> DEFINE q == p \o <<Patch(a)>>
           o == <<a>>
<1>2. Patches(q) = Patches(p) \o o /\ Patches(p) \in Seq(Nat) BY <1>1, PatchesMore
<1>3. \A k \in Notice : CountOf(q, [type |-> k, seq |-> 0]) = CountOf(p, [type |-> k, seq |-> 0])
  <2> TAKE k \in Notice
  <2> DEFINE x == [type |-> k, seq |-> 0]
  <2>1. Patch(a) # x
    <3>1. x.type \in Notice OBVIOUS
    <3>2. QED BY <1>1, <3>1 DEF Notice
  <2> HIDE DEF x
  <2>2. CountOf(q, x) = CountOf(p, x) + 0 /\ CountOf(p, x) \in Nat BY <1>1, <2>1, CountMore
  <2>3. QED BY <2>2 DEF x
<1>4. o \in Seq(Nat) /\ Packets(less) \in Seq(Nat) BY PacketsJoin
<1> HIDE DEF q, o
<1>5. (Patches(p) \o o) \o Packets(less) = Patches(p) \o (o \o Packets(less))
      BY <1>2, <1>4, NumbersJoined
<1>6. Patches(q) \o Packets(less) = Patches(p) \o Packets(ring) BY <1>2, <1>5 DEF o, Begins
<1>7. Owes(q, less, n) = Owes(p, ring, n) BY <1>3, <1>6 DEF Owes
<1>8. QED BY <1>7 DEF q

(* A message without data at the end of the queue is one notice more.      *)
Signal(k) == [type |-> k, seq |-> 0]

LEMMA OwesNotice ==
    ASSUME NEW p \in Seq(Msg), NEW ring, NEW j \in Notice, NEW k \in Notice, NEW n \in Nat
    PROVE  /\ Patches(p \o <<Signal(j)>>) = Patches(p)
           /\ Owes(p, ring, n).notices[k] \in Nat
           /\ k = j => Owes(p \o <<Signal(j)>>, ring, n).notices[k] = Owes(p, ring, n).notices[k] + 1
           /\ k # j => Owes(p \o <<Signal(j)>>, ring, n).notices[k] = Owes(p, ring, n).notices[k]
<1> DEFINE m == Signal(j)
           x == [type |-> k, seq |-> 0]
           q == p \o <<m>>
<1>1. m \in Msg /\ m.type # "PATCH_DATA" BY DEF Msg, Notice, Signal
<1>2. m = x <=> j = k
  <2>1. m.type = j /\ x.type = k /\ m = [type |-> j, seq |-> 0] BY DEF Signal
  <2>2. QED BY <2>1
<1>3. Patches(q) = Patches(p) BY <1>1, PatchesMore
<1> HIDE DEF m, x
<1>4. CountOf(q, x) = CountOf(p, x) + (IF m = x THEN 1 ELSE 0) /\ CountOf(p, x) \in Nat
      BY <1>1, CountMore
<1> HIDE DEF q
<1>5. /\ Owes(p, ring, n).notices[k] = CountOf(p, x) + (IF k = "FAST_DONE" THEN n ELSE 0)
      /\ Owes(q, ring, n).notices[k] = CountOf(q, x) + (IF k = "FAST_DONE" THEN n ELSE 0)
      BY DEF Owes, x
<1>6. QED BY <1>2, <1>3, <1>4, <1>5 DEF q, m

(* A notice moves from the command ring to the queue.                      *)
LEMMA OwesCommand ==
    ASSUME NEW p \in Seq(Msg), NEW ring, NEW n \in Nat
    PROVE  Owes(p \o <<FAST_DONE>>, ring, n) = Owes(p, ring, n + 1)
<1> DEFINE q == p \o <<FAST_DONE>>
<1>1. FAST_DONE = Signal("FAST_DONE") /\ "FAST_DONE" \in Notice
      BY DEF FAST_DONE, Notice, Signal
<1>2. Patches(q) = Patches(p)
      /\ \A k \in Notice : /\ Owes(p, ring, n).notices[k] \in Nat
                           /\ k = "FAST_DONE" =>
                                  Owes(q, ring, n).notices[k] = Owes(p, ring, n).notices[k] + 1
                           /\ k # "FAST_DONE" =>
                                  Owes(q, ring, n).notices[k] = Owes(p, ring, n).notices[k]
  <2> DEFINE f == "FAST_DONE"
  <2>1. ASSUME NEW k \in Notice
        PROVE  /\ Patches(p \o <<Signal(f)>>) = Patches(p)
               /\ Owes(p, ring, n).notices[k] \in Nat
               /\ k = f => Owes(p \o <<Signal(f)>>, ring, n).notices[k] = Owes(p, ring, n).notices[k] + 1
               /\ k # f => Owes(p \o <<Signal(f)>>, ring, n).notices[k] = Owes(p, ring, n).notices[k]
    <3>1. f \in Notice BY <1>1
    <3> HIDE DEF f
    <3>2. QED BY <3>1, OwesNotice
  <2>2. q = p \o <<Signal("FAST_DONE")>> BY <1>1
  <2> HIDE DEF q
  <2>3. QED BY <1>1, <2>1, <2>2
<1> HIDE DEF q
<1>3. ASSUME NEW k \in Notice
      PROVE  Owes(q, ring, n).notices[k] = Owes(p, ring, n + 1).notices[k]
  <2> DEFINE c == CountOf(p, [type |-> k, seq |-> 0])
  <2>1. /\ Owes(p, ring, n).notices[k] = c + (IF k = "FAST_DONE" THEN n ELSE 0)
        /\ Owes(p, ring, n + 1).notices[k] = c + (IF k = "FAST_DONE" THEN n + 1 ELSE 0)
        BY DEF Owes
  <2>2. c \in Nat
    <3>1. FAST_DONE \in Msg BY Signals
    <3>2. QED BY <3>1, CountMore
  <2> HIDE DEF c
  <2>3. QED BY <1>2, <2>1, <2>2
<1>4. \A k \in Notice : CountOf(q, [type |-> k, seq |-> 0]) + (IF k = "FAST_DONE" THEN n ELSE 0)
                      = CountOf(p, [type |-> k, seq |-> 0]) + (IF k = "FAST_DONE" THEN n + 1 ELSE 0)
      BY <1>3 DEF Owes
<1>5. Owes(q, ring, n) = Owes(p, ring, n + 1) BY <1>2, <1>4 DEF Owes
<1>6. QED BY <1>5 DEF q

-----------------------------------------------------------------------------
(* ... and what PatchDelivery lets happen to it.                           *)

Gone == [owed |-> <<>>, notices |-> [k \in Notice |-> 0]]
Moves(c) == Delivery!Ask(c) \union Delivery!Tell(c) \union Delivery!DeliverPatch(c)
                \union Delivery!DeliverNotice(c) \union Delivery!Leave(c)

LEMMA Leaves == ASSUME NEW c PROVE Gone \in Moves(c)
  BY DEF Gone, Moves, Delivery!Leave, Delivery!NoNotice

LEMMA Asked ==
    ASSUME NEW p \in Seq(Msg), NEW ring \in Seq(Nat \X Nat), NEW n,
           NEW s \in Sock, NEW q \in Requests[s]
    PROVE  Owes(p, ring \o q, n) \in Moves(Owes(p, ring, n))
<1> DEFINE c == Owes(p, ring, n)
<1>1. q \in Seq(Nat \X Nat) BY SocketAssumption
<1>2. /\ Packets(ring \o q) = Packets(ring) \o Packets(q)
      /\ Packets(ring) \in Seq(Nat) /\ Packets(q) \in Seq(Nat)
      BY <1>1, PacketsJoin
<1>3. Patches(p) \in Seq(Nat) BY PatchesJoin
<1>4. Owes(p, ring \o q, n).owed = c.owed \o Packets(q)
  <2>1. Owes(p, ring \o q, n).owed = Patches(p) \o (Packets(ring) \o Packets(q))
        BY <1>2 DEF Owes
  <2>2. c.owed = Patches(p) \o Packets(ring) BY DEF Owes
  <2>3. (Patches(p) \o Packets(ring)) \o Packets(q) = Patches(p) \o (Packets(ring) \o Packets(q))
        BY <1>2, <1>3, NumbersJoined
  <2>4. QED BY <2>1, <2>2, <2>3
<1>5. Owes(p, ring \o q, n).notices = c.notices BY DEF Owes
<1>6. Owes(p, ring \o q, n) = [owed |-> c.owed \o Packets(q), notices |-> c.notices]
      BY <1>4, <1>5 DEF Owes
<1>7. c = [owed |-> c.owed, notices |-> c.notices] BY DEF Owes
<1> DEFINE X == Packets(q)
           d == Owes(p, ring \o q, n)
           Z == c.owed \o X
<1>8. d = [owed |-> Z, notices |-> c.notices] BY <1>6
<1> HIDE DEF c, d, X, Z
<1>9. d = [c EXCEPT !.owed = Z] BY <1>7, <1>8
<1>10. d = [c EXCEPT !.owed = @ \o X] BY <1>9 DEF Z
<1>11. d \in Delivery!Ask(c) BY <1>10 DEF Delivery!Ask, X
<1>12. QED BY <1>11 DEF Moves, c, d

(* A notice more.                                                          *)
LEMMA Told ==
    ASSUME NEW p, NEW ring, NEW n, NEW q, NEW more, NEW l, NEW j \in Notice,
           Patches(q) = Patches(p), Packets(more) = Packets(ring),
           Owes(q, more, l).notices[j] = Owes(p, ring, n).notices[j] + 1,
           \A k \in Notice : k # j => Owes(q, more, l).notices[k] = Owes(p, ring, n).notices[k]
    PROVE  Owes(q, more, l) \in Moves(Owes(p, ring, n))
<1> DEFINE c == Owes(p, ring, n)
           d == Owes(q, more, l)
<1>1. d.owed = c.owed BY DEF Owes
<1>2. /\ c = [owed |-> c.owed, notices |-> c.notices] /\ d = [owed |-> d.owed, notices |-> d.notices]
      /\ c.notices = [k \in Notice |-> c.notices[k]] /\ d.notices = [k \in Notice |-> d.notices[k]]
      BY DEF Owes
<1>3. d.notices[j] = c.notices[j] + 1 /\ \A k \in Notice : k # j => d.notices[k] = c.notices[k]
      OBVIOUS
<1> HIDE DEF c, d
<1>4. d.notices = [c.notices EXCEPT ![j] = @ + 1]
  <2>1. DOMAIN c.notices = Notice BY <1>2
  <2>2. QED BY <1>2, <1>3, <2>1
<1>5. d = [c EXCEPT !.notices[j] = @ + 1] BY <1>1, <1>2, <1>4
<1>6. d \in Delivery!Tell(c) BY <1>5 DEF Delivery!Tell
<1>7. QED BY <1>6 DEF Moves, c, d

(* The first message under way arrives.                                    *)
LEMMA Delivered ==
    ASSUME NEW p \in Seq(Msg), NEW m \in Msg, NEW ring \in Seq(Nat \X Nat), NEW n \in Nat
    PROVE  LET c == Owes(<<m>> \o p, ring, n)
           IN  Owes(p, ring, n) = c \/ Owes(p, ring, n) \in Moves(c)
<1> DEFINE q == <<m>> \o p
           c == Owes(q, ring, n)
           d == Owes(p, ring, n)
<1>1. /\ c = [owed |-> c.owed, notices |-> c.notices] /\ d = [owed |-> d.owed, notices |-> d.notices]
      /\ c.notices = [k \in Notice |-> c.notices[k]] /\ d.notices = [k \in Notice |-> d.notices[k]]
      /\ c.owed = Patches(q) \o Packets(ring) /\ d.owed = Patches(p) \o Packets(ring)
      BY DEF Owes
<1>2. ASSUME NEW k \in Notice
      PROVE  c.notices[k] = d.notices[k] + (IF m = [type |-> k, seq |-> 0] THEN 1 ELSE 0)
             /\ d.notices[k] \in Nat
  <2> DEFINE x == [type |-> k, seq |-> 0]
  <2>1. /\ CountOf(p, x) \in Nat
        /\ CountOf(q, x) = CountOf(p, x) + (IF m = x THEN 1 ELSE 0)
        BY CountMore
  <2> HIDE DEF q
  <2>2. /\ c.notices[k] = CountOf(q, x) + (IF k = "FAST_DONE" THEN n ELSE 0)
        /\ d.notices[k] = CountOf(p, x) + (IF k = "FAST_DONE" THEN n ELSE 0)
        BY DEF Owes
  <2> HIDE DEF c, d, x
  <2>3. QED BY <2>1, <2>2 DEF x
<1>3. /\ Patches(p) \in Seq(Nat) /\ m.seq \in Nat
      /\ m.type = "PATCH_DATA" => Patches(q) = <<m.seq>> \o Patches(p)
      /\ m.type # "PATCH_DATA" => Patches(q) = Patches(p)
      BY PatchesMore
<1>4. Packets(ring) \in Seq(Nat) BY PacketsJoin
<1> HIDE DEF q, c, d
<1>5. CASE m.type = "PATCH_DATA"
  <2>1. \A k \in Notice : c.notices[k] = d.notices[k]
    <3>1. \A k \in Notice : m # [type |-> k, seq |-> 0] BY <1>5 DEF Notice
    <3>2. QED BY <1>2, <3>1
  <2>2. c.notices = d.notices BY <1>1, <2>1
  <2> DEFINE o == <<m.seq>>
             P == Patches(p) \o Packets(ring)
  <2>3. o \in Seq(Nat) /\ P \in Seq(Nat) BY <1>3, <1>4, ConcatProperties
  <2>4. c.owed = o \o P
    <3>1. o \in Seq(Nat) BY <2>3
    <3> HIDE DEF o
    <3>2. (o \o Patches(p)) \o Packets(ring) = o \o P BY <1>3, <1>4, <3>1, NumbersJoined
    <3>3. QED BY <1>1, <1>3, <1>5, <3>2 DEF o
  <2>5. c.owed # <<>> /\ Tail(c.owed) = P
    <3>1. /\ o \o P \in Seq(Nat) /\ Len(o \o P) = 1 + Len(P)
          /\ \A i \in 1 .. 1 + Len(P) : (o \o P)[i] = IF i <= 1 THEN m.seq ELSE P[i - 1]
      <4>1. Len(o) = 1 /\ o[1] = m.seq OBVIOUS
      <4> HIDE DEF o, P
      <4> DEFINE T == Nat
      <4>2. o \in Seq(T) /\ P \in Seq(T) BY <2>3
      <4>3. o \o P \in Seq(T) /\ Len(o \o P) = Len(o) + Len(P)
            /\ \A i \in 1 .. Len(o) + Len(P) : (o \o P)[i] = IF i <= Len(o) THEN o[i] ELSE P[i - Len(o)]
        <5> HIDE DEF T
        <5>1. QED BY <4>2, ConcatProperties
      <4>4. \A i \in 1 .. 1 + Len(P) : i <= 1 => i = 1 BY <2>3, LenProperties
      <4>5. QED BY <4>1, <4>3, <4>4
    <3> HIDE DEF o, P
    <3>2. Len(P) \in Nat BY <2>3, LenProperties
    <3>3. o \o P # <<>>
      <4>1. Len(o \o P) # 0 BY <3>1, <3>2
      <4>2. QED BY <4>1, EmptySeq
    <3>4. /\ Tail(o \o P) \in Seq(Nat) /\ Len(Tail(o \o P)) = Len(o \o P) - 1
          /\ \A i \in 1 .. Len(Tail(o \o P)) : Tail(o \o P)[i] = (o \o P)[i + 1]
          BY <3>1, <3>3, HeadTailProperties
    <3>5. Len(Tail(o \o P)) = Len(P) BY <3>1, <3>2, <3>4
    <3>6. ASSUME NEW i \in 1 .. Len(P) PROVE Tail(o \o P)[i] = P[i]
      <4>1. i + 1 \in 1 .. 1 + Len(P) /\ ~(i + 1 <= 1) /\ (i + 1) - 1 = i BY <3>2
      <4>2. QED BY <3>1, <3>4, <3>5, <4>1
    <3>7. Tail(o \o P) = P BY <2>3, <3>4, <3>5, <3>6, SeqEqual
    <3>8. QED BY <2>4, <3>3, <3>7
  <2>6. d = [c EXCEPT !.owed = Tail(@)] BY <1>1, <2>2, <2>5
  <2>7. d \in Delivery!DeliverPatch(c) BY <2>5, <2>6 DEF Delivery!DeliverPatch
  <2>8. QED BY <2>7 DEF Moves, c, d, q
<1>6. CASE m.type # "PATCH_DATA" /\ m.seq = 0
  <2>1. PICK j \in Notice : j = m.type BY <1>6 DEF Msg
  <2>2. m = [type |-> j, seq |-> 0] BY <1>6, <2>1 DEF Msg
  <2>3. \A k \in Notice : m = [type |-> k, seq |-> 0] <=> k = j BY <2>2
  <2>4. d.notices = [c.notices EXCEPT ![j] = @ - 1] /\ c.notices[j] > 0
    <3>1. \A k \in Notice : k # j => d.notices[k] = c.notices[k] BY <1>2, <2>3
    <3>2. d.notices[j] = c.notices[j] - 1 /\ c.notices[j] > 0 BY <1>2, <2>3
    <3>3. QED BY <1>1, <3>1, <3>2
  <2>5. d.owed = c.owed BY <1>1, <1>3, <1>6
  <2>6. d = [c EXCEPT !.notices[j] = @ - 1] BY <1>1, <2>4, <2>5
  <2>7. d \in Delivery!DeliverNotice(c) BY <2>4, <2>6 DEF Delivery!DeliverNotice
  <2>8. QED BY <2>7 DEF Moves, c, d, q
<1>7. CASE m.type # "PATCH_DATA" /\ m.seq # 0
  <2>1. \A k \in Notice : m # [type |-> k, seq |-> 0] BY <1>7
  <2>2. \A k \in Notice : d.notices[k] = c.notices[k] BY <1>2, <2>1
  <2>3. d = c BY <1>1, <1>3, <1>7, <2>2
  <2>4. QED BY <2>3 DEF c, d, q
<1>8. QED BY <1>5, <1>6, <1>7

-----------------------------------------------------------------------------
(* What is due to a receiver.                                              *)

Partly(s) == [i \in DOMAIN remain[s] |-> remain[s][i].msg]
Arriving(s) == Messages(recv_buf[s]) \o Messages(wire[s])

Known ==
    \A s \in Sock :
        /\ Messages(recv_buf[s]) \in Seq(Msg) /\ Messages(wire[s]) \in Seq(Msg)
        /\ Arriving(s) \in Seq(Msg) /\ Partly(s) \in Seq(Msg) /\ sendQueue[s] \in Seq(Msg)
        /\ (remain[s] = <<>> => Partly(s) = <<>>)
        /\ (remain[s] # <<>> => Partly(s) = <<remain[s][1].msg>>)
        /\ Arriving(s) \o Partly(s) \in Seq(Msg) /\ Pending(s) \in Seq(Msg)
        /\ Pending(s) = (Arriving(s) \o Partly(s)) \o sendQueue[s]
        /\ Pending(s) = Arriving(s) \o (Partly(s) \o sendQueue[s])
        /\ ringPatch[s] \in Seq(Nat \X Nat) /\ CountOf(ringCmd, s) \in Nat

LEMMA KnownParts == SInv => Known
<1> SUFFICES ASSUME SInv, NEW s \in Sock
             PROVE  /\ Messages(recv_buf[s]) \in Seq(Msg) /\ Messages(wire[s]) \in Seq(Msg)
                    /\ Arriving(s) \in Seq(Msg) /\ Partly(s) \in Seq(Msg) /\ sendQueue[s] \in Seq(Msg)
                    /\ (remain[s] = <<>> => Partly(s) = <<>>)
                    /\ (remain[s] # <<>> => Partly(s) = <<remain[s][1].msg>>)
                    /\ Arriving(s) \o Partly(s) \in Seq(Msg) /\ Pending(s) \in Seq(Msg)
                    /\ Pending(s) = (Arriving(s) \o Partly(s)) \o sendQueue[s]
                    /\ Pending(s) = Arriving(s) \o (Partly(s) \o sendQueue[s])
                    /\ ringPatch[s] \in Seq(Nat \X Nat) /\ CountOf(ringCmd, s) \in Nat
    BY DEF Known
<1>1. /\ recv_buf[s] \in Seq(Byte) /\ wire[s] \in Seq(Byte) /\ sendQueue[s] \in Seq(Msg)
      /\ ringPatch[s] \in Seq(Nat \X Nat) /\ ringCmd \in Seq(Sock)
      /\ remain[s] \in Seq([msg : Msg, sent : Nat]) /\ Len(remain[s]) <= 1
      BY DEF SInv, Types, Partial
<1>2. Messages(recv_buf[s]) \in Seq(Msg) /\ Messages(wire[s]) \in Seq(Msg) BY <1>1, MessagesJoin
<1>3. Arriving(s) \in Seq(Msg)
  <2> HIDE DEF Msg
  <2>1. QED BY <1>2, ConcatProperties DEF Arriving
<1>4. /\ Partly(s) \in Seq(Msg)
      /\ (remain[s] = <<>> => Partly(s) = <<>>)
      /\ (remain[s] # <<>> => Partly(s) = <<remain[s][1].msg>>)
  <2>1. CASE remain[s] = <<>>
    <3>1. DOMAIN remain[s] = {} BY <2>1
    <3>2. Partly(s) = <<>> BY <3>1 DEF Partly
    <3>3. QED BY <2>1, <3>2
  <2>2. CASE remain[s] # <<>>
    <3>1. Len(remain[s]) = 1 /\ DOMAIN remain[s] = 1 .. 1
      <4> DEFINE k == Len(remain[s])
      <4>1. k \in Nat /\ k # 0 /\ DOMAIN remain[s] = 1 .. k
            BY <1>1, <2>2, EmptySeq, LenProperties
      <4>2. k <= 1 BY <1>1
      <4> HIDE DEF k
      <4>3. k = 1 BY <4>1, <4>2
      <4>4. QED BY <4>1, <4>3 DEF k
    <3>2. remain[s][1] \in [msg : Msg, sent : Nat]
      <4> DEFINE T == [msg : Msg, sent : Nat]
      <4>1. 1 \in 1 .. Len(remain[s]) /\ remain[s] \in Seq(T) BY <1>1, <3>1
      <4> HIDE DEF T
      <4>2. remain[s][1] \in T BY <4>1, ElementOfSeq
      <4>3. QED BY <4>2 DEF T
    <3>3. Partly(s) = [i \in 1 .. 1 |-> remain[s][i].msg] BY <3>1 DEF Partly
    <3>4. Partly(s) = <<remain[s][1].msg>> BY <3>3
    <3>5. remain[s][1].msg \in Msg BY <3>2
    <3>6. <<remain[s][1].msg>> \in Seq(Msg) BY <3>5
    <3>7. QED BY <2>2, <3>4, <3>6
  <2>3. QED BY <2>1, <2>2
<1>5. Pending(s) = (Arriving(s) \o Partly(s)) \o sendQueue[s] BY DEF Pending, Arriving, Partly
<1>6. (Arriving(s) \o Partly(s)) \o sendQueue[s] = Arriving(s) \o (Partly(s) \o sendQueue[s])
      BY <1>1, <1>3, <1>4, MessagesJoined
<1>7. Arriving(s) \o Partly(s) \in Seq(Msg) /\ Pending(s) \in Seq(Msg)
  <2> HIDE DEF Msg
  <2>1. Arriving(s) \o Partly(s) \in Seq(Msg) BY <1>3, <1>4, ConcatProperties
  <2>2. (Arriving(s) \o Partly(s)) \o sendQueue[s] \in Seq(Msg) BY <1>1, <2>1, ConcatProperties
  <2>3. QED BY <1>5, <2>1, <2>2
<1>8. CountOf(ringCmd, s) \in Nat BY <1>1, CountJoin
<1>9. QED BY <1>1, <1>2, <1>3, <1>4, <1>5, <1>6, <1>7, <1>8

LEMMA DueIs ==
    ASSUME NEW s \in Sock
    PROVE  Due(s) = IF open[s] THEN Owes(Pending(s), ringPatch[s], CountOf(ringCmd, s)) ELSE Gone
  BY DEF Due, Owes, Gone

LEMMA DueIsNext ==
    ASSUME NEW s \in Sock
    PROVE  Due(s)' = IF open'[s] THEN Owes(Pending(s)', ringPatch'[s], CountOf(ringCmd, s)') ELSE Gone
  BY DEF Due, Owes, Gone

(* What a step does to what is due: nothing, or one receiver's changes as  *)
(* PatchDelivery says.                                                     *)
Kept(t) == Due(t)' = Due(t)
Change(s) == /\ \A t \in Sock : t # s => Kept(t)
             /\ Kept(s) \/ Due(s)' \in Moves(Due(s))

LEMMA DueKept ==
    ASSUME NEW t \in Sock, recv_buf'[t] = recv_buf[t], wire'[t] = wire[t], remain'[t] = remain[t],
           sendQueue'[t] = sendQueue[t], ringPatch'[t] = ringPatch[t], open'[t] = open[t],
           CountOf(ringCmd, t)' = CountOf(ringCmd, t)
    PROVE  Kept(t)
<1>1. Pending(t)' = Pending(t) BY DEF Pending
<1>2. QED BY <1>1, DueIs, DueIsNext DEF Kept

LEMMA AllKept ==
    ASSUME UNCHANGED <<queues, wire, open, recver>>, NEW t \in Sock
    PROVE  Kept(t)
  BY DueKept DEF queues, recver

(* A message more in the queue.                                            *)
LEMMA PendingMore ==
    ASSUME SInv, NEW s \in Sock, NEW m \in Msg,
           recv_buf'[s] = recv_buf[s], wire'[s] = wire[s], remain'[s] = remain[s],
           sendQueue'[s] = Append(sendQueue[s], m)
    PROVE  Pending(s)' = Pending(s) \o <<m>>
<1>1. Known BY KnownParts
<1> DEFINE X == Arriving(s) \o Partly(s)
           o == <<m>>
           q == sendQueue[s]
<1>2. X \in Seq(Msg) /\ q \in Seq(Msg) /\ o \in Seq(Msg) /\ Pending(s) = X \o q
  <2>1. o \in Seq(Msg) OBVIOUS
  <2> HIDE DEF o, Msg
  <2>2. QED BY <1>1, <2>1 DEF Known
<1>3. Append(q, m) = q \o o
  <2> HIDE DEF Msg
  <2>1. QED BY <1>2, AppendIsConcat
<1>4. Pending(s)' = X \o sendQueue'[s] BY DEF Pending, Arriving, Partly
<1> HIDE DEF X, q, o
<1>5. (X \o q) \o o = X \o (q \o o) BY <1>2, MessagesJoined
<1>6. Pending(s)' = Pending(s) \o o BY <1>2, <1>3, <1>4, <1>5 DEF q
<1>7. QED BY <1>6 DEF o

-----------------------------------------------------------------------------
(* The steps of the send thread.                                           *)

LEMMA CommandDue == ASSUME SInv, SInv', SsCommand PROVE \E s \in Sock : Change(s)
<1>0. PICK s \in Sock : s = Head(ringCmd)
  <2>1. ringCmd \in Seq(Sock) /\ ringCmd # <<>> BY DEF SsCommand, SInv, Types
  <2>2. QED BY <2>1, HeadTailProperties
<1>1. /\ ringCmd \in Seq(Sock) /\ ringCmd # <<>> /\ ringCmd' = Tail(ringCmd)
      /\ sendQueue' = [sendQueue EXCEPT ![s] = Append(@, FAST_DONE)]
      /\ sendQueue \in [Sock -> Seq(Msg)]
      /\ UNCHANGED <<ringPatch, remain, wire, open, recv_buf>>
      BY <1>0 DEF SsCommand, SInv, Types, recver
<1>3. ASSUME NEW t \in Sock
      PROVE  /\ CountOf(ringCmd, t)' \in Nat
             /\ t = s => CountOf(ringCmd, t) = CountOf(ringCmd, t)' + 1
             /\ t # s => CountOf(ringCmd, t)' = CountOf(ringCmd, t)
  <2> DEFINE h == <<s>>
             r == Tail(ringCmd)
  <2>1. ringCmd = h \o r /\ r \in Seq(Sock) /\ h \in Seq(Sock)
    <3>1. s = ringCmd[1] BY <1>0, <1>1
    <3>2. r \in Seq(Sock) /\ ringCmd = <<ringCmd[1]>> \o r BY <1>1, FirstAndRest
    <3>3. h \in Seq(Sock) OBVIOUS
    <3>4. QED BY <3>1, <3>2, <3>3
  <2>2. CountOf(h, t) = IF s = t THEN 1 ELSE 0 BY CountOne
  <2> HIDE DEF h, r
  <2>3. /\ CountOf(h \o r, t) = CountOf(h, t) + CountOf(r, t)
        /\ CountOf(h, t) \in Nat /\ CountOf(r, t) \in Nat
        BY <2>1, CountJoin
  <2>4. CountOf(ringCmd, t)' = CountOf(r, t)
    <3>1. CountOf(ringCmd, t)' = CountOf(ringCmd', t) BY DEF CountOf
    <3>2. QED BY <1>1, <3>1 DEF r
  <2>5. CountOf(ringCmd, t) = CountOf(h, t) + CountOf(r, t) BY <2>1, <2>3
  <2>6. CASE t = s
    <3>1. CountOf(h, t) = 1 BY <2>2, <2>6
    <3>2. QED BY <2>3, <2>4, <2>5, <2>6, <3>1
  <2>7. CASE t # s
    <3>1. CountOf(h, t) = 0 BY <2>2, <2>7
    <3>2. QED BY <2>3, <2>4, <2>5, <2>7, <3>1
  <2>8. QED BY <2>6, <2>7
<1>4. \A t \in Sock : t # s => Kept(t)
  <2> TAKE t \in Sock
  <2>1. CASE t # s
    <3>1. sendQueue'[t] = sendQueue[t] BY <1>1, <2>1
    <3>2. CountOf(ringCmd, t)' = CountOf(ringCmd, t) BY <1>3, <2>1
    <3>3. QED BY <1>1, <3>1, <3>2, DueKept
  <2>2. QED BY <2>1
<1>5. Kept(s)
  <2>1. sendQueue'[s] = Append(sendQueue[s], FAST_DONE) BY <1>1
  <2>2. Pending(s)' = Pending(s) \o <<FAST_DONE>> BY <1>1, <2>1, Signals, PendingMore
  <2> DEFINE n == CountOf(ringCmd, s)'
  <2>3. CountOf(ringCmd, s) = n + 1 /\ n \in Nat BY <1>3
  <2>4. Pending(s) \in Seq(Msg) BY KnownParts DEF Known
  <2> HIDE DEF n
  <2>5. Owes(Pending(s) \o <<FAST_DONE>>, ringPatch[s], n) = Owes(Pending(s), ringPatch[s], n + 1)
        BY <2>3, <2>4, OwesCommand
  <2>6. Due(s) = IF open[s] THEN Owes(Pending(s), ringPatch[s], n + 1) ELSE Gone
        BY <2>3, DueIs
  <2>7. Due(s)' = IF open'[s] THEN Owes(Pending(s)', ringPatch'[s], n) ELSE Gone
        BY DueIsNext DEF n
  <2>8. QED BY <1>1, <2>2, <2>5, <2>6, <2>7 DEF Kept
<1>6. QED BY <1>4, <1>5 DEF Change

LEMMA InsertDue == ASSUME SInv, SInv', RingsOrdered, PtInsert PROVE \E s \in Sock : Change(s)
<1>0. PICK s \in Sock : s = At BY ThreadTypes DEF PtInsert, Visiting
<1> DEFINE r == ringPatch[s]
           a == r[1][1]
<1>1. /\ r # <<>> /\ r[1][1] # r[1][2]
      /\ sendQueue' = [sendQueue EXCEPT ![s] = Append(@, Patch(a))]
      /\ ringPatch' = [ringPatch EXCEPT ![s] = Advanced(@)]
      /\ sendQueue \in [Sock -> Seq(Msg)] /\ ringPatch \in [Sock -> Seq(Nat \X Nat)]
      /\ UNCHANGED <<ringCmd, remain, wire, open, recv_buf>>
      BY <1>0 DEF PtInsert, NoPackets, SInv, Types, recver
<1>2. r \in Seq(Nat \X Nat) /\ Ordered(r) BY <1>1 DEF RingsOrdered
<1>3. /\ sendQueue'[s] = Append(sendQueue[s], Patch(a)) /\ ringPatch'[s] = Advanced(r)
      /\ \A t \in Sock : t # s => sendQueue'[t] = sendQueue[t] /\ ringPatch'[t] = ringPatch[t]
      BY <1>1
<1>4. a \in Nat /\ Advanced(r) \in Seq(Nat \X Nat) BY <1>1, <1>2, RingAdvanced
<1>5. Packets(r) = <<a>> \o Packets(Advanced(r)) BY <1>1, <1>2, RingHead
<1>6. \A t \in Sock : CountOf(ringCmd, t)' = CountOf(ringCmd, t) BY <1>1 DEF CountOf
<1> HIDE DEF r, a
<1>7. \A t \in Sock : t # s => Kept(t) BY <1>1, <1>3, <1>6, DueKept
<1>8. Kept(s)
  <2>1. Patch(a) \in Msg BY <1>4, Signals
  <2>2. Pending(s)' = Pending(s) \o <<Patch(a)>> BY <1>1, <1>3, <2>1, PendingMore
  <2>3. Pending(s) \in Seq(Msg) /\ CountOf(ringCmd, s) \in Nat BY KnownParts DEF Known
  <2> DEFINE n == CountOf(ringCmd, s)
             d == Advanced(r)
  <2>4. n \in Nat /\ d \in Seq(Nat \X Nat) /\ Begins(r, a, d) BY <1>4, <1>5, <2>3 DEF Begins
  <2> HIDE DEF n, d
  <2>5. Owes(Pending(s) \o <<Patch(a)>>, d, n) = Owes(Pending(s), r, n)
    <3> DEFINE P == Pending(s)
    <3>1. P \in Seq(Msg) BY <2>3
    <3>2. r \in Seq(Nat \X Nat) BY <1>2
    <3> HIDE DEF P
    <3>3. Owes(P \o <<Patch(a)>>, d, n) = Owes(P, r, n)
          BY <1>4, <2>4, <3>1, <3>2, OwesMoved
    <3>4. QED BY <3>3 DEF P
  <2>6. Due(s) = IF open[s] THEN Owes(Pending(s), r, n) ELSE Gone BY DueIs DEF r, n
  <2>7. Due(s)' = IF open[s] THEN Owes(Pending(s)', d, n) ELSE Gone
        BY <1>1, <1>3, <1>6, DueIsNext DEF d, n
  <2>8. QED BY <2>2, <2>5, <2>6, <2>7 DEF Kept
<1>9. QED BY <1>7, <1>8 DEF Change

LEMMA EmptyDue == ASSUME SInv, SInv', RingsOrdered, PtEmpty PROVE \E s \in Sock : Change(s)
<1>0. PICK s \in Sock : s = At BY ThreadTypes DEF PtEmpty, Visiting
<1> DEFINE r == ringPatch[s]
<1>1. /\ r # <<>> /\ r[1][1] = r[1][2]
      /\ ringPatch' = [ringPatch EXCEPT ![s] = Tail(@)]
      /\ ringPatch \in [Sock -> Seq(Nat \X Nat)]
      /\ UNCHANGED <<ringCmd, sendQueue, remain, wire, open, recv_buf>>
      BY <1>0 DEF PtEmpty, NoPackets, SInv, Types, recver
<1>2. r \in Seq(Nat \X Nat) /\ Ordered(r) BY <1>1 DEF RingsOrdered
<1>3. Packets(Tail(r)) = Packets(r) BY <1>1, <1>2, RingHead
<1>4. ringPatch'[s] = Tail(r) /\ \A t \in Sock : t # s => ringPatch'[t] = ringPatch[t] BY <1>1
<1>5. \A t \in Sock : CountOf(ringCmd, t)' = CountOf(ringCmd, t) BY <1>1 DEF CountOf
<1> HIDE DEF r
<1>6. \A t \in Sock : t # s => Kept(t) BY <1>1, <1>4, <1>5, DueKept
<1>7. Kept(s)
  <2>1. Pending(s)' = Pending(s) BY <1>1 DEF Pending
  <2> DEFINE n == CountOf(ringCmd, s)
  <2>2. Owes(Pending(s), Tail(r), n) = Owes(Pending(s), r, n) BY <1>3 DEF Owes
  <2> HIDE DEF n
  <2>3. Due(s) = IF open[s] THEN Owes(Pending(s), r, n) ELSE Gone BY DueIs DEF r, n
  <2>4. Due(s)' = IF open[s] THEN Owes(Pending(s), Tail(r), n) ELSE Gone
        BY <1>1, <1>4, <1>5, <2>1, DueIsNext DEF n
  <2>5. QED BY <2>2, <2>3, <2>4 DEF Kept
<1>8. QED BY <1>6, <1>7 DEF Change

LEMMA RequestDue == ASSUME SInv, SInv', RcRequest PROVE \E s \in Sock : Change(s)
<1>0. PICK s \in Sock : s = At BY ThreadTypes DEF RcRequest, Visiting
<1>1. PICK q \in Requests[s] : ringPatch' = [ringPatch EXCEPT ![s] = @ \o q]
      BY <1>0 DEF RcRequest
<1>2. /\ ringPatch \in [Sock -> Seq(Nat \X Nat)]
      /\ UNCHANGED <<ringCmd, sendQueue, remain, wire, open, recv_buf>>
      BY DEF RcRequest, SInv, Types, recver
<1>3. /\ ringPatch'[s] = ringPatch[s] \o q
      /\ \A t \in Sock : t # s => ringPatch'[t] = ringPatch[t]
      BY <1>1, <1>2
<1>4. \A t \in Sock : CountOf(ringCmd, t)' = CountOf(ringCmd, t) BY <1>2 DEF CountOf
<1>5. \A t \in Sock : t # s => Kept(t) BY <1>2, <1>3, <1>4, DueKept
<1>6. Kept(s) \/ Due(s)' \in Moves(Due(s))
  <2>1. Pending(s)' = Pending(s) BY <1>2 DEF Pending
  <2>2. Pending(s) \in Seq(Msg) /\ ringPatch[s] \in Seq(Nat \X Nat) BY KnownParts DEF Known
  <2> DEFINE n == CountOf(ringCmd, s)
             P == Pending(s)
             r == ringPatch[s]
  <2>3. P \in Seq(Msg) /\ r \in Seq(Nat \X Nat) BY <2>2
  <2>4. Due(s) = IF open[s] THEN Owes(P, r, n) ELSE Gone BY DueIs
  <2>5. Due(s)' = IF open[s] THEN Owes(P, r \o q, n) ELSE Gone
        BY <1>2, <1>3, <1>4, <2>1, DueIsNext
  <2> HIDE DEF n, P, r
  <2>6. Owes(P, r \o q, n) \in Moves(Owes(P, r, n)) BY <2>3, Asked
  <2>7. QED BY <2>4, <2>5, <2>6 DEF Kept
<1>7. QED BY <1>5, <1>6 DEF Change

(* A notice more, for the command ring or for the queue.                   *)
LEMMA SignalTold ==
    ASSUME NEW p \in Seq(Msg), NEW ring, NEW n \in Nat, NEW j \in Notice
    PROVE  Owes(p \o <<Signal(j)>>, ring, n) \in Moves(Owes(p, ring, n))
<1> DEFINE q == p \o <<Signal(j)>>
<1>1. /\ Patches(q) = Patches(p)
      /\ Owes(q, ring, n).notices[j] = Owes(p, ring, n).notices[j] + 1
      BY OwesNotice
<1>2. \A k \in Notice : k # j => Owes(q, ring, n).notices[k] = Owes(p, ring, n).notices[k]
      BY OwesNotice
<1> HIDE DEF q
<1>3. Owes(q, ring, n) \in Moves(Owes(p, ring, n)) BY <1>1, <1>2, Told
<1>4. QED BY <1>3 DEF q

LEMMA CommandTold ==
    ASSUME NEW p \in Seq(Msg), NEW ring, NEW n \in Nat
    PROVE  Owes(p, ring, n + 1) \in Moves(Owes(p, ring, n))
<1> DEFINE j == "FAST_DONE"
<1>1. j \in Notice /\ Patches(p \o <<Signal(j)>>) = Patches(p) BY OwesNotice DEF Notice
<1>2. Signal(j) = FAST_DONE BY DEF Signal, FAST_DONE
<1>3. Owes(p \o <<Signal(j)>>, ring, n) = Owes(p, ring, n + 1) BY <1>2, OwesCommand
<1> HIDE DEF j
<1>4. Owes(p \o <<Signal(j)>>, ring, n) \in Moves(Owes(p, ring, n)) BY <1>1, SignalTold
<1>5. QED BY <1>3, <1>4

LEMMA PullDue == ASSUME SInv, SInv', RcPull PROVE \E s \in Sock : Change(s)
<1>0. PICK s \in Sock : s = At BY ThreadTypes DEF RcPull, Visiting
<1>1. /\ sendQueue \in [Sock -> Seq(Msg)]
      /\ \/ sendQueue' = [sendQueue EXCEPT ![s] = Append(@, PULL_REJECT)]
         \/ sendQueue' = sendQueue
      /\ UNCHANGED <<ringCmd, ringPatch, remain, wire, open, recv_buf>>
      BY <1>0 DEF RcPull, SInv, Types, recver
<1>2. \A t \in Sock : CountOf(ringCmd, t)' = CountOf(ringCmd, t) BY <1>1 DEF CountOf
<1>3. \A t \in Sock : t # s => sendQueue'[t] = sendQueue[t] BY <1>1
<1>4. \A t \in Sock : t # s => Kept(t) BY <1>1, <1>2, <1>3, DueKept
<1>5. CASE sendQueue' = sendQueue
  <2>1. Kept(s) BY <1>1, <1>2, <1>5, DueKept
  <2>2. QED BY <1>4, <2>1 DEF Change
<1>6. CASE sendQueue' = [sendQueue EXCEPT ![s] = Append(@, PULL_REJECT)]
  <2>1. sendQueue'[s] = Append(sendQueue[s], PULL_REJECT) BY <1>1, <1>6
  <2>2. Pending(s)' = Pending(s) \o <<PULL_REJECT>> BY <1>1, <2>1, Signals, PendingMore
  <2>3. PULL_REJECT = Signal("PULL_REJECT") BY DEF PULL_REJECT, Signal
  <2> DEFINE n == CountOf(ringCmd, s)
             P == Pending(s)
             r == ringPatch[s]
             j == "PULL_REJECT"
  <2>4. P \in Seq(Msg) /\ n \in Nat BY KnownParts DEF Known
  <2>5. j \in Notice BY DEF Notice
  <2>6. Due(s) = IF open[s] THEN Owes(P, r, n) ELSE Gone BY DueIs
  <2>7. Due(s)' = IF open[s] THEN Owes(P \o <<Signal(j)>>, r, n) ELSE Gone
        BY <1>1, <1>2, <2>2, <2>3, DueIsNext
  <2> HIDE DEF n, P, r, j
  <2>8. Owes(P \o <<Signal(j)>>, r, n) \in Moves(Owes(P, r, n)) BY <2>4, <2>5, SignalTold
  <2>9. Kept(s) \/ Due(s)' \in Moves(Due(s)) BY <2>6, <2>7, <2>8 DEF Kept
  <2>10. QED BY <1>4, <2>9 DEF Change
<1>7. QED BY <1>1, <1>5, <1>6

LEMMA TellDue == ASSUME SInv, SInv', NEW s \in Sock, SsTell(s) PROVE Change(s)
<1>1. /\ ringCmd \in Seq(Sock) /\ ringCmd' = Append(ringCmd, s)
      /\ UNCHANGED <<ringPatch, sendQueue, remain, wire, open, recv_buf>>
      BY DEF SsTell, SInv, Types, recver
<1>2. ASSUME NEW t \in Sock
      PROVE  /\ CountOf(ringCmd, t) \in Nat
             /\ t = s => CountOf(ringCmd, t)' = CountOf(ringCmd, t) + 1
             /\ t # s => CountOf(ringCmd, t)' = CountOf(ringCmd, t)
  <2> DEFINE h == <<s>>
  <2>1. ringCmd' = ringCmd \o h /\ h \in Seq(Sock)
    <3>1. Append(ringCmd, s) = ringCmd \o h BY <1>1, AppendIsConcat
    <3>2. h \in Seq(Sock) OBVIOUS
    <3>3. QED BY <1>1, <3>1, <3>2
  <2>2. CountOf(h, t) = IF s = t THEN 1 ELSE 0 BY CountOne
  <2> HIDE DEF h
  <2>3. /\ CountOf(ringCmd \o h, t) = CountOf(ringCmd, t) + CountOf(h, t)
        /\ CountOf(h, t) \in Nat /\ CountOf(ringCmd, t) \in Nat
        BY <1>1, <2>1, CountJoin
  <2>4. CountOf(ringCmd, t)' = CountOf(ringCmd, t) + CountOf(h, t)
    <3>1. CountOf(ringCmd, t)' = CountOf(ringCmd', t) BY DEF CountOf
    <3>2. QED BY <2>1, <2>3, <3>1
  <2>5. CASE t = s
    <3>1. CountOf(h, t) = 1 BY <2>2, <2>5
    <3>2. QED BY <2>3, <2>4, <2>5, <3>1
  <2>6. CASE t # s
    <3>1. CountOf(h, t) = 0 BY <2>2, <2>6
    <3>2. QED BY <2>3, <2>4, <2>6, <3>1
  <2>7. QED BY <2>5, <2>6
<1>3. \A t \in Sock : t # s => Kept(t) BY <1>1, <1>2, DueKept
<1>4. Kept(s) \/ Due(s)' \in Moves(Due(s))
  <2>1. Pending(s)' = Pending(s) BY <1>1 DEF Pending
  <2> DEFINE n == CountOf(ringCmd, s)
             P == Pending(s)
             r == ringPatch[s]
  <2>2. P \in Seq(Msg) /\ n \in Nat BY KnownParts DEF Known
  <2>3. Due(s) = IF open[s] THEN Owes(P, r, n) ELSE Gone BY DueIs
  <2>4. Due(s)' = IF open[s] THEN Owes(P, r, n + 1) ELSE Gone
        BY <1>1, <1>2, <2>1, DueIsNext
  <2> HIDE DEF n, P, r
  <2>5. Owes(P, r, n + 1) \in Moves(Owes(P, r, n)) BY <2>2, CommandTold
  <2>6. QED BY <2>3, <2>4, <2>5 DEF Kept
<1>5. QED BY <1>3, <1>4 DEF Change

(* Bytes and a message sent to its end leave the queue for the wire.       *)
LEMMA SendDue == ASSUME SInv, SInv', SmSend PROVE \E s \in Sock : Change(s)
<1>0. PICK s \in Sock : s = At BY ThreadTypes DEF SmSend, Visiting
<1> DEFINE t == Token(s)
           m == t.msg
           a == t.sent
           l == MsgLen(m)
           n == Lesser(l - a, Room(s))
           z == a + n
<1>1. HasToken(s) /\ open[s] BY <1>0 DEF SmSend
<1>2. /\ m \in Msg /\ a \in Nat /\ a < l /\ l \in Nat \ {0}
      /\ remain[s] # <<>> => t = remain[s][1]
      /\ remain[s] = <<>> => m = Head(sendQueue[s]) /\ sendQueue[s] # <<>>
      BY <1>1, TokenIs, Lengths1 DEF Token
<1>3. /\ wire' = [wire EXCEPT ![s] = @ \o Bytes(m, a + 1, z)]
      /\ \/ z = l /\ remain' = [remain EXCEPT ![s] = <<>>]
         \/ z # l /\ remain' = [remain EXCEPT ![s] = <<[t EXCEPT !.sent = @ + n]>>]
      /\ sendQueue' = IF remain[s] # <<>> THEN sendQueue ELSE [sendQueue EXCEPT ![s] = Tail(@)]
      /\ UNCHANGED <<ringCmd, ringPatch, open, recv_buf>>
      BY <1>0 DEF SmSend, Popped, recver
<1>4. /\ wire \in [Sock -> Seq(Byte)] /\ remain \in [Sock -> Seq([msg : Msg, sent : Nat])]
      /\ sendQueue \in [Sock -> Seq(Msg)] /\ wire[s] \in Seq(Byte)
      /\ Len(wire[s]) \in Nat /\ Len(wire[s]) <= SockBuf /\ SockBuf \in Nat
      BY SocketAssumption, LenProperties DEF SInv, Types, Partial
<1> DEFINE more == Bytes(m, a + 1, z)
<1> HIDE DEF m, a, l, t
<1>5. z \in Nat /\ a <= z /\ z <= l BY <1>2, <1>4 DEF Lesser, Room
<1> HIDE DEF z
<1>6. more \in Seq(Byte) /\ Messages(more) = IF z = l THEN <<m>> ELSE <<>>
  <2>1. more \in Seq(Byte) BY <1>2, <1>5, BytesAre
  <2>2. Messages(more) = IF a < z /\ z = l THEN <<m>> ELSE <<>>
        BY <1>2, <1>5, MessagesOfBytes DEF l
  <2>3. z = l => a < z BY <1>2
  <2>4. QED BY <2>1, <2>2, <2>3
<1> HIDE DEF more
<1>7. wire'[s] = wire[s] \o more BY <1>3, <1>4 DEF more
<1>8. \A x \in Sock : x # s => Kept(x)
  <2> SUFFICES ASSUME NEW x \in Sock, x # s PROVE Kept(x) OBVIOUS
  <2>1. wire'[x] = wire[x] /\ remain'[x] = remain[x] BY <1>3, <1>4
  <2>2. sendQueue'[x] = sendQueue[x]
    <3>1. CASE remain[s] # <<>> BY <1>3, <3>1
    <3>2. CASE remain[s] = <<>> BY <1>3, <1>4, <3>2
    <3>3. QED BY <3>1, <3>2
  <2>3. CountOf(ringCmd, x)' = CountOf(ringCmd, x) BY <1>3 DEF CountOf
  <2>4. QED BY <1>3, <2>1, <2>2, <2>3, DueKept
<1>9. Known /\ Known' BY KnownParts, PTL
<1> DEFINE o == <<m>>
           R == Messages(recv_buf[s])
           W == Messages(wire[s])
           U == Partly(s) \o sendQueue[s]
           Q == sendQueue'[s]
<1>10. /\ R \in Seq(Msg) /\ W \in Seq(Msg) /\ Q \in Seq(Msg)
       /\ Pending(s) = (R \o W) \o U
       BY <1>9 DEF Known, Arriving
<1>11. o \in Seq(Msg)
  <2> HIDE DEF Msg
  <2>1. QED BY <1>2
<1>12. U = o \o Q
  <2>1. CASE remain[s] # <<>>
    <3>1. Partly(s) = <<remain[s][1].msg>> BY <1>9, <2>1 DEF Known
    <3>2. remain[s][1].msg = m BY <1>2, <2>1 DEF m
    <3>3. Q = sendQueue[s] BY <1>3, <2>1
    <3>4. QED BY <3>1, <3>2, <3>3
  <2>2. CASE remain[s] = <<>>
    <3>1. Partly(s) = <<>> BY <1>9, <2>2 DEF Known
    <3>2. Q = Tail(sendQueue[s]) BY <1>3, <1>4, <2>2
    <3>3. sendQueue[s] # <<>> /\ m = Head(sendQueue[s]) BY <1>2, <2>2
    <3>4. sendQueue[s] \in Seq(Msg) BY <1>4
    <3> DEFINE q == sendQueue[s]
    <3> HIDE DEF Msg, q
    <3>5. q \in Seq(Msg) /\ q # <<>> /\ m = Head(q) /\ Q = Tail(q) BY <3>2, <3>3, <3>4 DEF q
    <3>6. m = q[1] BY <3>5
    <3>7. q = <<q[1]>> \o Tail(q) BY <1>2, <3>5, FirstAndRest
    <3>8. <<>> \o q = q BY <3>5, ConcatEmptySeq
    <3>9. U = q BY <3>1, <3>8 DEF q
    <3>10. QED BY <3>5, <3>6, <3>7, <3>9
  <2>3. QED BY <2>1, <2>2
<1>13. Messages(wire'[s]) = W \o Messages(more) /\ Messages(more) \in Seq(Msg)
       BY <1>4, <1>6, <1>7, MessagesJoin
<1>14. Pending(s)' = Pending(s)
  <2>1. Messages(recv_buf[s])' = R /\ Messages(wire[s])' = Messages(wire'[s])
        BY <1>3 DEF Messages, Gather, EndOf, Byte, Msg, MsgLen
  <2>2. Pending(s)' = (R \o Messages(wire'[s])) \o (Partly(s)' \o Q)
    <3>1. Pending(s)' = (Messages(recv_buf[s])' \o Messages(wire[s])') \o (Partly(s)' \o Q)
          BY <1>9 DEF Known, Arriving
    <3>2. QED BY <2>1, <3>1
  <2>3. CASE z = l
    <3>1. Partly(s)' = <<>>
      <4>1. remain'[s] = <<>> BY <1>3, <1>4, <2>3
      <4>2. QED BY <1>9, <4>1 DEF Known
    <3>2. Messages(more) = o BY <1>6, <2>3
    <3> HIDE DEF o, R, W, U, Q
    <3>3. <<>> \o Q = Q
      <4> HIDE DEF Msg
      <4>1. QED BY <1>10, ConcatEmptySeq
    <3>4. Pending(s)' = (R \o (W \o o)) \o Q BY <1>13, <2>2, <3>1, <3>2, <3>3
    <3>5. R \o (W \o o) = (R \o W) \o o BY <1>10, <1>11, MessagesJoined
    <3>6. ((R \o W) \o o) \o Q = (R \o W) \o (o \o Q)
      <4>1. R \o W \in Seq(Msg)
        <5> HIDE DEF Msg
        <5>1. QED BY <1>10, ConcatProperties
      <4>2. QED BY <1>10, <1>11, <4>1, MessagesJoined
    <3>7. QED BY <1>10, <1>12, <3>4, <3>5, <3>6
  <2>4. CASE z # l
    <3>1. Partly(s)' = o
      <4> DEFINE u == [t EXCEPT !.sent = @ + n]
      <4>1. remain'[s] = <<u>> BY <1>3, <1>4, <2>4
      <4>2. u.msg = m
        <5>1. t \in [msg : Msg, sent : Nat] BY <1>1, TokenIs DEF t
        <5>2. QED BY <5>1 DEF m
      <4> HIDE DEF u
      <4>3. remain'[s] # <<>> /\ remain'[s][1] = u BY <4>1
      <4>4. Partly(s)' = <<remain'[s][1].msg>> BY <1>9, <4>3 DEF Known
      <4>5. QED BY <4>2, <4>3, <4>4
    <3>2. Messages(more) = <<>> BY <1>6, <2>4
    <3>3. W \o <<>> = W
      <4> HIDE DEF Msg, W
      <4>1. QED BY <1>10, ConcatEmptySeq
    <3>4. QED BY <1>10, <1>12, <1>13, <2>2, <3>1, <3>2, <3>3
  <2>5. QED BY <2>3, <2>4
<1>15. Kept(s)
  <2>1. CountOf(ringCmd, s)' = CountOf(ringCmd, s) BY <1>3 DEF CountOf
  <2>2. QED BY <1>3, <1>14, <2>1, DueIs, DueIsNext DEF Kept
<1>16. QED BY <1>8, <1>15 DEF Change

LEMMA ResetDue == ASSUME SInv, SmReset PROVE \E s \in Sock : Change(s)
<1>0. PICK s \in Sock : s = At BY ThreadTypes DEF SmReset, Visiting
<1>1. /\ ~open[s] /\ remain' = [remain EXCEPT ![s] = <<>>]
      /\ sendQueue' = IF remain[s] # <<>> THEN sendQueue ELSE [sendQueue EXCEPT ![s] = Tail(@)]
      /\ UNCHANGED <<ringCmd, ringPatch, wire, open, recv_buf>>
      BY <1>0 DEF SmReset, Popped, recver
<1>2. sendQueue \in [Sock -> Seq(Msg)] /\ remain \in [Sock -> Seq([msg : Msg, sent : Nat])]
      BY DEF SInv, Types
<1>3. \A t \in Sock : t # s => Kept(t)
  <2> SUFFICES ASSUME NEW t \in Sock, t # s PROVE Kept(t) OBVIOUS
  <2>1. remain'[t] = remain[t] BY <1>1, <1>2
  <2>2. sendQueue'[t] = sendQueue[t]
    <3>1. CASE remain[s] # <<>> BY <1>1, <3>1
    <3>2. CASE remain[s] = <<>> BY <1>1, <1>2, <3>2
    <3>3. QED BY <3>1, <3>2
  <2>3. CountOf(ringCmd, t)' = CountOf(ringCmd, t) BY <1>1 DEF CountOf
  <2>4. QED BY <1>1, <2>1, <2>2, <2>3, DueKept
<1>4. Kept(s)
  <2>1. Due(s) = Gone BY <1>1, DueIs
  <2>2. Due(s)' = Gone BY <1>1, DueIsNext
  <2>3. QED BY <2>1, <2>2 DEF Kept
<1>5. QED BY <1>3, <1>4 DEF Change

(* All the bytes of a message are that message.                            *)
LEMMA WholeMessage ==
    ASSUME NEW m \in Msg, 0 < MsgLen(m)
    PROVE  Messages(Bytes(m, 0 + 1, MsgLen(m))) = <<m>>
<1> DEFINE l == MsgLen(m)
<1>1. l \in Nat /\ 0 \in Nat BY Lengths1
<1> HIDE DEF l, Msg
<1>2. 0 <= l /\ l <= l BY <1>1
<1>3. 0 < l /\ l <= MsgLen(m) /\ l = MsgLen(m) BY <1>2 DEF l
<1>4. Messages(Bytes(m, 0 + 1, l)) = IF 0 < l /\ l = MsgLen(m) THEN <<m>> ELSE <<>>
      BY ONLY <1>1, <1>2, <1>3, m \in Msg, MessagesOfBytes
<1>5. QED BY <1>3, <1>4

-----------------------------------------------------------------------------
(* The steps of the receivers.                                             *)

(* Bytes go from the wire to the buffer, and none between them.            *)
LEMMA ReadDue == ASSUME SInv, SInv', NEW s \in Sock, RvRead(s) PROVE Change(s)
<1> DEFINE B == recv_buf[s]
           W == wire[s]
           n == Lesser(Len(W), RECVBUF_LEN - Len(B))
           X == SubSeq(W, 1, n)
           V == SubSeq(W, n + 1, Len(W))
<1>1. /\ open[s] /\ ~HasMessage(s) /\ W # <<>>
      /\ recv_buf' = [recv_buf EXCEPT ![s] = B \o X] /\ wire' = [wire EXCEPT ![s] = V]
      /\ open' = [open EXCEPT ![s] = n > 0]
      /\ UNCHANGED <<ringCmd, ringPatch, sendQueue, remain>>
      BY DEF RvRead, queues
<1>2. /\ recv_buf \in [Sock -> Seq(Byte)] /\ wire \in [Sock -> Seq(Byte)]
      /\ open \in [Sock -> BOOLEAN]
      BY DEF SInv, Types
<1>3. /\ B \in Seq(Byte) /\ W \in Seq(Byte) /\ Len(B) \in Nat /\ Len(W) \in Nat
      /\ RECVBUF_LEN \in Nat
      BY <1>1, ReaderKnows
<1>4. \A t \in Sock : t # s => Kept(t)
  <2> SUFFICES ASSUME NEW t \in Sock, t # s PROVE Kept(t) OBVIOUS
  <2>1. recv_buf'[t] = recv_buf[t] /\ wire'[t] = wire[t] /\ open'[t] = open[t] BY <1>1, <1>2
  <2>2. CountOf(ringCmd, t)' = CountOf(ringCmd, t) BY <1>1 DEF CountOf
  <2>3. QED BY <1>1, <2>1, <2>2, DueKept
<1>5. CASE ~open'[s]
  <2>1. Due(s)' = Gone BY <1>5, DueIsNext
  <2>2. QED BY <1>4, <2>1, Leaves DEF Change
<1>6. CASE open'[s]
  <2>1. n > 0 BY <1>1, <1>2, <1>6
  <2> HIDE DEF B, W
  <2>2. n \in 0 .. Len(W) BY <1>3, <2>1 DEF Lesser
  <2> HIDE DEF n
  <2>3. X \in Seq(Byte) /\ V \in Seq(Byte) /\ X \o V = W BY <1>3, <2>2, Cut
  <2>4. recv_buf'[s] = B \o X /\ wire'[s] = V BY <1>1, <1>2
  <2> HIDE DEF X, V
  <2>5. /\ Messages(B) \in Seq(Msg) /\ Messages(X) \in Seq(Msg) /\ Messages(V) \in Seq(Msg)
        /\ Messages(B \o X) = Messages(B) \o Messages(X)
        /\ Messages(W) = Messages(X) \o Messages(V)
    <3>1. Messages(B \o X) = Messages(B) \o Messages(X) /\ Messages(B) \in Seq(Msg)
          /\ Messages(X) \in Seq(Msg)
          BY <1>3, <2>3, MessagesJoin
    <3>2. Messages(X \o V) = Messages(X) \o Messages(V) /\ Messages(V) \in Seq(Msg)
          BY <2>3, MessagesJoin
    <3>3. QED BY <2>3, <3>1, <3>2
  <2>6. Messages(B \o X) \o Messages(V) = Messages(B) \o Messages(W)
    <3> DEFINE b == Messages(B)
               x == Messages(X)
               v == Messages(V)
    <3>1. b \in Seq(Msg) /\ x \in Seq(Msg) /\ v \in Seq(Msg) BY <2>5
    <3> HIDE DEF b, x, v
    <3>2. (b \o x) \o v = b \o (x \o v) BY <3>1, MessagesJoined
    <3>3. QED BY <2>5, <3>2 DEF b, x, v
  <2>7. Arriving(s)' = Arriving(s)
    <3>1. Arriving(s)' = Messages(recv_buf'[s]) \o Messages(wire'[s])
          BY DEF Arriving, Messages, Gather, EndOf, Byte, Msg, MsgLen
    <3>2. QED BY <2>4, <2>6, <3>1 DEF Arriving, B, W
  <2>8. Pending(s)' = Pending(s)
    <3>1. Partly(s)' = Partly(s) BY <1>1 DEF Partly
    <3>2. Known /\ Known' BY KnownParts, PTL
    <3>3. Pending(s)' = (Arriving(s)' \o Partly(s)') \o sendQueue'[s] BY <3>2 DEF Known
    <3>4. Pending(s) = (Arriving(s) \o Partly(s)) \o sendQueue[s] BY <3>2 DEF Known
    <3>5. QED BY <1>1, <2>7, <3>1, <3>3, <3>4
  <2>9. CountOf(ringCmd, s)' = CountOf(ringCmd, s) BY <1>1 DEF CountOf
  <2>10. Kept(s) BY <1>1, <1>6, <2>8, <2>9, DueIs, DueIsNext DEF Kept
  <2>11. QED BY <1>4, <2>10 DEF Change
<1>7. QED BY <1>5, <1>6

(* The first message of the buffer is delivered.                           *)
LEMMA MessageDue == ASSUME SInv, SInv', NEW s \in Sock, RvMessage(s) PROVE Change(s)
<1> DEFINE B == recv_buf[s]
           l == expect[s]
           m == B[1][1]
           X == SubSeq(B, 1, l)
           C == SubSeq(B, l + 1, Len(B))
<1>1. /\ open[s] /\ HasMessage(s) /\ recv_buf' = [recv_buf EXCEPT ![s] = C]
      /\ UNCHANGED <<ringCmd, ringPatch, sendQueue, remain, wire, open>>
      BY DEF RvMessage, queues
<1>2. recv_buf \in [Sock -> Seq(Byte)] BY DEF SInv, Types
<1>3. /\ B \in Seq(Byte) /\ wire[s] \in Seq(Byte) /\ Rest(remain[s]) \in Seq(Byte)
      /\ Stream(s) \in Seq(Byte) /\ Whole(Stream(s)) /\ Len(B) \in Nat
      /\ Len(B) < MSG_HDRLEN => l = 0
      /\ Len(B) >= MSG_HDRLEN => /\ B # <<>> /\ l = MsgLen(m) /\ B[1] = Stream(s)[1]
                                 /\ l \in Nat \ {0} /\ m \in Msg
      /\ MSG_HDRLEN \in Nat
      BY <1>1, ReaderKnows
<1>4. l # 0 /\ Len(B) >= l BY <1>1 DEF HasMessage
<1>5. /\ B # <<>> /\ l = MsgLen(m) /\ B[1] = Stream(s)[1] /\ l \in Nat \ {0}
      /\ m \in Msg /\ l \in 0 .. Len(B)
  <2>1. Len(B) >= MSG_HDRLEN BY <1>3, <1>4
  <2>2. QED BY <1>3, <1>4, <2>1
<1> DEFINE Y == wire[s] \o Rest(remain[s])
<1>6. Y \in Seq(Byte) /\ Stream(s) = B \o Y BY <1>3, ConcatProperties DEF Stream
<1>7. \A j \in 1 .. l : Stream(s)[j] = <<m, j>>
  <2>1. Stream(s) # <<>> BY <1>3, <1>5, <1>6, ConcatEqualIffEmpty
  <2>2. QED BY <1>3, <1>5, <2>1, WholeFirst
<1> HIDE DEF B, l, m, Y
<1>8. X \in Seq(Byte) /\ Len(X) = l /\ C \in Seq(Byte) /\ X \o C = B BY <1>3, <1>5, Cut
<1> HIDE DEF X, C
<1>9. Bytes(m, 0 + 1, l) \in Seq(Byte) /\ Len(Bytes(m, 0 + 1, l)) = l - 0
      /\ \A j \in 1 .. l - 0 : Bytes(m, 0 + 1, l)[j] = <<m, 0 + j>>
  <2>1. 0 <= l /\ l \in Nat BY <1>5
  <2>2. QED BY <1>5, <2>1, BytesAre
<1>10. X = Bytes(m, 0 + 1, l)
  <2> DEFINE b == Bytes(m, 0 + 1, l)
  <2>1. b \in Seq(Byte) /\ Len(b) = l BY <1>5, <1>9
  <2>2. ASSUME NEW j \in 1 .. l PROVE X[j] = b[j]
    <3>1. j \in 1 .. Len(X) + Len(C) /\ j <= Len(X) /\ j \in 1 .. Len(B) + Len(Y) /\ j <= Len(B)
          /\ 0 + j = j /\ j \in 1 .. l - 0
          BY <1>3, <1>5, <1>6, <1>8, LenProperties
    <3>2. (X \o C)[j] = X[j] BY <1>8, <3>1, ConcatProperties
    <3>3. (B \o Y)[j] = B[j] BY <1>3, <1>6, <3>1, ConcatProperties
    <3>4. X[j] = <<m, j>> BY <1>6, <1>7, <1>8, <3>2, <3>3
    <3>5. b[j] = <<m, 0 + j>> BY <1>9, <3>1
    <3>6. QED BY <3>1, <3>4, <3>5
  <2> HIDE DEF b, Byte
  <2>3. X = b BY <1>8, <2>1, <2>2, SeqEqual
  <2>4. QED BY <2>3 DEF b
<1>11. Messages(X) = <<m>>
  <2>1. 0 < l /\ l <= l /\ l = MsgLen(m) /\ 0 \in Nat /\ l \in Nat BY <1>5 DEF l, m
  <2>2. m \in Msg /\ 0 < MsgLen(m) BY <1>5, <2>1
  <2>3. Messages(Bytes(m, 0 + 1, MsgLen(m))) = <<m>> BY <2>2, WholeMessage
  <2>4. QED BY <1>5, <1>10, <2>3
<1>12. recv_buf'[s] = C BY <1>1, <1>2 DEF C
<1> DEFINE o == <<m>>
           c == Messages(C)
           w == Messages(wire[s])
<1>13. /\ Messages(B) = o \o c /\ c \in Seq(Msg) /\ w \in Seq(Msg) /\ o \in Seq(Msg)
  <2>1. Messages(B) = o \o c /\ c \in Seq(Msg) BY <1>8, <1>11, MessagesJoin
  <2>2. w \in Seq(Msg) BY <1>3, MessagesJoin
  <2>3. o \in Seq(Msg)
    <3> HIDE DEF Msg
    <3>1. QED BY <1>5
  <2>4. QED BY <2>1, <2>2, <2>3
<1>14. Known /\ Known' BY KnownParts, PTL
<1>15. Pending(s) = o \o Pending(s)'
  <2> DEFINE u == Partly(s) \o sendQueue[s]
  <2>1. Partly(s)' \o sendQueue'[s] = u BY <1>1 DEF Partly
  <2>2. Arriving(s)' = c \o w
    <3>1. Arriving(s)' = Messages(recv_buf'[s]) \o Messages(wire'[s])
          BY DEF Arriving, Messages, Gather, EndOf, Byte, Msg, MsgLen
    <3>2. QED BY <1>1, <1>12, <3>1
  <2>3. Pending(s)' = (c \o w) \o u BY <1>14, <2>1, <2>2 DEF Known
  <2>4. Pending(s) = ((o \o c) \o w) \o u BY <1>13, <1>14 DEF Known, Arriving, B
  <2>5. u \in Seq(Msg) /\ c \o w \in Seq(Msg)
    <3>1. Partly(s) \in Seq(Msg) /\ sendQueue[s] \in Seq(Msg) BY <1>14 DEF Known
    <3> HIDE DEF Msg, c, w
    <3>2. u \in Seq(Msg) BY <3>1, ConcatProperties
    <3>3. c \o w \in Seq(Msg) BY <1>13, ConcatProperties
    <3>4. QED BY <3>2, <3>3
  <2> HIDE DEF o, c, w, u
  <2>6. (o \o c) \o w = o \o (c \o w) BY <1>13, MessagesJoined
  <2>7. (o \o (c \o w)) \o u = o \o ((c \o w) \o u) BY <1>13, <2>5, MessagesJoined
  <2>8. QED BY <2>3, <2>4, <2>6, <2>7
<1>16. \A t \in Sock : t # s => Kept(t)
  <2> SUFFICES ASSUME NEW t \in Sock, t # s PROVE Kept(t) OBVIOUS
  <2>1. recv_buf'[t] = recv_buf[t] BY <1>1, <1>2
  <2>2. CountOf(ringCmd, t)' = CountOf(ringCmd, t) BY <1>1 DEF CountOf
  <2>3. QED BY <1>1, <2>1, <2>2, DueKept
<1>17. Kept(s) \/ Due(s)' \in Moves(Due(s))
  <2> DEFINE n == CountOf(ringCmd, s)
             P == Pending(s)'
             r == ringPatch[s]
  <2>1. P \in Seq(Msg) /\ n \in Nat /\ r \in Seq(Nat \X Nat) BY <1>14 DEF Known
  <2>2. Due(s) = Owes(o \o P, r, n) BY <1>1, <1>15, DueIs
  <2>3. Due(s)' = Owes(P, r, n)
    <3>1. CountOf(ringCmd, s)' = n BY <1>1 DEF CountOf
    <3>2. open'[s] /\ ringPatch'[s] = r BY <1>1
    <3>3. QED BY <3>1, <3>2, DueIsNext
  <2> HIDE DEF n, P, r
  <2>4. Owes(P, r, n) = Owes(<<m>> \o P, r, n) \/ Owes(P, r, n) \in Moves(Owes(<<m>> \o P, r, n))
        BY <1>5, <2>1, Delivered
  <2>5. QED BY <2>2, <2>3, <2>4 DEF Kept
<1>18. QED BY <1>16, <1>17 DEF Change

LEMMA DiesDue == ASSUME SInv, SInv', NEW s \in Sock, RvDies(s) PROVE Change(s)
<1>1. /\ open' = [open EXCEPT ![s] = FALSE] /\ wire' = [wire EXCEPT ![s] = <<>>]
      /\ recv_buf' = [recv_buf EXCEPT ![s] = <<>>]
      /\ UNCHANGED <<ringCmd, ringPatch, sendQueue, remain>>
      BY DEF RvDies, queues
<1>2. /\ recv_buf \in [Sock -> Seq(Byte)] /\ wire \in [Sock -> Seq(Byte)]
      /\ open \in [Sock -> BOOLEAN]
      BY DEF SInv, Types
<1>3. \A t \in Sock : t # s => Kept(t)
  <2> SUFFICES ASSUME NEW t \in Sock, t # s PROVE Kept(t) OBVIOUS
  <2>1. recv_buf'[t] = recv_buf[t] /\ wire'[t] = wire[t] /\ open'[t] = open[t] BY <1>1, <1>2
  <2>2. CountOf(ringCmd, t)' = CountOf(ringCmd, t) BY <1>1 DEF CountOf
  <2>3. QED BY <1>1, <2>1, <2>2, DueKept
<1>4. Due(s)' = Gone
  <2>1. ~open'[s] BY <1>1, <1>2
  <2>2. QED BY <2>1, DueIsNext
<1>5. QED BY <1>3, <1>4, Leaves DEF Change

-----------------------------------------------------------------------------
(* Every step is one of PatchDelivery's.                                   *)

LEMMA RingsInit == Init => RingsOrdered
  BY DEF Init, RingsOrdered, Ordered

LEMMA RingsNext == SInv /\ RingsOrdered /\ [Next]_vars => RingsOrdered'
<1> SUFFICES ASSUME SInv, RingsOrdered, [Next]_vars PROVE RingsOrdered' OBVIOUS
<1>1. CASE UNCHANGED ringPatch BY <1>1 DEF RingsOrdered, Ordered
<1>2. ASSUME NEW s \in Sock, NEW r, ringPatch' = [ringPatch EXCEPT ![s] = r], Ordered(r)
      PROVE  RingsOrdered'
  <2>1. ringPatch \in [Sock -> Seq(Nat \X Nat)] BY DEF SInv, Types
  <2>2. ringPatch'[s] = r /\ \A t \in Sock : t # s => ringPatch'[t] = ringPatch[t] BY <1>2, <2>1
  <2>3. \A t \in Sock : Ordered(ringPatch'[t]) BY <1>2, <2>2 DEF RingsOrdered
  <2>4. QED BY <2>3 DEF RingsOrdered, Ordered
<1>3. CASE PtInsert
  <2>1. PICK s \in Sock : s = At BY <1>3, ThreadTypes DEF PtInsert, Visiting
  <2>2. /\ ringPatch[s] # <<>> /\ ringPatch[s][1][1] # ringPatch[s][1][2]
        /\ ringPatch' = [ringPatch EXCEPT ![s] = Advanced(ringPatch[s])]
        /\ ringPatch[s] \in Seq(Nat \X Nat) /\ Ordered(ringPatch[s])
        BY <1>3, <2>1 DEF PtInsert, NoPackets, RingsOrdered, SInv, Types
  <2>3. Ordered(Advanced(ringPatch[s])) BY <2>2, RingHead
  <2>4. QED BY <1>2, <2>2, <2>3
<1>4. CASE PtEmpty
  <2>1. PICK s \in Sock : s = At BY <1>4, ThreadTypes DEF PtEmpty, Visiting
  <2>2. /\ ringPatch[s] # <<>> /\ ringPatch[s][1][1] = ringPatch[s][1][2]
        /\ ringPatch' = [ringPatch EXCEPT ![s] = Tail(ringPatch[s])]
        /\ ringPatch[s] \in Seq(Nat \X Nat) /\ Ordered(ringPatch[s])
        BY <1>4, <2>1 DEF PtEmpty, NoPackets, RingsOrdered, SInv, Types
  <2>3. Ordered(Tail(ringPatch[s])) BY <2>2, RingHead
  <2>4. QED BY <1>2, <2>2, <2>3
<1>5. CASE RcRequest
  <2>1. PICK s \in Sock : s = At BY <1>5, ThreadTypes DEF RcRequest, Visiting
  <2>2. PICK q \in Requests[s] : ringPatch' = [ringPatch EXCEPT ![s] = ringPatch[s] \o q]
        BY <1>5, <2>1 DEF RcRequest
  <2> DEFINE r == ringPatch[s]
             E == Nat \X Nat
  <2>3. /\ r \in Seq(E) /\ q \in Seq(E) /\ Ordered(r) /\ Ordered(q)
        BY SocketAssumption DEF RingsOrdered, Ordered, SInv, Types
  <2> HIDE DEF r, E
  <2>4. /\ Len(r) \in Nat /\ Len(q) \in Nat /\ Len(r \o q) = Len(r) + Len(q)
        /\ \A i \in 1 .. Len(r) + Len(q) : (r \o q)[i] = IF i <= Len(r) THEN r[i] ELSE q[i - Len(r)]
        BY <2>3, ConcatProperties, LenProperties
  <2>5. Ordered(r \o q)
    <3>1. ASSUME NEW i \in 1 .. Len(r) + Len(q) PROVE (r \o q)[i][1] <= (r \o q)[i][2]
      <4>1. CASE i <= Len(r)
        <5>1. i \in 1 .. Len(r) BY <2>4, <4>1
        <5>2. QED BY <2>3, <2>4, <4>1, <5>1 DEF Ordered
      <4>2. CASE ~(i <= Len(r))
        <5>1. i - Len(r) \in 1 .. Len(q) BY <2>4, <4>2
        <5>2. QED BY <2>3, <2>4, <4>2, <5>1 DEF Ordered
      <4>3. QED BY <4>1, <4>2
    <3>2. QED BY <2>4, <3>1 DEF Ordered
  <2>6. QED BY <1>2, <2>2, <2>5 DEF r
<1>6. CASE ~(PtInsert \/ PtEmpty \/ RcRequest)
  <2>1. CASE Agent
        BY <1>1, <1>6, <2>1 DEF Agent, SsCommand, SsCommandsOver, PtRefused, PtOver, SsSelect,
           SmSend, SmReset, SmOver, RcPull, RcClosed, RcNothing, queues
  <2>2. ASSUME NEW s \in Sock, SsTell(s) \/ Reader(s) \/ RvDies(s) PROVE UNCHANGED ringPatch
        BY <2>2 DEF SsTell, Reader, RvRead, RvMessage, RvDies, queues
  <2>3. CASE UNCHANGED vars BY <1>1, <2>3 DEF vars, queues
  <2>4. QED BY <1>1, <2>1, <2>2, <2>3 DEF Next
<1>7. QED BY <1>3, <1>4, <1>5, <1>6

(* Whatever happens, the packets and notices due to at most one receiver   *)
(* change, and in one of the ways PatchDelivery names.                     *)
LEMMA StepDue ==
    ASSUME SInv, SInv', RingsOrdered, [Next]_vars
    PROVE  (\A t \in Sock : Kept(t)) \/ \E s \in Sock : Change(s)
<1>1. CASE Agent
  <2>1. CASE SsCommand BY <2>1, CommandDue
  <2>2. CASE PtInsert BY <2>2, InsertDue
  <2>3. CASE PtEmpty BY <2>3, EmptyDue
  <2>4. CASE SmSend BY <2>4, SendDue
  <2>5. CASE SmReset BY <2>5, ResetDue
  <2>6. CASE RcRequest BY <2>6, RequestDue
  <2>7. CASE RcPull BY <2>7, PullDue
  <2>8. CASE SsCommandsOver \/ PtRefused \/ PtOver \/ SsSelect \/ SmOver \/ RcClosed \/ RcNothing
    <3>1. UNCHANGED <<queues, wire, open, recver>>
          BY <2>8 DEF SsCommandsOver, PtRefused, PtOver, SsSelect, SmOver, RcClosed, RcNothing
    <3>2. QED BY <3>1, AllKept
  <2>9. QED BY <1>1, <2>1, <2>2, <2>3, <2>4, <2>5, <2>6, <2>7, <2>8 DEF Agent
<1>2. ASSUME NEW s \in Sock, SsTell(s) \/ Reader(s) \/ RvDies(s) PROVE Change(s)
  <2>1. CASE SsTell(s) BY <2>1, TellDue
  <2>2. CASE RvRead(s) BY <2>2, ReadDue
  <2>3. CASE RvMessage(s) BY <2>3, MessageDue
  <2>4. CASE RvDies(s) BY <2>4, DiesDue
  <2>5. QED BY <1>2, <2>1, <2>2, <2>3, <2>4 DEF Reader
<1>3. CASE UNCHANGED vars
  <2>1. UNCHANGED <<queues, wire, open, recver>> BY <1>3 DEF vars
  <2>2. QED BY <2>1, AllKept
<1>4. QED BY <1>1, <1>2, <1>3 DEF Next

Links == [s \in Sock |-> Due(s)]

LEMMA NothingDue == Init => Delivery!DInit
<1> SUFFICES ASSUME Init PROVE Delivery!DInit OBVIOUS
<1>1. ASSUME NEW s \in Sock PROVE Due(s) = Gone
  <2>1. /\ Messages(<<>>) = <<>> /\ Patches(<<>>) = <<>> /\ Packets(<<>>) = <<>>
    <3>1. Messages(<<>>) = <<>>
      <4> HIDE DEF Byte, Msg
      <4>1. EndOf \in [Byte -> Seq(Msg)] BY PartTypes
      <4>2. QED BY <4>1, GatherNone DEF Messages
    <3>2. Patches(<<>>) = <<>>
      <4> HIDE DEF Msg
      <4>1. PatchIn \in [Msg -> Seq(Nat)] BY PartTypes
      <4>2. QED BY <4>1, GatherNone DEF Patches
    <3>3. Packets(<<>>) = <<>>
      <4> DEFINE E == Nat \X Nat
      <4>1. PacketsOf \in [E -> Seq(Nat)] BY PartTypes
      <4> HIDE DEF E
      <4>2. QED BY <4>1, GatherNone DEF Packets
    <3>4. QED BY <3>1, <3>2, <3>3
  <2>2. recv_buf[s] = <<>> /\ wire[s] = <<>> /\ remain[s] = <<>> /\ sendQueue[s] = <<>>
        /\ ringPatch[s] = <<>> /\ ringCmd = <<>> /\ open[s]
        BY DEF Init
  <2>3. Pending(s) = <<>>
    <3>1. [i \in DOMAIN remain[s] |-> remain[s][i].msg] = <<>> BY <2>2
    <3>2. ((<<>> \o <<>>) \o <<>>) \o <<>> = <<>> OBVIOUS
    <3>3. QED BY <2>1, <2>2, <3>1, <3>2 DEF Pending
  <2>4. \A x : CountOf(<<>>, x) = 0
    <3> TAKE x
    <3>1. {i \in DOMAIN <<>> : <<>>[i] = x} = {} OBVIOUS
    <3>2. QED BY <3>1, FS_EmptySet DEF CountOf
  <2>5. Due(s) = Owes(<<>>, <<>>, 0) BY <2>2, <2>3, <2>4, DueIs
  <2>6. Owes(<<>>, <<>>, 0) = Gone
    <3>1. <<>> \o <<>> = <<>> OBVIOUS
    <3>2. \A k \in Notice : CountOf(<<>>, [type |-> k, seq |-> 0]) + (IF k = "FAST_DONE" THEN 0 ELSE 0) = 0
          BY <2>4
    <3>3. QED BY <2>1, <3>1, <3>2 DEF Owes, Gone
  <2>7. QED BY <2>5, <2>6
<1>2. QED BY <1>1 DEF Delivery!DInit, Delivery!NoNotice, Gone

(* DeliveryImplemented: however the send thread interleaves its receivers, *)
(* cuts messages into pieces (hero.c:499-553) and leaves tuples half       *)
(* queued (hero.c:1044-1110), the packets a connected receiver asked for   *)
(* come in the order of its requests, each once, and so do the notices.    *)
THEOREM DeliveryImplemented == Spec => DeliverySpec
<1>1. SInv /\ SInv' /\ RingsOrdered /\ [Next]_vars => [Delivery!DNext]_Links
  <2> SUFFICES ASSUME SInv, SInv', RingsOrdered, [Next]_vars, Links' # Links
               PROVE  Delivery!DNext
      OBVIOUS
  <2>1. Links' = [s \in Sock |-> Due(s)'] BY DEF Links
  <2>2. ~\A t \in Sock : Kept(t) BY <2>1 DEF Links, Kept
  <2>3. PICK s \in Sock : Change(s) BY <2>2, StepDue
  <2>4. ~Kept(s) /\ Due(s)' \in Moves(Due(s)) /\ \A t \in Sock \ {s} : Due(t)' = Due(t)
        BY <2>2, <2>3 DEF Change, Kept
  <2>5. Links[s] = Due(s) /\ Links'[s] = Due(s)' /\ \A t \in Sock \ {s} : Links'[t] = Links[t]
        BY <2>1, <2>4 DEF Links
  <2>6. QED BY <2>4, <2>5 DEF Delivery!DNext, Kept, Moves, Links
<1>2. SInv /\ [Next]_vars => SInv' BY SInvNext
<1>3. SInv /\ RingsOrdered /\ [Next]_vars => RingsOrdered' BY RingsNext
<1>4. QED BY <1>1, <1>2, <1>3, SInvInit, RingsInit, NothingDue, PTL
      DEF Spec, DeliverySpec, Delivery!DSpec, Links
=============================================================================
