-------------------------- MODULE RecverFile_proofs --------------------------
(***************************************************************************)
(* Proofs about the file of RecverState: for data of any size that fits    *)
(* the int of hero.c:155 (2 GiB), any pattern of losses and any            *)
(* interleaving of the two threads, a finished file read in the order of   *)
(* hero.h:104 is the data.                                                 *)
(*                                                                         *)
(* The argument is the invariant Layout, which says where every packet     *)
(* lies; it stands on RInv of RecverState_proofs.                          *)
(***************************************************************************)
EXTENDS RecverState_proofs

-----------------------------------------------------------------------------
(* Where the packets lie: in the file those from the first one on, and     *)
(* those before it behind them from Begin on; the packets behind the last  *)
(* one before a wrap that lost the zero packet in a buffer, which goes to  *)
(* the end.                                                                *)
Begin == IF recv.seq_tail # 0 THEN (recv.seq_tail - recv.seq_fst) * Payload + PktLen(recv.seq_tail)
         ELSE IF recv.seq_fst = 0 THEN 0 ELSE dataSize - recv.seq_fst * Payload
End == IF recv.seq_fst = 0 THEN dataSize ELSE Begin + recv.seq_fst * Payload
Buffered(s) == recv.seq_tail # 0 /\ s > recv.seq_tail
Place(s) == IF s < recv.seq_fst THEN Begin + s * Payload ELSE (s - recv.seq_fst) * Payload
InBuffer(s) == (s - recv.seq_tail - 1) * Payload

Layout ==
    /\ recv.start \in {-1, Begin}
    /\ recv.is_seq_fst =>
           recv.tell = IF recv.seq_lst < recv.seq_fst THEN Begin + (recv.seq_lst + 1) * Payload
                       ELSE (recv.seq_lst - recv.seq_fst) * Payload + PktLen(recv.seq_lst)
    /\ \A s \in SeqNums : recv.buf[s] # Unwritten => recv.buf[s] = InBuffer(s)
    /\ \A s \in SeqNums : recv.file[s] # Unwritten =>
           IF Buffered(s) THEN recv.is_finished /\ recv.file[s] = End + InBuffer(s)
           ELSE recv.file[s] = Place(s)
    /\ recv.is_finished => recv.jump = End

FInv == RInv /\ Layout

-----------------------------------------------------------------------------
(* Bytes.                                                                  *)

LEMMA Times ==
    ASSUME NEW P \in Nat \ {0}, NEW a \in Int, NEW b \in Int
    PROVE  /\ a * P \in Int /\ b * P \in Int
           /\ (a + b) * P = a * P + b * P /\ (a - b) * P = a * P - b * P
           /\ (a + 1) * P = a * P + P
           /\ a <= b => a * P <= b * P
           /\ a < b => a * P + P <= b * P
<1>1. P \in Int /\ P > 0 OBVIOUS
<1>2. /\ a * P \in Int /\ b * P \in Int
      /\ (a + b) * P = a * P + b * P /\ (a - b) * P = a * P - b * P
      /\ (a + 1) * P = a * P + P
      BY <1>1
<1>3. ASSUME NEW c \in Int, c >= 0 PROVE c * P >= 0
      BY <1>1, <1>3
<1>4. (b - a) * P = b * P - a * P BY <1>1
<1>5. a <= b => a * P <= b * P
  <2>1. a <= b => (b - a) * P >= 0 BY <1>3
  <2>2. QED BY <1>2, <1>4, <2>1
<1>6. a < b => a * P + P <= b * P
  <2>1. a < b => (b - a - 1) * P >= 0 BY <1>3
  <2>2. (b - a - 1) * P = b * P - a * P - P BY <1>1
  <2>3. QED BY <1>1, <1>2, <2>1, <2>2
<1>7. QED BY <1>2, <1>5, <1>6

LEMMA LenOf ==
    ASSUME dataSize \in Sizes, NEW s \in SeqNums
    PROVE  /\ PktLen(s) \in 1 .. Payload
           /\ s < NSeq - 1 => PktLen(s) = Payload
           /\ s * Payload \in Nat
           /\ s * Payload + PktLen(s) <= dataSize
           /\ s = NSeq - 1 => s * Payload + PktLen(s) = dataSize
<1>1. /\ NSeq \in Nat \ {0} /\ Payload \in Nat \ {0} /\ PayloadMin \in 1 .. Payload
      /\ dataSize = (NSeq - 1) * Payload + PayloadMin /\ s \in 0 .. (NSeq - 1)
      BY WholePackets
<1>2. PktLen(s) = IF s = NSeq - 1 THEN PayloadMin ELSE Payload BY DEF PktLen
<1>3. s * Payload \in Nat BY <1>1
<1>4. s < NSeq - 1 => s * Payload + Payload <= (NSeq - 1) * Payload BY <1>1, Times
<1> DEFINE m == (NSeq - 1) * Payload
           k == s * Payload
<1>5. m \in Int BY <1>1
<1>6. s = NSeq - 1 => k = m OBVIOUS
<1> HIDE DEF m, k
<1>7. s * Payload + PktLen(s) <= dataSize /\ (s = NSeq - 1 => s * Payload + PktLen(s) = dataSize)
  <2>1. k \in Nat /\ dataSize = m + PayloadMin /\ (s < NSeq - 1 => k + Payload <= m)
        BY <1>1, <1>3, <1>4 DEF m, k
  <2>2. k + PktLen(s) <= dataSize /\ (s = NSeq - 1 => k + PktLen(s) = dataSize)
        BY <1>1, <1>2, <1>5, <1>6, <2>1
  <2>3. QED BY <2>2 DEF k
<1>8. QED BY <1>1, <1>2, <1>3, <1>7

(* Where the packets before the first one begin.                           *)
LEMMA BeginIs ==
    ASSUME Types, Shape, recv.is_seq_fst
    PROVE  /\ Begin \in Nat /\ recv.seq_fst * Payload \in Nat
           /\ Begin + recv.seq_fst * Payload <= dataSize
           /\ recv.seq_tail # 0 => /\ recv.seq_fst < recv.seq_tail /\ recv.seq_fst # 0
                                   /\ Begin = recv.seq_tail * Payload - recv.seq_fst * Payload
                                                  + PktLen(recv.seq_tail)
           /\ recv.seq_tail = 0 /\ recv.seq_fst # 0 => Begin = dataSize - recv.seq_fst * Payload
           /\ recv.seq_fst = 0 => Begin = 0 /\ recv.seq_tail = 0
<1> DEFINE f == recv.seq_fst
           t == recv.seq_tail
           fp == f * Payload
           tp == t * Payload
<1>1. /\ dataSize \in Sizes /\ f \in SeqNums /\ t \in SeqNums /\ NSeq \in Nat \ {0}
      /\ Payload \in Nat \ {0} /\ dataSize \in Nat \ {0} /\ SeqNums = 0 .. (NSeq - 1)
      /\ recv.seq_lst \in SeqNums
      BY WholePackets DEF Types
<1>2. t # 0 => recv.seq_lst < f /\ f < t BY DEF Shape
<1>3. /\ fp \in Nat /\ fp + PktLen(f) <= dataSize /\ tp \in Nat /\ tp + PktLen(t) <= dataSize
      /\ PktLen(t) \in 1 .. Payload /\ PktLen(f) \in 1 .. Payload
      BY <1>1, LenOf
<1>4. (t - f) * Payload = tp - fp /\ (f < t => fp + Payload <= tp)
  <2>1. t \in Int /\ f \in Int BY <1>1
  <2>2. QED BY <1>1, <2>1, Times
<1>5. Begin = IF t # 0 THEN (tp - fp) + PktLen(t) ELSE IF f = 0 THEN 0 ELSE dataSize - fp
      BY <1>4 DEF Begin
<1>6. f = 0 => fp = 0 BY <1>1
<1> HIDE DEF f, t, fp, tp
<1>7. t # 0 => f # 0 BY <1>1, <1>2
<1>8. /\ Begin \in Nat /\ Begin + fp <= dataSize
      /\ t # 0 => f < t /\ f # 0 /\ Begin = tp - fp + PktLen(t)
      /\ t = 0 /\ f # 0 => Begin = dataSize - fp
      /\ f = 0 => Begin = 0 /\ t = 0
  <2>1. CASE t # 0 BY <1>1, <1>2, <1>3, <1>4, <1>5, <1>7, <2>1
  <2>2. CASE t = 0 /\ f # 0 BY <1>1, <1>3, <1>5, <2>2
  <2>3. CASE t = 0 /\ f = 0 BY <1>1, <1>3, <1>5, <1>6, <2>3
  <2>4. QED BY <2>1, <2>2, <2>3
<1>9. QED BY <1>3, <1>8 DEF f, t, fp, tp

-----------------------------------------------------------------------------
(* What leaves the file alone.                                             *)

LEMMA PlacesKept ==
    ASSUME dataSize' = dataSize, recv'.seq_fst = recv.seq_fst, recv'.seq_tail = recv.seq_tail
    PROVE  /\ Begin' = Begin /\ End' = End /\ SeqNums' = SeqNums
           /\ \A s : /\ PktLen(s)' = PktLen(s) /\ Place(s)' = Place(s)
                     /\ InBuffer(s)' = InBuffer(s) /\ (Buffered(s)' <=> Buffered(s))
<1>1. NSeq' = NSeq /\ PayloadMin' = PayloadMin /\ SeqNums' = SeqNums BY SameSize
<1>2. \A s : PktLen(s)' = PktLen(s) BY <1>1 DEF PktLen
<1>3. PktLen(recv.seq_tail)' = PktLen(recv.seq_tail) BY <1>1 DEF PktLen
<1>4. Begin' = Begin BY <1>3 DEF Begin
<1>5. End' = End BY <1>4 DEF End
<1>6. \A s : Place(s)' = Place(s) BY <1>4 DEF Place
<1>7. \A s : InBuffer(s)' = InBuffer(s) /\ (Buffered(s)' <=> Buffered(s)) BY DEF InBuffer, Buffered
<1>8. QED BY <1>1, <1>2, <1>4, <1>5, <1>6, <1>7

(* The layout behind a step that leaves the places where they are.         *)
LEMMA LayoutMoved ==
    ASSUME dataSize' = dataSize,
           recv'.seq_fst = recv.seq_fst, recv'.seq_tail = recv.seq_tail,
           recv'.start \in {-1, Begin},
           recv'.is_seq_fst =>
               recv'.tell = IF recv'.seq_lst < recv.seq_fst THEN Begin + (recv'.seq_lst + 1) * Payload
                            ELSE (recv'.seq_lst - recv.seq_fst) * Payload + PktLen(recv'.seq_lst),
           \A s \in SeqNums : recv'.buf[s] # Unwritten => recv'.buf[s] = InBuffer(s),
           \A s \in SeqNums : recv'.file[s] # Unwritten =>
               IF Buffered(s) THEN recv'.is_finished /\ recv'.file[s] = End + InBuffer(s)
               ELSE recv'.file[s] = Place(s),
           recv'.is_finished => recv'.jump = End
    PROVE  Layout'
<1>1. /\ Begin' = Begin /\ End' = End /\ SeqNums' = SeqNums
      /\ \A s : /\ PktLen(s)' = PktLen(s) /\ Place(s)' = Place(s)
                /\ InBuffer(s)' = InBuffer(s) /\ (Buffered(s)' <=> Buffered(s))
      BY PlacesKept
<1>2. PktLen(recv.seq_lst)' = PktLen(recv'.seq_lst)
  <2>1. NSeq' = NSeq /\ PayloadMin' = PayloadMin BY SameSize
  <2>2. QED BY <2>1 DEF PktLen
<1>3. recv'.is_seq_fst =>
          recv'.tell = IF recv'.seq_lst < recv'.seq_fst THEN Begin' + (recv'.seq_lst + 1) * Payload
                       ELSE (recv'.seq_lst - recv'.seq_fst) * Payload + PktLen(recv.seq_lst)'
      BY <1>1, <1>2
<1>4. \A s \in SeqNums : recv'.buf[s] # Unwritten => recv'.buf[s] = InBuffer(s)' BY <1>1
<1>5. \A s \in SeqNums : recv'.file[s] # Unwritten =>
          IF Buffered(s)' THEN recv'.is_finished /\ recv'.file[s] = End' + InBuffer(s)'
          ELSE recv'.file[s] = Place(s)'
      BY <1>1
<1>6. recv'.start \in {-1, Begin'} /\ (recv'.is_finished => recv'.jump = End') BY <1>1
<1>7. QED BY <1>1, <1>3, <1>4, <1>5, <1>6 DEF Layout

LEMMA LayoutKept ==
    ASSUME Layout, dataSize' = dataSize, recv'.start \in {-1, Begin},
           recv'.is_seq_fst = recv.is_seq_fst, recv'.seq_fst = recv.seq_fst,
           recv'.seq_lst = recv.seq_lst, recv'.seq_tail = recv.seq_tail, recv'.tell = recv.tell,
           recv'.file = recv.file, recv'.buf = recv.buf, recv'.is_finished = recv.is_finished,
           recv.is_finished => recv'.jump = recv.jump
    PROVE  Layout'
<1>1. /\ recv'.is_seq_fst =>
             recv'.tell = IF recv'.seq_lst < recv.seq_fst THEN Begin + (recv'.seq_lst + 1) * Payload
                          ELSE (recv'.seq_lst - recv.seq_fst) * Payload + PktLen(recv'.seq_lst)
      /\ \A s \in SeqNums : recv'.buf[s] # Unwritten => recv'.buf[s] = InBuffer(s)
      /\ \A s \in SeqNums : recv'.file[s] # Unwritten =>
             IF Buffered(s) THEN recv'.is_finished /\ recv'.file[s] = End + InBuffer(s)
             ELSE recv'.file[s] = Place(s)
      /\ recv'.is_finished => recv'.jump = End
      BY DEF Layout
<1>2. QED BY <1>1, LayoutMoved

(* Most steps write neither the file nor what tells its layout.            *)
LEMMA FileUntouched ==
    ASSUME FInv,
           \/ Sender \/ NetmapTake \/ NetmapTest \/ NetmapLast \/ NetmapNotify
           \/ RecvFirst \/ RecvZero \/ RecvAll \/ RecvJump \/ RecvPatched
           \/ RecvFastDone \/ RecvStopFastPath \/ RecvRequestRest \/ UNCHANGED vars
    PROVE  Layout'
<1>1. recv \in Recver /\ Layout BY DEF FInv, RInv, Types
<1>2. \/ dataSize' = dataSize /\ recv' = recv
      \/ \E l, p : dataSize' = dataSize /\ recv' = [recv EXCEPT !.lock = l, !.is_fastpath = p]
      \/ /\ dataSize' = dataSize /\ ~recv.is_finished
         /\ recv' = [recv EXCEPT !.is_fastpath = FALSE, !.jump = recv.tell]
  <2>1. CASE Sender
        BY <2>1 DEF Sender, Transmit, SenderFirstSeq, SenderPatchReq, SenderAllDone, SenderFastDone
  <2>2. CASE NetmapTake
    <3>1. /\ dataSize' = dataSize
          /\ recv' = [recv EXCEPT !.lock = ~StoreDelay, !.is_fastpath = recv.is_fastpath \/ ~recv.is_seq_fst]
          BY <2>2 DEF NetmapTake
    <3>2. QED BY <3>1
  <2>3. CASE NetmapTest \/ NetmapNotify
    <3>1. dataSize' = dataSize /\ (recv' = recv \/ recv' = [recv EXCEPT !.lock = FALSE])
          BY <2>3 DEF NetmapTest, NetmapNotify
    <3>2. [recv EXCEPT !.lock = FALSE] = [recv EXCEPT !.lock = FALSE, !.is_fastpath = recv.is_fastpath]
          BY <1>1 DEF Recver
    <3>3. CASE recv' = recv BY <3>1, <3>3
    <3>4. CASE recv' = [recv EXCEPT !.lock = FALSE]
      <4>1. dataSize' = dataSize /\ recv' = [recv EXCEPT !.lock = FALSE, !.is_fastpath = recv.is_fastpath]
            BY <3>1, <3>2, <3>4
      <4>2. QED BY <4>1, Zenon
    <3>5. QED BY <3>1, <3>3, <3>4
  <2>4. CASE NetmapLast BY <2>4 DEF NetmapLast
  <2>5. CASE RecvStopFastPath
    <3>1. dataSize' = dataSize /\ (recv' = recv \/ recv' = [recv EXCEPT !.is_fastpath = FALSE])
          BY <2>5 DEF RecvStopFastPath
    <3>2. [recv EXCEPT !.is_fastpath = FALSE] = [recv EXCEPT !.lock = recv.lock, !.is_fastpath = FALSE]
          BY <1>1 DEF Recver
    <3>3. CASE recv' = recv BY <3>1, <3>3
    <3>4. CASE recv' = [recv EXCEPT !.is_fastpath = FALSE]
      <4>1. dataSize' = dataSize /\ recv' = [recv EXCEPT !.lock = recv.lock, !.is_fastpath = FALSE]
            BY <3>1, <3>2, <3>4
      <4>2. QED BY <4>1, Zenon
    <3>5. QED BY <3>1, <3>3, <3>4
  <2>6. CASE RecvFirst \/ RecvZero \/ RecvAll \/ RecvJump \/ RecvPatched \/ RecvFastDone
             \/ RecvRequestRest \/ UNCHANGED vars
        BY <2>6 DEF RecvFirst, RecvZero, RecvAll, RecvJump, RecvPatched, RecvFastDone,
                    RecvRequestRest, vars
  <2>7. QED BY <2>1, <2>2, <2>3, <2>4, <2>5, <2>6
<1>3. /\ dataSize' = dataSize
      /\ recv'.is_seq_fst = recv.is_seq_fst /\ recv'.seq_fst = recv.seq_fst
      /\ recv'.seq_lst = recv.seq_lst /\ recv'.seq_tail = recv.seq_tail
      /\ recv'.start = recv.start /\ recv'.tell = recv.tell
      /\ recv'.file = recv.file /\ recv'.buf = recv.buf /\ recv'.is_finished = recv.is_finished
      /\ recv.is_finished => recv'.jump = recv.jump
      BY <1>1, <1>2 DEF Recver
<1>4. recv.start \in {-1, Begin} BY <1>1 DEF Layout
<1>5. QED BY <1>1, <1>3, <1>4, LayoutKept

-----------------------------------------------------------------------------
(* Metadata and patches.                                                   *)

(* recverState_updateBcdMetadata computes where the data begins; the       *)
(* product fits its width.                                                 *)
LEMMA StartIs ==
    ASSUME dataSize \in Sizes, dataSize <= Word, NEW r \in Recver, r.seq_fst \in SeqNums,
           r.seq_tail # 0 => r.start >= 0
    PROVE  UpdateBcdMetadata(r).start =
               IF r.is_seq_zero \/ r.start >= 0 THEN r.start
               ELSE IF r.seq_fst = 0 THEN 0 ELSE dataSize - r.seq_fst * Payload
<1> DEFINE len == Int32((NSeq - r.seq_tail - 2) * Payload + PayloadMin)
           tail == IF r.seq_tail > 0 /\ len > 0 THEN len ELSE 0
           gone == (Payload * r.seq_fst) % Word
           begin == (dataSize - gone - tail) % dataSize
           m == UpdateBcdMetadata(r)
<1>1. /\ NSeq \in Nat \ {0} /\ Payload \in Nat \ {0} /\ dataSize \in Nat \ {0}
      /\ r.seq_tail \in Nat /\ r.start \in Int /\ Word \in Nat \ {0} /\ SeqNums = 0 .. (NSeq - 1)
      BY WholePackets, RecverAssumption DEF Recver
<1>2. m = IF r.is_seq_zero THEN r
          ELSE [r EXCEPT !.seq_max = NSeq, !.tail_len = tail,
                         !.start = IF r.start < 0 THEN begin ELSE r.start,
                         !.jump = dataSize - tail, !.is_seq_zero = TRUE]
      BY DEF UpdateBcdMetadata
<1>3. m.start = IF r.is_seq_zero \/ ~(r.start < 0) THEN r.start ELSE begin
  <2> HIDE DEF begin, tail
  <2>1. QED BY <1>2 DEF Recver
<1>4. ASSUME r.start < 0 PROVE begin = IF r.seq_fst = 0 THEN 0 ELSE dataSize - r.seq_fst * Payload
  <2>1. r.seq_tail = 0 BY <1>1, <1>4
  <2>2. tail = 0 BY <2>1
  <2> DEFINE k == r.seq_fst * Payload
  <2>3. k \in Nat /\ k + PktLen(r.seq_fst) <= dataSize /\ PktLen(r.seq_fst) \in 1 .. Payload
        BY LenOf
  <2>4. Payload * r.seq_fst = k BY <1>1
  <2> HIDE DEF k
  <2>5. k < Word /\ k < dataSize /\ k \in 0 .. Word BY <1>1, <2>3
  <2>6. gone = k
    <3>1. k % Word = IF k = Word THEN 0 ELSE k BY <1>1, <2>5, Small
    <3>2. k # Word BY <1>1, <2>3, <2>5
    <3>3. QED BY <2>4, <3>1, <3>2
  <2>7. begin = (dataSize - k) % dataSize
    <3>1. begin = (dataSize - k - 0) % dataSize BY <2>2, <2>6
    <3>2. dataSize - k - 0 = dataSize - k BY <1>1, <2>3
    <3>3. QED BY <3>1, <3>2
  <2>8. dataSize - k \in 0 .. dataSize BY <1>1, <2>3, <2>5
  <2> DEFINE c == dataSize - k
  <2>9. c % dataSize = IF c = dataSize THEN 0 ELSE c
    <3> HIDE DEF c
    <3>1. c \in 0 .. dataSize BY <2>8 DEF c
    <3>2. QED BY <1>1, <3>1, Small
  <2>10. c = dataSize <=> k = 0 BY <1>1, <2>3
  <2>11. k = 0 <=> r.seq_fst = 0
    <3>1. r.seq_fst = 0 => k = 0 BY <1>1 DEF k
    <3>2. r.seq_fst # 0 => k # 0 BY <1>1 DEF k
    <3>3. QED BY <3>1, <3>2
  <2>12. QED BY <2>7, <2>9, <2>10, <2>11 DEF k
<1>5. QED BY <1>1, <1>3, <1>4

LEMMA StartStays ==
    ASSUME RInv, Layout, recv.is_seq_fst, dataSize <= Word
    PROVE  UpdateBcdMetadata(recv).start \in {-1, Begin}
<1> USE DEF RInv
<1>1. /\ dataSize \in Sizes /\ recv \in Recver /\ recv.seq_fst \in SeqNums
      /\ recv.start \in {-1, Begin} /\ recv.start \in Int
      BY DEF Types, Layout, Recver
<1>2. recv.seq_tail # 0 => recv.start >= 0 BY DEF Shape
<1>3. UpdateBcdMetadata(recv).start =
          IF recv.is_seq_zero \/ recv.start >= 0 THEN recv.start
          ELSE IF recv.seq_fst = 0 THEN 0 ELSE dataSize - recv.seq_fst * Payload
      BY <1>1, <1>2, StartIs
<1>4. Begin = IF recv.seq_fst = 0 THEN 0
              ELSE IF recv.seq_tail = 0 THEN dataSize - recv.seq_fst * Payload ELSE Begin
      BY BeginIs
<1>5. CASE recv.is_seq_zero \/ recv.start >= 0 BY <1>1, <1>3, <1>5
<1>6. CASE ~(recv.is_seq_zero \/ recv.start >= 0)
  <2>1. recv.seq_tail = 0 BY <1>2, <1>6
  <2>2. QED BY <1>3, <1>4, <1>6, <2>1
<1>7. QED BY <1>5, <1>6

-----------------------------------------------------------------------------
(* The netmap thread.                                                      *)

(* A refused packet may still bring the metadata.                          *)
LEMMA RefusedLayout ==
    ASSUME FInv, dataSize <= Word, NetmapAccept, Chosen = "error"
    PROVE  Layout'
<1> USE DEF FInv
<1>1. /\ nm.pc = "accept" /\ dataSize' = dataSize
      /\ recv' = [Accepted(Meta, Chosen, nm.seq) EXCEPT !.lock = TRUE]
      BY AcceptChanges
<1>2. recv' = [Meta EXCEPT !.lock = TRUE] BY <1>1 DEF Accepted
<1>3. recv.is_seq_fst BY <1>1, Guards
<1>4. Cur = recv BY <1>3 DEF Cur, GotFirst
<1>5. /\ Meta \in Recver /\ Meta.is_seq_fst
      /\ Meta.seq_fst = Cur.seq_fst /\ Meta.seq_lst = Cur.seq_lst
      /\ Meta.is_finished = recv.is_finished /\ Meta.seq_tail = recv.seq_tail
      /\ Meta.tell = recv.tell /\ Meta.file = recv.file /\ Meta.buf = recv.buf
      BY <1>1, MetaIs
<1>6. Meta.start \in {-1, Begin}
  <2>1. CASE nm.seq = 0
    <3>1. Meta = UpdateBcdMetadata(recv) BY <1>4, <2>1 DEF Meta
    <3>2. QED BY <1>3, <3>1, StartStays
  <2>2. CASE nm.seq # 0
    <3>1. Meta = recv BY <1>4, <2>2 DEF Meta
    <3>2. QED BY <3>1 DEF Layout
  <2>3. QED BY <2>1, <2>2
<1>7. /\ recv'.is_seq_fst = recv.is_seq_fst
      /\ recv'.seq_fst = recv.seq_fst /\ recv'.seq_lst = recv.seq_lst
      /\ recv'.is_finished = recv.is_finished /\ recv'.seq_tail = recv.seq_tail
      /\ recv'.tell = recv.tell /\ recv'.file = recv.file /\ recv'.buf = recv.buf
      /\ recv'.start = Meta.start
  <2>1. /\ recv'.is_seq_fst = Meta.is_seq_fst
        /\ recv'.seq_fst = Meta.seq_fst /\ recv'.seq_lst = Meta.seq_lst
        /\ recv'.is_finished = Meta.is_finished /\ recv'.seq_tail = Meta.seq_tail
        /\ recv'.tell = Meta.tell /\ recv'.file = Meta.file /\ recv'.buf = Meta.buf
        /\ recv'.start = Meta.start
        BY <1>2, <1>5 DEF Recver
  <2>2. Meta.is_seq_fst = recv.is_seq_fst
    <3>1. recv.is_seq_fst \in BOOLEAN /\ Meta.is_seq_fst \in BOOLEAN BY <1>5 DEF RInv, Types, Recver
    <3>2. QED BY <1>3, <1>5, <3>1
  <2>3. QED BY <1>4, <1>5, <2>1, <2>2
<1>8. ~recv.is_finished BY <1>1, NotYet
<1>9. QED BY <1>1, <1>6, <1>7, <1>8, LayoutKept

(* Where an accepted packet is written, but for the one that wraps.        *)
LEMMA PositionIs ==
    ASSUME FInv, nm.pc = "accept", recv.is_seq_fst, Chosen \notin {"error", "wrap"}
    PROVE  /\ recv.tell + Gap(Meta, Chosen, nm.seq) = Place(nm.seq) /\ ~Buffered(nm.seq)
           /\ Place(nm.seq) + PktLen(nm.seq) =
                  IF nm.seq < recv.seq_fst THEN Begin + (nm.seq + 1) * Payload
                  ELSE (nm.seq - recv.seq_fst) * Payload + PktLen(nm.seq)
<1> USE DEF FInv, RInv
<1> DEFINE s == nm.seq
           l == recv.seq_lst
           f == recv.seq_fst
           t == recv.seq_tail
           n == NSeq
           P == Payload
           B == Begin
           Size(x) == PktLen(x)
           g == Gap(Meta, Chosen, nm.seq)
<1>1. /\ dataSize \in Sizes /\ s \in SeqNums /\ l \in SeqNums /\ f \in SeqNums /\ t \in SeqNums
      /\ n \in Nat \ {0} /\ SeqNums = 0 .. (n - 1) /\ n < SEQNUM_MAX /\ SEQNUM_MAX \in Nat
      /\ P \in Nat \ {0} /\ PayloadMin \in 1 .. P /\ dataSize = (n - 1) * P + PayloadMin
      BY WholePackets DEF Types
<1>2. Cur.seq_lst = l /\ Cur.seq_fst = f /\ Meta.seq_lst = l BY FirstIs, MetaIs
<1>3. /\ Chosen \in {"next", "zero", "zero_loss", "forward"}
      /\ Chosen = "next" => s # 0 /\ s = l + 1
      /\ Chosen = "zero" => s = 0 /\ ~recv.is_seq_zero /\ l \in {n - 1, SEQNUM_MAX}
      /\ Chosen = "zero_loss" => s = 0 /\ l # n - 1 /\ l > f /\ f # 0
      /\ Chosen = "forward" => s # 0 /\ s > l + 1 /\ ((f > l /\ f > s) \/ l >= f)
      BY <1>2, Guards
<1>4. l + 1 # f BY NotYet DEF Complete
<1>5. /\ f = 0 => recv.is_seq_zero
      /\ t # 0 => l < f /\ f < t
      BY DEF Shape
<1>6. recv.tell = IF l < f THEN B + (l + 1) * P ELSE (l - f) * P + Size(l) BY DEF Layout
<1>7. B \in Nat /\ (t = 0 /\ f # 0 => B = dataSize - f * P) BY BeginIs
<1>8. \A x \in SeqNums : Size(x) = IF x = n - 1 THEN PayloadMin ELSE P BY DEF PktLen
<1>9. g = CASE Chosen = "zero_loss" -> (n - l - 2) * P + PayloadMin
            [] Chosen = "forward"   -> (s - l - 1) * P
            [] OTHER                -> 0
      BY <1>2, <1>3 DEF Gap
<1>10. /\ Place(s) = IF s < f THEN B + s * P ELSE (s - f) * P
       /\ Buffered(s) <=> t # 0 /\ s > t
       BY DEF Place, Buffered
<1>11. recv.tell \in Nat BY DEF Types, Recver
<1> DEFINE p == Place(s)
           q == recv.tell
           b == Buffered(s)
<1> SUFFICES /\ q + g = p /\ ~b
             /\ p + Size(s) = IF s < f THEN B + (s + 1) * P ELSE (s - f) * P + Size(s)
    OBVIOUS
<1> HIDE DEF s, l, f, t, n, P, B, Size, g, p, q, b
<1>12. P \in Int /\ l \in Int /\ s \in Int /\ f \in Int /\ n \in Int BY <1>1
<1>13. /\ (l + 1) * P = l * P + P /\ (s + 1) * P = s * P + P
       /\ (l - f) * P = l * P - f * P /\ (s - f) * P = s * P - f * P
       /\ (n - l - 2) * P = n * P - l * P - 2 * P /\ (s - l - 1) * P = s * P - l * P - P
       /\ (n - 1) * P = n * P - P
       BY <1>12
<1>14. p = IF s < f THEN B + s * P ELSE (s - f) * P BY <1>10 DEF p, f, t, P, B, s
<1>15. b <=> t # 0 /\ s > t BY <1>10 DEF b, s, t
<1>16. /\ q = IF l < f THEN B + (l + 1) * P ELSE (l - f) * P + Size(l)
       /\ q \in Nat
       BY <1>6, <1>11 DEF q
<1>17. p + Size(s) = IF s < f THEN B + (s + 1) * P ELSE (s - f) * P + Size(s)
  <2>1. CASE s < f
    <3>1. Size(s) = P BY <1>1, <1>8, <2>1
    <3> DEFINE sp == s * P
    <3>2. sp \in Int /\ (s + 1) * P = sp + P /\ p = B + sp BY <1>12, <1>13, <1>14, <2>1
    <3> HIDE DEF sp
    <3>3. QED BY <1>7, <1>12, <2>1, <3>1, <3>2
  <2>2. CASE ~(s < f) BY <1>14, <2>2
  <2>3. QED BY <2>1, <2>2
<1>18. ~b BY <1>1, <1>3, <1>5, <1>15
<1> DEFINE lp == l * P
           fp == f * P
           sp == s * P
           np == n * P
<1>19. lp \in Int /\ fp \in Int /\ sp \in Int /\ np \in Int BY <1>12
<1>20. q + g = p
  <2>1. CASE Chosen = "next"
    <3>1. g = 0 /\ s = l + 1 /\ s # f /\ sp = lp + P /\ Size(l) = P
          BY <1>1, <1>3, <1>4, <1>8, <1>9, <1>13, <2>1
    <3>2. q = IF l < f THEN B + (lp + P) ELSE (lp - fp) + P BY <1>13, <1>16, <3>1
    <3>3. p = IF s < f THEN B + sp ELSE sp - fp BY <1>13, <1>14
    <3>4. l < f <=> s < f BY <1>12, <3>1
    <3> HIDE DEF lp, fp, sp
    <3>5. QED BY <1>7, <1>12, <1>19, <3>1, <3>2, <3>3, <3>4
  <2>2. CASE Chosen = "zero"
    <3>1. g = 0 /\ s = 0 /\ l = n - 1 /\ f # 0 /\ t = 0 /\ lp = np - P /\ Size(l) = PayloadMin
      <4>1. s = 0 /\ l \in {n - 1, SEQNUM_MAX} /\ f # 0 BY <1>3, <1>5, <2>2
      <4>2. l = n - 1 BY <1>1, <4>1
      <4>3. g = 0 BY <1>9, <2>2
      <4>4. t = 0 BY <1>1, <1>5, <4>2
      <4>5. lp = (n - 1) * P BY <4>2
      <4>6. Size(l) = PayloadMin BY <1>1, <1>8, <4>2
      <4>7. QED BY <1>13, <4>1, <4>2, <4>3, <4>4, <4>5, <4>6
    <3>2. q = (lp - fp) + PayloadMin BY <1>1, <1>13, <1>16, <3>1
    <3>3. p = B + sp /\ sp = 0 BY <1>1, <1>12, <1>14, <3>1
    <3>4. B = (np - P) + PayloadMin - fp BY <1>1, <1>7, <1>13, <3>1
    <3>5. PayloadMin \in Int BY <1>1
    <3> HIDE DEF lp, fp, sp, np
    <3>6. QED BY <1>7, <1>12, <1>19, <3>1, <3>2, <3>3, <3>4, <3>5
  <2>3. CASE Chosen = "zero_loss"
    <3>1. s = 0 /\ ~(l < f) /\ f # 0 /\ t = 0 /\ Size(l) = P
          BY <1>1, <1>3, <1>5, <1>8, <2>3
    <3>2. q = (lp - fp) + P BY <1>13, <1>16, <3>1
    <3>3. p = B + sp /\ sp = 0 BY <1>1, <1>12, <1>14, <3>1
    <3>4. B = (np - P) + PayloadMin - fp BY <1>1, <1>7, <1>13, <3>1
    <3>5. PayloadMin \in Int BY <1>1
    <3>6. g = (np - lp - 2 * P) + PayloadMin BY <1>9, <1>13, <2>3
    <3> HIDE DEF lp, fp, sp, np
    <3>7. QED BY <1>7, <1>12, <1>19, <3>2, <3>3, <3>4, <3>5, <3>6
  <2>4. CASE Chosen = "forward"
    <3>1. g = sp - lp - P /\ (l < f <=> s < f) /\ Size(l) = P
      <4>1. s > l + 1 /\ ((f > l /\ f > s) \/ l >= f) BY <1>3, <2>4
      <4>2. g = sp - lp - P BY <1>9, <1>13, <2>4
      <4>3. l < f <=> s < f BY <1>1, <4>1
      <4>4. Size(l) = P BY <1>1, <1>8, <4>1
      <4>5. QED BY <4>2, <4>3, <4>4
    <3>2. q = IF l < f THEN B + (lp + P) ELSE (lp - fp) + P BY <1>13, <1>16, <3>1
    <3>3. p = IF s < f THEN B + sp ELSE sp - fp BY <1>13, <1>14
    <3> HIDE DEF lp, fp, sp
    <3>4. QED BY <1>7, <1>12, <1>19, <3>1, <3>2, <3>3
  <2>5. QED BY <1>3, <2>1, <2>2, <2>3, <2>4
<1>21. QED BY <1>17, <1>18, <1>20

LEMMA AcceptedLayout ==
    ASSUME FInv, dataSize <= Word, NetmapAccept, Chosen # "error",
           Chosen = "wrap" => WrapAssert(Cur) = "no"
    PROVE  Layout'
<1> USE DEF FInv, RInv
<1> DEFINE s == nm.seq
           g == Gap(Meta, Chosen, nm.seq)
           o == recv.tell + g
<1>1. /\ nm.pc = "accept" /\ dataSize' = dataSize
      /\ recv' = [Accepted(Meta, Chosen, nm.seq) EXCEPT !.lock = TRUE]
      BY AcceptChanges
<1>2. /\ recv'.is_finished = recv.is_finished /\ recv'.is_seq_fst
      /\ recv'.seq_fst = Cur.seq_fst /\ recv'.seq_lst = s
      /\ recv'.seq_tail = IF Chosen = "wrap" THEN Cur.seq_lst ELSE recv.seq_tail
      /\ recv'.start = IF Chosen = "wrap" THEN recv.tell ELSE Meta.start
      /\ recv'.buf = recv.buf /\ recv'.file = [recv.file EXCEPT ![s] = o]
      /\ recv'.tell = o + PktLen(s)
      BY <1>1, AcceptedIs
<1>3. ~recv.is_finished /\ ~RestRequested BY <1>1, NotYet
<1>4. /\ s \in SeqNums /\ recv \in Recver /\ recv.file \in [SeqNums -> Nat \union {Unwritten}]
      /\ dataSize \in Sizes /\ recv.tell \in Nat /\ g \in Nat
      BY <1>1, GapIs DEF Types, Recver
<1>5. recv'.file[s] = o /\ \A x \in SeqNums : x # s => recv'.file[x] = recv.file[x]
  <2> HIDE DEF o
  <2>1. QED BY <1>2, <1>4
<1> HIDE DEF g, o
<1>6. CASE ~recv.is_seq_fst
  <2>1. /\ Chosen \in {"next", "zero"} /\ Cur.seq_fst = s /\ recv.seq_tail = 0
        BY <1>1, <1>6, FirstIs, Guards
  <2>2. /\ recv.tell = 0 /\ recv.start = -1
        /\ \A x \in SeqNums : recv.file[x] = Unwritten /\ recv.buf[x] = Unwritten
    <3>1. recv = [NewRecver EXCEPT !.lock = recv.lock, !.is_fastpath = recv.is_fastpath]
          BY <1>6 DEF Fresh
    <3>2. /\ recv.tell = 0 /\ recv.start = -1
          /\ recv.file = [x \in SeqNums |-> Unwritten] /\ recv.buf = [x \in SeqNums |-> Unwritten]
          BY <3>1 DEF NewRecver
    <3>3. QED BY <3>2
  <2>3. g = 0 BY <2>1 DEF Gap, g
  <2>4. o = 0 BY <2>2, <2>3 DEF o
  <2>5. SeqNums' = SeqNums /\ NSeq' = NSeq /\ PayloadMin' = PayloadMin BY <1>1, SameSize
  <2>6. /\ recv'.seq_fst = s /\ recv'.seq_lst = s /\ recv'.seq_tail = 0
        BY <1>2, <2>1
  <2>7. PktLen(s) \in Nat /\ PktLen(recv.seq_lst)' = PktLen(s) /\ s \in Int /\ Payload \in Int
    <3>1. PktLen(s) \in 1 .. Payload /\ Payload \in Nat BY <1>4, LenOf, WholePackets
    <3>2. PktLen(recv.seq_lst)' = PktLen(s) BY <2>5, <2>6 DEF PktLen
    <3>3. s \in Int BY <1>4, WholePackets
    <3>4. QED BY <3>1, <3>2, <3>3
  <2>8. (s - s) * Payload = 0 /\ ~(s < s) BY <2>7
  <2>9. recv'.tell = IF recv'.seq_lst < recv'.seq_fst THEN Begin' + (recv'.seq_lst + 1) * Payload
                     ELSE (recv'.seq_lst - recv'.seq_fst) * Payload + PktLen(recv.seq_lst)'
    <3>1. recv'.tell = PktLen(s) BY <1>2, <2>4, <2>7
    <3>2. QED BY <2>6, <2>7, <2>8, <3>1
  <2>10. Begin' = IF s = 0 THEN 0 ELSE dataSize - s * Payload BY <1>1, <2>6 DEF Begin
  <2>11. recv'.start \in {-1, Begin'}
    <3>1. recv'.start = Meta.start BY <1>2, <2>1
    <3>2. Cur.start = -1 /\ Cur.seq_tail = 0 /\ ~Cur.is_seq_zero /\ Cur \in Recver
          BY <1>1, <1>6, <2>1, <2>2, FirstIs
    <3>3. CASE s = 0
      <4>1. Meta = UpdateBcdMetadata(Cur) BY <3>3 DEF Meta
      <4>2. UpdateBcdMetadata(Cur).start =
                IF Cur.is_seq_zero \/ Cur.start >= 0 THEN Cur.start
                ELSE IF Cur.seq_fst = 0 THEN 0 ELSE dataSize - Cur.seq_fst * Payload
            BY <1>4, <2>1, <3>2, StartIs
      <4>3. Meta.start = 0 BY <2>1, <3>2, <3>3, <4>1, <4>2
      <4>4. QED BY <2>10, <3>1, <3>3, <4>3
    <3>4. CASE s # 0
      <4>1. Meta = Cur BY <3>4 DEF Meta
      <4>2. QED BY <3>1, <3>2, <4>1
    <3>5. QED BY <3>3, <3>4
  <2>12. \A x \in SeqNums : recv'.buf[x] # Unwritten => recv'.buf[x] = InBuffer(x)' BY <1>2, <2>2
  <2>13. ASSUME NEW x \in SeqNums, recv'.file[x] # Unwritten
         PROVE  IF Buffered(x)' THEN recv'.is_finished /\ recv'.file[x] = End' + InBuffer(x)'
                ELSE recv'.file[x] = Place(x)'
    <3>1. x = s BY <1>5, <2>2, <2>13
    <3>2. ~Buffered(x)' BY <2>6 DEF Buffered
    <3>3. Place(x)' = 0
      <4>1. Place(x)' = IF x < recv'.seq_fst THEN Begin' + x * Payload
                        ELSE (x - recv'.seq_fst) * Payload
            BY DEF Place
      <4>2. QED BY <2>6, <2>8, <3>1, <4>1
    <3>4. QED BY <1>5, <2>4, <3>1, <3>2, <3>3
  <2>14. ~recv'.is_finished BY <1>2, <1>3
  <2>15. QED BY <2>5, <2>9, <2>11, <2>12, <2>13, <2>14 DEF Layout
<1>7. CASE recv.is_seq_fst /\ Chosen # "wrap"
  <2>1. Cur = recv BY <1>7 DEF Cur, GotFirst
  <2>2. Meta.start \in {-1, Begin}
    <3>1. CASE s = 0
      <4>1. Meta = UpdateBcdMetadata(recv) BY <2>1, <3>1 DEF Meta
      <4>2. QED BY <1>7, <4>1, StartStays
    <3>2. CASE s # 0
      <4>1. Meta = recv BY <2>1, <3>2 DEF Meta
      <4>2. QED BY <4>1 DEF Layout
    <3>3. QED BY <3>1, <3>2
  <2>3. recv'.seq_fst = recv.seq_fst /\ recv'.seq_tail = recv.seq_tail /\ recv'.start = Meta.start
        BY <1>2, <1>7, <2>1
  <2>4. /\ o = Place(s) /\ ~Buffered(s)
        /\ Place(s) + PktLen(s) =
               IF s < recv.seq_fst THEN Begin + (s + 1) * Payload
               ELSE (s - recv.seq_fst) * Payload + PktLen(s)
        BY <1>1, <1>7, PositionIs DEF o, g
  <2>5. \A x \in SeqNums : recv'.buf[x] # Unwritten => recv'.buf[x] = InBuffer(x)
        BY <1>2 DEF Layout
  <2>6. ASSUME NEW x \in SeqNums, recv'.file[x] # Unwritten
        PROVE  IF Buffered(x) THEN recv'.is_finished /\ recv'.file[x] = End + InBuffer(x)
               ELSE recv'.file[x] = Place(x)
    <3>1. CASE x = s BY <1>5, <2>4, <3>1
    <3>2. CASE x # s BY <1>2, <1>5, <2>6, <3>2 DEF Layout
    <3>3. QED BY <3>1, <3>2
  <2>7. ~recv'.is_finished BY <1>2, <1>3
  <2>8. recv'.tell = IF recv'.seq_lst < recv.seq_fst THEN Begin + (recv'.seq_lst + 1) * Payload
                     ELSE (recv'.seq_lst - recv.seq_fst) * Payload + PktLen(recv'.seq_lst)
        BY <1>2, <2>4
  <2>9. QED BY <1>1, <2>2, <2>3, <2>5, <2>6, <2>7, <2>8, LayoutMoved
<1>8. CASE recv.is_seq_fst /\ Chosen = "wrap"
  <2> DEFINE l == recv.seq_lst
             f == recv.seq_fst
             P == Payload
  <2>1. Cur.seq_fst = f /\ Cur.seq_lst = l BY <1>1, <1>8, FirstIs
  <2>2. /\ dataSize \in Sizes /\ l \in SeqNums /\ f \in SeqNums /\ NSeq \in Nat \ {0}
        /\ SeqNums = 0 .. (NSeq - 1) /\ P \in Nat \ {0}
        BY WholePackets DEF Types
  <2>3. s # 0 /\ s <= l /\ s < f /\ f < l BY <1>1, <1>8, <2>1, Guards
  <2>4. recv.seq_tail = 0 /\ ~recv.is_seq_zero
    <3>1. Cur.seq_tail = 0 /\ Cur.start = -1 BY <1>8 DEF WrapAssert
    <3>2. recv.seq_tail = 0 /\ recv.start = -1 BY <1>1, <3>1, FirstIs
    <3>3. recv.is_seq_zero => recv.start >= 0 BY DEF Shape
    <3>4. QED BY <3>2, <3>3
  <2>5. SeqNums' = SeqNums /\ NSeq' = NSeq /\ PayloadMin' = PayloadMin BY <1>1, SameSize
  <2>6. recv'.seq_fst = f /\ recv'.seq_tail = l /\ recv'.start = recv.tell
        BY <1>2, <1>8, <2>1
  <2>7. l # 0 BY <2>2, <2>3
  <2>8. \A x : PktLen(x)' = PktLen(x) BY <2>5 DEF PktLen
  <2>9. Begin' = (l - f) * P + PktLen(l)
    <3>1. PktLen(recv.seq_tail)' = PktLen(l) BY <2>5, <2>6 DEF PktLen
    <3>2. QED BY <2>6, <2>7, <3>1 DEF Begin
  <2>10. recv.tell = (l - f) * P + PktLen(l)
    <3>1. ~(l < f) BY <2>2, <2>3
    <3>2. QED BY <1>8, <3>1 DEF Layout
  <2>11. Begin' = recv.tell BY <2>9, <2>10
  <2>12. g = s * P BY <1>8 DEF Gap, g
  <2>13. recv'.tell = IF recv'.seq_lst < recv'.seq_fst THEN Begin' + (recv'.seq_lst + 1) * Payload
                      ELSE (recv'.seq_lst - recv'.seq_fst) * Payload + PktLen(recv.seq_lst)'
    <3> DEFINE sp == s * P
    <3>1. PktLen(s) = P BY <2>2, <2>3 DEF PktLen
    <3>2. (s + 1) * P = sp + P /\ sp \in Int BY <1>4, <2>2
    <3>3. recv'.tell = recv.tell + sp + P BY <1>2, <2>12, <3>1 DEF o
    <3> HIDE DEF sp
    <3>4. recv'.tell = recv.tell + (sp + P) BY <1>4, <2>2, <3>2, <3>3
    <3>5. recv'.tell = recv.tell + (s + 1) * P BY <3>2, <3>4
    <3>6. QED BY <1>2, <2>3, <2>6, <2>11, <3>5
  <2>14. \A x \in SeqNums : recv'.buf[x] = Unwritten
    <3>1. \A x \in SeqNums : recv.buf[x] # Unwritten => recv.seq_tail # 0 BY DEF Shape
    <3>2. QED BY <1>2, <2>4, <3>1
  <2>15. ASSUME NEW x \in SeqNums, recv'.file[x] # Unwritten
         PROVE  IF Buffered(x)' THEN recv'.is_finished /\ recv'.file[x] = End' + InBuffer(x)'
                ELSE recv'.file[x] = Place(x)'
    <3>1. Buffered(x)' <=> x > l BY <2>6, <2>7 DEF Buffered
    <3>2. Place(x)' = IF x < f THEN recv.tell + x * P ELSE (x - f) * P
          BY <2>6, <2>11 DEF Place
    <3>3. CASE x = s
      <4>1. ~Buffered(x)' BY <2>2, <2>3, <3>1, <3>3
      <4>2. Place(x)' = recv.tell + s * P BY <2>3, <3>2, <3>3
      <4>3. QED BY <1>5, <2>12, <3>3, <4>1, <4>2 DEF o
    <3>4. CASE x # s
      <4>1. recv.file[x] # Unwritten /\ recv'.file[x] = recv.file[x] BY <1>5, <2>15, <3>4
      <4>2. x \in Written(recv) BY <4>1, WrittenFinite
      <4>3. Written(recv) \subseteq Span(recv) BY <1>3, <1>8 DEF EveryLossRequested
      <4>4. Span(recv) = f .. l BY <2>2, <2>3 DEF Span
      <4>5. x \in f .. l BY <4>2, <4>3, <4>4
      <4>6. ~Buffered(x)' /\ ~(x < f) BY <2>2, <3>1, <4>5
      <4>7. ~Buffered(x) BY <2>4 DEF Buffered
      <4>8. recv.file[x] = Place(x) BY <4>1, <4>7 DEF Layout
      <4>9. Place(x) = (x - f) * P BY <4>6 DEF Place
      <4>10. QED BY <3>2, <4>1, <4>6, <4>8, <4>9
    <3>5. QED BY <3>3, <3>4
  <2>16. ~recv'.is_finished BY <1>2, <1>3
  <2>17. recv'.start \in {-1, Begin'} BY <2>6, <2>11
  <2>18. QED BY <2>5, <2>13, <2>14, <2>15, <2>16, <2>17 DEF Layout
<1>9. QED BY <1>6, <1>7, <1>8

-----------------------------------------------------------------------------
(* The recv thread.                                                        *)

(* A patch goes to the place of its packet.                                *)
LEMMA PatchLayout ==
    ASSUME FInv, dataSize <= Word, RecvPatch
    PROVE  Layout'
<1> USE DEF FInv, RInv
<1> DEFINE s == Head(patches)
           m == IF s = 0 THEN UpdateBcdMetadata(recv) ELSE recv
           o == (s - recv.seq_tail - 1) * Payload
           p == GetFilePosition(m, s)
<1>1. dataSize' = dataSize /\ patches # <<>> BY DEF RecvPatch
<1>2. /\ s \in SeqNums /\ recv.is_seq_fst /\ ~recv.is_finished
      /\ NeedsZero(s, recv.seq_fst, recv.seq_tail) => recv.is_seq_zero \/ s = 0
      BY <1>1, NextPatch
<1>3. /\ dataSize \in Sizes /\ 2 * dataSize <= Word /\ recv \in Recver /\ recv.seq_tail \in SeqNums
      /\ recv.seq_tail \in Nat /\ recv.seq_fst \in Nat /\ s \in Nat
      /\ recv.file \in [SeqNums -> Nat \union {Unwritten}]
      /\ recv.buf \in [SeqNums -> Nat \union {Unwritten}]
  <2>1. /\ dataSize \in Sizes /\ 2 * dataSize <= Word /\ recv \in Recver
        /\ recv.seq_tail \in SeqNums
        BY DEF Types
  <2>2. /\ recv.seq_tail \in Nat /\ recv.seq_fst \in Nat
        /\ recv.file \in [SeqNums -> Nat \union {Unwritten}]
        /\ recv.buf \in [SeqNums -> Nat \union {Unwritten}]
        BY <2>1 DEF Recver
  <2>3. s \in Nat
    <3> HIDE DEF s
    <3>1. QED BY <1>2, <2>1, WholePackets
  <2>4. QED BY <2>1, <2>2, <2>3
<1>4. \/ /\ recv.seq_tail > 0 /\ s > recv.seq_tail /\ o \in Nat
         /\ recv' = [recv EXCEPT !.buf[s] = o, !.num_slow = recv.num_slow + 1]
      \/ /\ ~(recv.seq_tail > 0 /\ s > recv.seq_tail) /\ p \in Nat
         /\ recv' = [m EXCEPT !.file[s] = p, !.num_slow = m.num_slow + 1]
      BY PatchStored
<1>5. /\ m \in Recver /\ m.is_finished = recv.is_finished /\ m.is_seq_fst = recv.is_seq_fst
      /\ m.seq_fst = recv.seq_fst /\ m.seq_lst = recv.seq_lst
      /\ m.seq_tail = recv.seq_tail /\ m.tell = recv.tell /\ m.file = recv.file /\ m.buf = recv.buf
      /\ m.start \in {-1, Begin}
      /\ recv.is_seq_zero \/ recv.seq_tail # 0 \/ s = 0 => m.start >= 0
  <2>1. CASE s = 0
    <3>1. recv.is_seq_zero => recv.seq_max = NSeq /\ recv.start >= 0 BY DEF Shape
    <3>2. /\ UpdateBcdMetadata(recv) \in Recver /\ UpdateBcdMetadata(recv).start >= 0
          /\ UpdateBcdMetadata(recv).is_finished = recv.is_finished
          /\ UpdateBcdMetadata(recv).is_seq_fst = recv.is_seq_fst
          /\ UpdateBcdMetadata(recv).seq_fst = recv.seq_fst
          /\ UpdateBcdMetadata(recv).seq_lst = recv.seq_lst
          /\ UpdateBcdMetadata(recv).seq_tail = recv.seq_tail
          /\ UpdateBcdMetadata(recv).tell = recv.tell
          /\ UpdateBcdMetadata(recv).file = recv.file /\ UpdateBcdMetadata(recv).buf = recv.buf
          BY <1>3, <3>1, MetadataIs
    <3>3. UpdateBcdMetadata(recv).start \in {-1, Begin} BY <1>2, StartStays
    <3>4. m = UpdateBcdMetadata(recv) BY <2>1
    <3> HIDE DEF m
    <3>5. QED BY <2>1, <3>2, <3>3, <3>4
  <2>2. CASE s # 0
    <3>1. m = recv BY <2>2
    <3>2. recv.is_seq_zero \/ recv.seq_tail # 0 => recv.start >= 0 BY DEF Shape
    <3>3. recv.start \in {-1, Begin} BY DEF Layout
    <3> HIDE DEF m
    <3>4. QED BY <1>3, <2>2, <3>1, <3>2, <3>3
  <2>3. QED BY <2>1, <2>2
<1>6. Begin \in Nat BY <1>2, BeginIs
<1>7. CASE recv.seq_tail > 0 /\ s > recv.seq_tail
  <2> DEFINE w == [recv.buf EXCEPT ![s] = o]
  <2>1. recv' = [recv EXCEPT !.buf = w, !.num_slow = recv.num_slow + 1] BY <1>4, <1>7
  <2>2. w[s] = o /\ \A x \in SeqNums : x # s => w[x] = recv.buf[x]
    <3> HIDE DEF o
    <3>1. QED BY <1>2, <1>3
  <2> HIDE DEF w
  <2>3. /\ recv'.is_finished = recv.is_finished /\ recv'.is_seq_fst = recv.is_seq_fst
        /\ recv'.seq_fst = recv.seq_fst /\ recv'.seq_lst = recv.seq_lst
        /\ recv'.seq_tail = recv.seq_tail /\ recv'.tell = recv.tell
        /\ recv'.file = recv.file /\ recv'.buf = w /\ recv'.start = recv.start
        BY <1>3, <2>1 DEF Recver
  <2>4. o = InBuffer(s) BY DEF InBuffer
  <2>5. \A x \in SeqNums : recv'.buf[x] # Unwritten => recv'.buf[x] = InBuffer(x)
        BY <2>2, <2>3, <2>4 DEF Layout
  <2>6. /\ recv'.start \in {-1, Begin} /\ ~recv'.is_finished
        /\ recv'.is_seq_fst =>
               recv'.tell = IF recv'.seq_lst < recv.seq_fst THEN Begin + (recv'.seq_lst + 1) * Payload
                            ELSE (recv'.seq_lst - recv.seq_fst) * Payload + PktLen(recv'.seq_lst)
        /\ \A x \in SeqNums : recv'.file[x] # Unwritten =>
               IF Buffered(x) THEN recv'.is_finished /\ recv'.file[x] = End + InBuffer(x)
               ELSE recv'.file[x] = Place(x)
        BY <1>2, <2>3 DEF Layout
  <2>7. QED BY <1>1, <2>3, <2>5, <2>6, LayoutMoved
<1>8. CASE ~(recv.seq_tail > 0 /\ s > recv.seq_tail)
  <2> DEFINE w == [recv.file EXCEPT ![s] = p]
  <2>1. recv' = [m EXCEPT !.file = w, !.num_slow = m.num_slow + 1] BY <1>4, <1>5, <1>8
  <2>2. w[s] = p /\ \A x \in SeqNums : x # s => w[x] = recv.file[x]
    <3> HIDE DEF p
    <3>1. QED BY <1>2, <1>3
  <2> HIDE DEF w, m
  <2>3. /\ recv'.is_finished = m.is_finished /\ recv'.is_seq_fst = m.is_seq_fst
        /\ recv'.seq_fst = m.seq_fst /\ recv'.seq_lst = m.seq_lst
        /\ recv'.seq_tail = m.seq_tail /\ recv'.tell = m.tell
        /\ recv'.file = w /\ recv'.buf = m.buf /\ recv'.start = m.start
        BY <1>5, <2>1 DEF Recver
  <2>4. ~Buffered(s) BY <1>3, <1>8 DEF Buffered
  <2>5. p = IF s < recv.seq_fst THEN m.start + s * Payload ELSE (s - recv.seq_fst) * Payload
    <3> HIDE DEF s
    <3>1. QED BY <1>5, <1>8 DEF GetFilePosition, p
  <2>6. s < recv.seq_fst => m.start = Begin
    <3>1. s < recv.seq_fst => recv.is_seq_zero \/ recv.seq_tail # 0 \/ s = 0
          BY <1>2 DEF NeedsZero
    <3>2. QED BY <1>5, <1>6, <3>1
  <2>7. p = Place(s) BY <2>5, <2>6 DEF Place
  <2>8. ASSUME NEW x \in SeqNums, recv'.file[x] # Unwritten
        PROVE  IF Buffered(x) THEN recv'.is_finished /\ recv'.file[x] = End + InBuffer(x)
               ELSE recv'.file[x] = Place(x)
    <3>1. CASE x = s BY <2>2, <2>3, <2>4, <2>7, <3>1
    <3>2. CASE x # s BY <1>5, <2>2, <2>3, <2>8, <3>2 DEF Layout
    <3>3. QED BY <3>1, <3>2
  <2>9. /\ recv'.start \in {-1, Begin} /\ ~recv'.is_finished
        /\ recv'.is_seq_fst =>
               recv'.tell = IF recv'.seq_lst < recv.seq_fst THEN Begin + (recv'.seq_lst + 1) * Payload
                            ELSE (recv'.seq_lst - recv.seq_fst) * Payload + PktLen(recv'.seq_lst)
        /\ \A x \in SeqNums : recv'.buf[x] # Unwritten => recv'.buf[x] = InBuffer(x)
        BY <1>2, <1>5, <2>3 DEF Layout
  <2>10. QED BY <1>1, <1>5, <2>3, <2>8, <2>9, LayoutMoved
<1>9. QED BY <1>7, <1>8

-----------------------------------------------------------------------------
(* The end of the file.                                                    *)

LEMMA Extents ==
    ASSUME Types, Shape, recv.is_seq_fst
    PROVE  /\ End \in Nat /\ Begin <= End /\ End <= dataSize
           /\ recv.seq_fst # 0 => End - Begin = recv.seq_fst * Payload
           /\ \A x \in SeqNums : ~Buffered(x) =>
                  /\ Place(x) \in Nat /\ Place(x) + PktLen(x) <= End
                  /\ recv.seq_fst # 0 /\ x >= recv.seq_fst => Place(x) + PktLen(x) <= Begin
           /\ \E x \in SeqNums : ~Buffered(x) /\ Place(x) + PktLen(x) = End
           /\ \A x \in SeqNums : Buffered(x) => InBuffer(x) \in Nat /\ End + InBuffer(x) = x * Payload
<1> DEFINE f == recv.seq_fst
           t == recv.seq_tail
           n == NSeq
           P == Payload
           B == Begin
           Size(x) == PktLen(x)
           D == dataSize
<1>1. /\ D \in Sizes /\ f \in SeqNums /\ t \in SeqNums /\ n \in Nat \ {0}
      /\ P \in Nat \ {0} /\ D \in Nat \ {0} /\ SeqNums = 0 .. (n - 1)
      BY WholePackets DEF Types
<1>2. /\ B \in Nat /\ f * P \in Nat
      /\ B + f * P <= D
      /\ t # 0 => f < t /\ f # 0 /\ B = t * P - f * P + Size(t)
      /\ t = 0 /\ f # 0 => B = D - f * P
      /\ f = 0 => B = 0 /\ t = 0
      BY BeginIs
<1>3. \A x \in SeqNums : /\ Size(x) \in 1 .. P /\ (x < n - 1 => Size(x) = P) /\ x * P \in Nat
                         /\ x * P + Size(x) <= D /\ (x = n - 1 => x * P + Size(x) = D)
      BY <1>1, LenOf
<1>4. /\ End = IF f = 0 THEN D ELSE B + f * P
      /\ \A x : Place(x) = IF x < f THEN B + x * P ELSE (x - f) * P
      /\ \A x : Buffered(x) <=> t # 0 /\ x > t
      /\ \A x : InBuffer(x) = (x - t - 1) * P
      BY DEF End, Place, Buffered, InBuffer
<1> HIDE DEF f, t, n, P, B, Size, D
<1> DEFINE fp == f * P
           tp == t * P
<1>5. f \in Int /\ t \in Int /\ n \in Int /\ P \in Int BY <1>1
<1>6. fp \in Nat /\ tp \in Nat BY <1>1, <1>3
<1>7. f = 0 => fp = 0 BY <1>5
<1>8. End = (IF f = 0 THEN D ELSE B + fp) /\ B + fp <= D BY <1>2, <1>4
<1>9. t # 0 => B = tp - fp + Size(t) BY <1>2
<1>10. t = 0 /\ f # 0 => B = D - fp BY <1>2
<1>11. Size(t) \in 1 .. P BY <1>1, <1>3
<1>12. End \in Nat /\ B <= End /\ End <= D
  <2> HIDE DEF fp, tp
  <2>1. QED BY <1>1, <1>2, <1>6, <1>8
<1>13. f # 0 => End - B = fp
  <2> HIDE DEF fp, tp
  <2>1. QED BY <1>1, <1>2, <1>6, <1>8
<1>14. ASSUME NEW x \in SeqNums, ~Buffered(x)
       PROVE  /\ Place(x) \in Nat /\ Place(x) + Size(x) <= End
              /\ f # 0 /\ x >= f => Place(x) + Size(x) <= B
  <2> DEFINE xp == x * P
             p == Place(x)
             k == Size(x)
  <2>1. /\ x \in Int /\ xp \in Nat /\ k \in 1 .. P /\ (x < n - 1 => k = P)
        /\ xp + k <= D
        BY <1>1, <1>3, <1>14
  <2>2. (x - f) * P = xp - fp BY <1>5, <2>1
  <2>3. p = IF x < f THEN B + xp ELSE xp - fp BY <1>4, <2>2
  <2>4. x < f => xp + P <= fp BY <1>1, <1>5, <2>1, Times
  <2>5. ~(x < f) => fp <= xp BY <1>1, <1>5, <2>1, Times
  <2>6. x < t => xp + P <= tp BY <1>1, <1>5, <2>1, Times
  <2>7. t # 0 => x <= t BY <1>1, <1>4, <1>14, <2>1
  <2>8. x = t => xp = tp /\ k = Size(t) OBVIOUS
  <2> HIDE DEF xp, fp, tp, p, k
  <2>9. CASE x < f
    <3>1. p = B + xp /\ End = B + fp /\ xp + P <= fp BY <1>1, <1>8, <2>1, <2>3, <2>4, <2>9
    <3>2. p \in Nat /\ p + k <= End BY <1>1, <1>2, <1>6, <2>1, <3>1
    <3>3. QED BY <1>5, <2>1, <2>9, <3>2 DEF p, k
  <2>10. CASE ~(x < f)
    <3>1. p = xp - fp /\ p \in Nat BY <1>6, <2>1, <2>3, <2>5, <2>10
    <3>2. CASE t # 0
      <4>1. xp + k <= tp + Size(t)
        <5>1. CASE x = t BY <1>6, <1>11, <2>8, <5>1
        <5>2. CASE x < t BY <1>1, <1>6, <1>11, <2>1, <2>6, <5>2
        <5>3. QED BY <1>5, <2>1, <2>7, <3>2, <5>1, <5>2
      <4>2. B = tp - fp + Size(t) BY <1>9, <3>2
      <4>3. p + k <= B BY <1>2, <1>6, <1>11, <2>1, <3>1, <4>1, <4>2
      <4>4. p + k <= End BY <1>2, <1>12, <2>1, <3>1, <4>3
      <4>5. QED BY <3>1, <4>3, <4>4 DEF p, k
    <3>3. CASE t = 0 /\ f # 0
      <4>1. p + k <= B BY <1>1, <1>2, <1>6, <1>10, <2>1, <3>1, <3>3
      <4>2. p + k <= End BY <1>2, <1>12, <2>1, <3>1, <4>1
      <4>3. QED BY <3>1, <4>1, <4>2 DEF p, k
    <3>4. CASE f = 0
      <4>1. p + k <= End BY <1>1, <1>6, <1>7, <1>8, <2>1, <3>1, <3>4
      <4>2. QED BY <3>1, <3>4, <4>1 DEF p, k
    <3>5. QED BY <3>2, <3>3, <3>4
  <2>11. QED BY <2>9, <2>10
<1>15. \E x \in SeqNums : ~Buffered(x) /\ Place(x) + Size(x) = End
  <2>1. CASE f = 0
    <3> DEFINE x == n - 1
    <3>1. x \in SeqNums /\ ~(x < f) /\ ~Buffered(x) BY <1>1, <1>2, <1>4, <2>1
    <3>2. x * P + Size(x) = D BY <1>3, <3>1
    <3>3. (x - f) * P = x * P BY <1>1, <2>1
    <3> HIDE DEF x
    <3>4. Place(x) + Size(x) = End BY <1>4, <2>1, <3>1, <3>2, <3>3
    <3>5. QED BY <3>1, <3>4
  <2>2. CASE f # 0
    <3> DEFINE x == f - 1
    <3>1. x \in SeqNums /\ x < f /\ x < n - 1 BY <1>1, <2>2
    <3>2. ~Buffered(x) BY <1>1, <1>2, <1>4, <3>1
    <3>3. Size(x) = P BY <1>3, <3>1
    <3>4. x * P = fp - P BY <1>5
    <3> HIDE DEF x
    <3>5. Place(x) = B + (fp - P) BY <1>4, <3>1, <3>4
    <3> HIDE DEF fp
    <3>6. Place(x) + Size(x) = End BY <1>1, <1>2, <1>6, <1>8, <2>2, <3>3, <3>5
    <3>7. QED BY <3>1, <3>2, <3>6
  <2>3. QED BY <2>1, <2>2
<1>16. ASSUME NEW x \in SeqNums, Buffered(x)
       PROVE  InBuffer(x) \in Nat /\ End + InBuffer(x) = x * P
  <2>1. x \in Int /\ t # 0 /\ x > t /\ f # 0 BY <1>1, <1>2, <1>4, <1>16
  <2>2. Size(t) = P BY <1>1, <1>3, <1>16, <2>1
  <2> DEFINE xp == x * P
  <2>3. (x - t - 1) * P = xp - tp - P BY <1>5, <2>1
  <2>4. tp + P <= xp BY <1>1, <1>5, <2>1, Times
  <2>5. InBuffer(x) = xp - tp - P BY <1>4, <2>3
  <2>6. xp \in Int BY <1>5, <2>1
  <2> HIDE DEF xp, tp, fp
  <2>7. InBuffer(x) \in Nat BY <1>1, <1>6, <2>4, <2>5, <2>6
  <2>8. End = B + fp BY <1>8, <2>1
  <2>9. End + InBuffer(x) = xp BY <1>1, <1>2, <1>6, <1>9, <2>1, <2>2, <2>5, <2>6, <2>8
  <2>10. QED BY <2>7, <2>9 DEF xp
<1>17. QED BY <1>12, <1>13, <1>14, <1>15, <1>16 DEF f, P, Size, B, D

LEMMA FileEndIs ==
    ASSUME RInv, Layout, Written(recv) = SeqNums, ~recv.is_finished
    PROVE  /\ FileEnd(recv) = End /\ recv.is_seq_fst
           /\ \A s \in SeqNums : IF Buffered(s)
                                 THEN recv.buf[s] = InBuffer(s) /\ recv.buf[s] # Unwritten
                                 ELSE recv.buf[s] = Unwritten /\ recv.file[s] = Place(s)
<1> USE DEF RInv
<1>1. recv.is_seq_fst BY FinishedIsComplete
<1>2. ASSUME NEW s \in SeqNums
      PROVE  IF Buffered(s)
             THEN recv.buf[s] = InBuffer(s) /\ recv.buf[s] # Unwritten /\ recv.file[s] = Unwritten
             ELSE recv.buf[s] = Unwritten /\ recv.file[s] = Place(s) /\ recv.file[s] # Unwritten
  <2>1. recv.file[s] # Unwritten \/ recv.buf[s] # Unwritten BY WrittenFinite
  <2>2. recv.buf[s] # Unwritten => Buffered(s) /\ recv.buf[s] = InBuffer(s) BY DEF Shape, Buffered, Layout
  <2>3. recv.file[s] # Unwritten => ~Buffered(s) /\ recv.file[s] = Place(s) BY DEF Layout
  <2>4. QED BY <2>1, <2>2, <2>3
<1> DEFINE U == {t \in SeqNums : recv.file[t] # Unwritten}
           e(x) == recv.file[x] + PktLen(x)
           ends == {e(x) : x \in U}
<1>3. FileEnd(recv) = IF ends = {} THEN 0 ELSE CHOOSE x \in ends : \A y \in ends : y <= x
      BY DEF FileEnd
<1>4. /\ End \in Nat
      /\ \A x \in SeqNums : ~Buffered(x) => Place(x) \in Nat /\ Place(x) + PktLen(x) <= End
      /\ \E x \in SeqNums : ~Buffered(x) /\ Place(x) + PktLen(x) = End
      BY <1>1, Extents
<1>5. \A x \in U : ~Buffered(x) /\ e(x) = Place(x) + PktLen(x) /\ x \in SeqNums BY <1>2
<1>6. \A x \in SeqNums : ~Buffered(x) => x \in U BY <1>2
<1>7. \A x \in SeqNums : PktLen(x) \in Nat
  <2>1. dataSize \in Sizes BY DEF Types
  <2>2. \A x \in SeqNums : PktLen(x) \in 1 .. Payload BY <2>1, LenOf
  <2>3. Payload \in Nat BY RecverAssumption
  <2>4. QED BY <2>2, <2>3
<1> HIDE DEF U, e
<1>8. ends \subseteq Nat /\ \A y \in ends : y <= End
  <2>1. \A x \in U : e(x) \in Nat /\ e(x) <= End BY <1>4, <1>5, <1>7
  <2>2. QED BY <2>1
<1>9. End \in ends
  <2>1. PICK x \in SeqNums : ~Buffered(x) /\ Place(x) + PktLen(x) = End BY <1>4
  <2>2. x \in U BY <1>6, <2>1
  <2>3. e(x) = End BY <1>5, <2>1, <2>2
  <2>4. QED BY <2>2, <2>3
<1> HIDE DEF ends
<1> DEFINE c == CHOOSE x \in ends : \A y \in ends : y <= x
<1>10. c \in ends /\ \A y \in ends : y <= c BY <1>8, <1>9
<1> HIDE DEF c
<1>11. End <= c /\ c <= End /\ c \in Nat BY <1>8, <1>9, <1>10
<1>12. c = End BY <1>4, <1>11
<1>13. FileEnd(recv) = End BY <1>3, <1>9, <1>12 DEF c
<1>14. QED BY <1>1, <1>2, <1>13

(* recverState_finishRecv puts the buffer behind the file.                 *)
LEMMA FinishLayout ==
    ASSUME FInv, Finish, Written(recv) = SeqNums, dataSize' = dataSize
    PROVE  Layout'
<1> USE DEF FInv, RInv
<1>1. CASE ~recv.is_finished
  <2> DEFINE end == FileEnd(recv)
             file == [s \in SeqNums |-> IF recv.tail_len > 0 /\ recv.buf[s] # Unwritten
                                        THEN end + recv.buf[s] ELSE recv.file[s]]
  <2>1. recv' = [recv EXCEPT !.jump = end, !.is_finished = TRUE, !.file = file]
        BY <1>1 DEF Finish, FinishRecv
  <2>2. /\ end = End /\ recv.is_seq_fst
        /\ \A s \in SeqNums : IF Buffered(s)
                              THEN recv.buf[s] = InBuffer(s) /\ recv.buf[s] # Unwritten
                              ELSE recv.buf[s] = Unwritten /\ recv.file[s] = Place(s)
        BY <1>1, FileEndIs
  <2>3. \A s \in SeqNums : recv.buf[s] # Unwritten => recv.tail_len > 0 BY BufferHasLength
  <2>4. \A s \in SeqNums : file[s] = IF Buffered(s) THEN End + InBuffer(s) ELSE Place(s)
    <3> HIDE DEF end
    <3>1. QED BY <2>2, <2>3
  <2> HIDE DEF end, file
  <2>5. recv \in Recver BY DEF Types
  <2>6. /\ recv'.is_seq_fst = recv.is_seq_fst
        /\ recv'.seq_fst = recv.seq_fst /\ recv'.seq_lst = recv.seq_lst
        /\ recv'.seq_tail = recv.seq_tail /\ recv'.tell = recv.tell
        /\ recv'.file = file /\ recv'.buf = recv.buf /\ recv'.start = recv.start
        /\ recv'.is_finished = TRUE /\ recv'.jump = end
        BY <2>1, <2>5 DEF Recver
  <2>7. \A s \in SeqNums : recv'.file[s] # Unwritten =>
            IF Buffered(s) THEN recv'.is_finished /\ recv'.file[s] = End + InBuffer(s)
            ELSE recv'.file[s] = Place(s)
        BY <2>4, <2>6
  <2>8. /\ recv'.start \in {-1, Begin}
        /\ recv'.is_seq_fst =>
               recv'.tell = IF recv'.seq_lst < recv.seq_fst THEN Begin + (recv'.seq_lst + 1) * Payload
                            ELSE (recv'.seq_lst - recv.seq_fst) * Payload + PktLen(recv'.seq_lst)
        /\ \A s \in SeqNums : recv'.buf[s] # Unwritten => recv'.buf[s] = InBuffer(s)
        BY <2>6 DEF Layout
  <2>9. QED BY <2>2, <2>6, <2>7, <2>8, LayoutMoved
<1>2. CASE recv.is_finished
  <2>1. recv' = recv BY <1>2 DEF Finish
  <2>2. recv.start \in {-1, Begin} BY DEF Layout
  <2>3. QED BY <2>1, <2>2, LayoutKept
<1>3. QED BY <1>1, <1>2

-----------------------------------------------------------------------------
(* Every step.                                                             *)

LEMMA LayoutInit ==
    ASSUME Init
    PROVE  Layout
<1>1. recv = NewRecver BY DEF Init
<1>2. /\ recv.is_seq_fst = FALSE /\ recv.is_finished = FALSE /\ recv.start = -1
      /\ recv.file = [s \in SeqNums |-> Unwritten] /\ recv.buf = [s \in SeqNums |-> Unwritten]
      BY <1>1 DEF NewRecver
<1>3. QED BY <1>2 DEF Layout

LEMMA FInvNext ==
    ASSUME FInv, [Next]_vars, ~StoreDelay
    PROVE  FInv'
<1>1. RInv' BY RInvNext DEF FInv
<1>2. dataSize <= Word
  <2>1. 2 * dataSize <= Word /\ dataSize \in Nat /\ Word \in Nat
        BY RecverAssumption DEF FInv, RInv, Types
  <2>2. QED BY <2>1
<1>3. Layout'
  <2>1. CASE NetmapAccept
    <3>1. CASE Chosen = "wrap" /\ WrapAssert(Cur) # "no"
      <4>1. dataSize' = dataSize /\ recv' = recv BY <2>1, <3>1, AcceptChanges
      <4>2. recv.start \in {-1, Begin} BY DEF FInv, Layout
      <4>3. QED BY <4>1, <4>2, LayoutKept DEF FInv
    <3>2. CASE Chosen = "error" BY <1>2, <2>1, <3>2, RefusedLayout
    <3>3. CASE Chosen # "error" /\ (Chosen = "wrap" => WrapAssert(Cur) = "no")
          BY <1>2, <2>1, <3>3, AcceptedLayout
    <3>4. QED BY <3>1, <3>2, <3>3
  <2>2. CASE NetmapFinish
    <3>1. Finish /\ dataSize' = dataSize /\ nm.pc = "finish" BY <2>2 DEF NetmapFinish
    <3>2. Written(recv) = SeqNums BY <3>1 DEF FInv, RInv, Finished
    <3>3. QED BY <3>1, <3>2, FinishLayout
  <2>3. CASE RecvFinish
    <3>1. Finish /\ dataSize' = dataSize /\ rc = "finish" BY <2>3 DEF RecvFinish
    <3>2. Written(recv) = SeqNums BY <3>1 DEF FInv, RInv, Finished
    <3>3. QED BY <3>1, <3>2, FinishLayout
  <2>4. CASE RecvPatch BY <1>2, <2>4, PatchLayout
  <2>5. CASE ~(NetmapAccept \/ NetmapFinish \/ RecvFinish \/ RecvPatch)
    <3>1. \/ Sender \/ NetmapTake \/ NetmapTest \/ NetmapLast \/ NetmapNotify
          \/ RecvFirst \/ RecvZero \/ RecvAll \/ RecvJump \/ RecvPatched
          \/ RecvFastDone \/ RecvStopFastPath \/ RecvRequestRest \/ UNCHANGED vars
          BY <2>5 DEF Next, Netmap, Recv, Stop
    <3>2. QED BY <3>1, FileUntouched
  <2>6. QED BY <2>1, <2>2, <2>3, <2>4, <2>5
<1>4. QED BY <1>1, <1>3 DEF FInv

-----------------------------------------------------------------------------
(* Theorems, for data of any size that fits an int: AllFitInt.             *)

(* Every packet process_rings and thread_recv.c have written lies where    *)
(* getFilePosition and recverState_finishRecv want it, and the position of *)
(* the file and the metadata agree with it.                                *)
THEOREM PacketsLieInPlace ==
    ASSUME ~StoreDelay, AllFitInt
    PROVE  Spec => []FInv
<1>1. Init => FInv BY RInvInit, LayoutInit DEF FInv
<1>2. FInv /\ [Next]_vars => FInv' BY FInvNext
<1>3. QED BY <1>1, <1>2, PTL DEF Spec

(* A finished file, read as fileMetadata tells the client to read it, is   *)
(* the data: [start, jump), then [0, start), then [jump, end].             *)
THEOREM FileIsTheData ==
    ASSUME ~StoreDelay, AllFitInt
    PROVE  Spec => []FileReadOrder
<1>1. FInv => FileReadOrder
  <2> SUFFICES ASSUME FInv, recv.is_finished, NEW s \in SeqNums, NEW i \in 0 .. (PktLen(s) - 1)
               PROVE  ReadAt(recv, s * Payload + i) = recv.file[s] + i
      BY DEF FileReadOrder
  <2> USE DEF FInv, RInv
  <2> DEFINE f == recv.seq_fst
             D == dataSize
             P == Payload
             B == Begin
             E == End
             k == PktLen(s)
             sp == s * P
             fp == f * P
             v == recv.file[s]
             p == Place(s)
             q == InBuffer(s)
             b == Buffered(s)
  <2>1. AllWritten BY DEF Finished
  <2>2. v # Unwritten BY <2>1 DEF AllWritten
  <2>3. \A x \in SeqNums : x \in Written(recv) BY <2>1, WrittenFinite DEF AllWritten
  <2>4. Written(recv) = SeqNums BY <2>3, WrittenFinite
  <2>5. recv.is_seq_fst BY <2>4, FinishedIsComplete
  <2>6. /\ D \in Sizes /\ f \in SeqNums /\ SeqNums = 0 .. (NSeq - 1) /\ NSeq \in Nat
        /\ P \in Nat \ {0} /\ D \in Nat /\ 0 \in SeqNums
        BY WholePackets DEF Types
  <2>7. /\ B \in Nat /\ fp \in Nat /\ (f = 0 => B = 0) BY <2>5, BeginIs
  <2>8. /\ E \in Nat /\ (f # 0 => E - B = fp)
        /\ ~b => /\ p \in Nat /\ p + k <= E
                 /\ f # 0 /\ s >= f => p + k <= B
        /\ b => q \in Nat /\ E + q = sp
        BY <2>5, Extents
  <2>9. recv.start = B
    <3>1. recv.start >= 0 BY <2>4, <2>6 DEF Shape
    <3>2. recv.start \in {-1, Begin} BY DEF Layout
    <3>3. ~(-1 >= 0) OBVIOUS
    <3>4. QED BY <3>1, <3>2, <3>3
  <2>10. recv.jump = E BY DEF Layout
  <2>11. v = IF b THEN E + q ELSE p BY <2>2 DEF Layout
  <2>12. /\ k \in 1 .. P /\ sp \in Nat /\ sp + k <= D BY <2>6, LenOf
  <2>13. f = 0 => E = D BY DEF End
  <2>14. p = IF s < f THEN B + sp ELSE (s - f) * P BY DEF Place
  <2>15. s \in Int /\ f \in Int /\ P \in Int /\ i \in Nat /\ i < k BY <2>6, <2>12
  <2>16. (s - f) * P = sp - fp /\ (s < f => sp + P <= fp) /\ (~(s < f) => fp <= sp)
         BY <2>6, <2>15, Times
  <2>17. f = 0 => fp = 0 BY <2>15
  <2>18. b => ~(s < f) /\ f # 0
    <3>1. b => recv.seq_tail # 0 /\ s > recv.seq_tail BY DEF Buffered
    <3>2. recv.seq_tail # 0 => recv.seq_fst < recv.seq_tail BY DEF Shape
    <3>3. recv.seq_tail \in Int BY <2>6 DEF Types
    <3>4. recv.seq_tail # 0 => f # 0 BY <2>5, BeginIs
    <3>5. QED BY <2>15, <3>1, <3>2, <3>3, <3>4
  <2> DEFINE a == sp + i
  <2>19. ReadAt(recv, a) =
             IF a < E - B THEN B + a
             ELSE IF a - (E - B) < B THEN a - (E - B)
             ELSE E + (a - (E - B) - B)
         BY <2>9, <2>10 DEF ReadAt
  <2> SUFFICES ReadAt(recv, a) = v + i OBVIOUS
  <2>20. E - B = IF f = 0 THEN D ELSE fp BY <2>6, <2>7, <2>8, <2>13
  <2> DEFINE r == ReadAt(recv, a)
             front == E - B
  <2>21. r = IF a < front THEN B + a ELSE IF a - front < B THEN a - front ELSE E + (a - front - B)
         BY <2>19
  <2>22. front = (IF f = 0 THEN D ELSE fp) /\ front \in Int BY <2>7, <2>8, <2>20
  <2>23. a = sp + i /\ a \in Nat BY <2>12, <2>15
  <2>24. E = front + B BY <2>7, <2>8
  <2> HIDE DEF f, D, P, B, E, k, sp, fp, v, p, q, b, a, r, front
  <2>25. CASE b
    <3>1. v = sp /\ f # 0 /\ fp <= sp /\ E <= sp
          BY <2>8, <2>11, <2>12, <2>16, <2>18, <2>25
    <3>2. ~(a < front) /\ ~(a - front < B)
          BY <2>7, <2>12, <2>15, <2>22, <2>23, <2>24, <3>1
    <3>3. r = a BY <2>7, <2>8, <2>21, <2>22, <2>23, <2>24, <3>2
    <3>4. QED BY <2>23, <3>1, <3>3 DEF r
  <2>26. CASE ~b /\ s < f
    <3>1. v = B + sp /\ f # 0 /\ sp + P <= fp BY <2>6, <2>11, <2>14, <2>16, <2>26
    <3>2. a < front BY <2>6, <2>7, <2>12, <2>15, <2>22, <2>23, <3>1
    <3>3. r = B + a BY <2>21, <3>2
    <3>4. QED BY <2>7, <2>12, <2>15, <2>23, <3>1, <3>3 DEF r
  <2>27. CASE ~b /\ ~(s < f) /\ f = 0
    <3>1. v = sp /\ B = 0 BY <2>7, <2>11, <2>12, <2>14, <2>16, <2>17, <2>27
    <3>2. a < front BY <2>6, <2>12, <2>15, <2>22, <2>23, <2>27
    <3>3. r = a BY <2>21, <2>23, <3>1, <3>2
    <3>4. QED BY <2>23, <3>1, <3>3 DEF r
  <2>28. CASE ~b /\ ~(s < f) /\ f # 0
    <3>1. v = sp - fp /\ fp <= sp /\ v + k <= B
          BY <2>8, <2>11, <2>14, <2>15, <2>16, <2>28
    <3>2. ~(a < front) /\ a - front < B
          BY <2>7, <2>12, <2>15, <2>22, <2>23, <2>28, <3>1
    <3>3. r = a - front BY <2>21, <3>2
    <3>4. QED BY <2>7, <2>12, <2>15, <2>22, <2>23, <2>28, <3>1, <3>3 DEF r
  <2>29. QED BY <2>25, <2>26, <2>27, <2>28 DEF r
<1>2. QED BY <1>1, PacketsLieInPlace, PTL

(* Counters, lengths and offsets keep their bounds: the counts never       *)
(* exceed the packets of the data, and nothing is written outside the data.*)
THEOREM RecverTypes ==
    ASSUME ~StoreDelay, AllFitInt
    PROVE  Spec => []TypeOK
<1>1. FInv => TypeOK
  <2> SUFFICES ASSUME FInv PROVE TypeOK OBVIOUS
  <2> USE DEF FInv, RInv
  <2>1. /\ dataSize \in Sizes /\ recv \in Recver /\ NSeq \in Nat \ {0} /\ Payload \in Nat \ {0}
        /\ PayloadMin \in 1 .. Payload /\ dataSize \in Nat
        /\ dataSize = (NSeq - 1) * Payload + PayloadMin
        /\ recv.seq_fst \in SeqNums /\ recv.seq_lst \in SeqNums /\ recv.seq_tail \in SeqNums
        /\ SeqNums = 0 .. (NSeq - 1)
        BY WholePackets DEF Types
  <2>2. recv.seq_max \in {0, NSeq} /\ recv.is_seq_zero = (recv.seq_max = NSeq)
    <3>1. recv.seq_max = IF recv.is_seq_zero THEN NSeq ELSE 0 BY DEF Shape
    <3>2. recv.is_seq_zero \in BOOLEAN BY <2>1 DEF Recver
    <3>3. QED BY <2>1, <3>1, <3>2
  <2>3. recv.tail_len \in 0 .. dataSize
    <3> DEFINE k == NSeq - recv.seq_tail - 2
               m == NSeq - 1
               kp == k * Payload
               mp == m * Payload
    <3>1. k \in Int /\ m \in Int /\ k <= m BY <2>1
    <3>2. kp \in Int /\ mp \in Int /\ kp <= mp
      <4> HIDE DEF k, m
      <4>1. QED BY <2>1, <3>1, Times
    <3>3. TailLen = kp + PayloadMin /\ dataSize = mp + PayloadMin BY <2>1 DEF TailLen
    <3> HIDE DEF kp, mp
    <3>4. TailLen \in Int /\ TailLen <= dataSize BY <2>1, <3>2, <3>3
    <3>5. (recv.tail_len = TailLen /\ TailLen > 0) \/ recv.tail_len = 0 BY DEF Shape
    <3>6. QED BY <2>1, <3>4, <3>5
  <2>4. recv.num_fast \in 0 .. NSeq /\ recv.num_slow \in 0 .. NSeq
    <3> DEFINE A == Written(recv) \ requested
               B == Written(recv) \intersect requested
    <3>1. A \subseteq SeqNums /\ B \subseteq SeqNums /\ IsFiniteSet(SeqNums) /\ Cardinality(SeqNums) = NSeq
          BY WrittenFinite
    <3>2. recv.num_fast = Cardinality(A) /\ recv.num_slow = Cardinality(B) BY DEF CountsAreExact
    <3> HIDE DEF A, B
    <3>3. Cardinality(A) <= NSeq /\ Cardinality(B) <= NSeq BY <3>1, FS_Subset
    <3>4. recv.num_fast \in Nat /\ recv.num_slow \in Nat BY <2>1 DEF Recver
    <3>5. QED BY <2>1, <3>2, <3>3, <3>4
  <2>5. ASSUME NEW s \in SeqNums
        PROVE  recv.file[s] \in -1 .. dataSize - 1 /\ recv.buf[s] \in -1 .. dataSize - 1
    <3> DEFINE v == recv.file[s]
               w == recv.buf[s]
               k == PktLen(s)
               sp == s * Payload
    <3>1. -1 \in -1 .. dataSize - 1 BY <2>1
    <3>2. CASE ~recv.is_seq_fst
      <4>1. recv = [NewRecver EXCEPT !.lock = recv.lock, !.is_fastpath = recv.is_fastpath]
            BY <3>2 DEF Fresh
      <4>2. /\ recv.file = [x \in SeqNums |-> Unwritten]
            /\ recv.buf = [x \in SeqNums |-> Unwritten]
            BY <4>1 DEF NewRecver
      <4>3. v = Unwritten /\ w = Unwritten BY <4>2
      <4>4. QED BY <3>1, <4>3 DEF Unwritten
    <3>3. CASE recv.is_seq_fst
      <4> DEFINE E == End
                 p == Place(s)
                 q == InBuffer(s)
                 b == Buffered(s)
      <4>1. /\ E \in Nat /\ E <= dataSize
            /\ ~b => p \in Nat /\ p + k <= E
            /\ b => q \in Nat /\ E + q = sp
            BY <3>3, Extents
      <4>2. k \in 1 .. Payload /\ sp \in Nat /\ sp + k <= dataSize BY <2>1, LenOf
      <4>3. v # Unwritten => v = IF b THEN E + q ELSE p BY DEF Layout
      <4>4. w # Unwritten => w = q /\ b
        <5>1. w # Unwritten => w = q BY DEF Layout
        <5>2. w # Unwritten => recv.seq_tail # 0 /\ s > recv.seq_tail BY DEF Shape
        <5>3. QED BY <5>1, <5>2 DEF Buffered
      <4> HIDE DEF E, p, q, b, v, w, k, sp
      <4>5. v # Unwritten => v \in -1 .. dataSize - 1 BY <2>1, <4>1, <4>2, <4>3
      <4>6. w # Unwritten => w \in -1 .. dataSize - 1 BY <2>1, <4>1, <4>2, <4>4
      <4>7. QED BY <3>1, <4>5, <4>6 DEF v, w, Unwritten
    <3>4. QED BY <3>2, <3>3
  <2>6. /\ nm.pc \in {"idle", "test", "accept", "last", "finish", "notify"}
        /\ rc \in {"idle", "patched", "finish", "fast_done", "stopped"}
        /\ snd.fast_done \in {"no", "sent", "read"}
        /\ requested \subseteq SeqNums
        /\ crash \in {"no", "seq_tail", "start", "tail_buffer", "no_start", "finished"}
        BY DEF Types, Thread, Stream, Packets
  <2>7. QED BY <2>1, <2>2, <2>3, <2>4, <2>5, <2>6 DEF TypeOK
<1>2. QED BY <1>1, PacketsLieInPlace, PTL
=============================================================================
