----------------------- MODULE MulticastSend_proofs -----------------------
(***************************************************************************)
(* Proofs about MulticastSend for any receivers, any of which may end, any *)
(* sizes of the data and any burst.                                        *)
(***************************************************************************)
EXTENDS MulticastSend, FiniteSetTheorems, SequenceTheorems, TLAPS

-----------------------------------------------------------------------------
(* Rounds and positions.                                                   *)

LEMMA DivMod ==
    ASSUME NEW n \in Nat \ {0}, NEW a \in Nat
    PROVE  n * (a \div n) + (a % n) = a /\ a % n \in 0 .. (n - 1) /\ a \div n \in Nat
<1>1. n \in Int /\ n > 0 /\ a \in Int OBVIOUS
<1>2. n * (a \div n) + (a % n) = a BY <1>1
<1>3. a % n \in 0 .. (n - 1) /\ a \div n \in Int BY <1>1
<1>4. ASSUME a \div n <= -1 PROVE FALSE
  <2>1. n * (a \div n) + n <= n * 0 BY <1>1, <1>3, <1>4
  <2>2. QED BY <1>1, <1>2, <1>3, <2>1
<1>5. QED BY <1>2, <1>3, <1>4

LEMMA DivMonotone ==
    ASSUME NEW n \in Nat \ {0}, NEW a \in Nat, NEW b \in Nat, a <= b
    PROVE  a \div n <= b \div n
<1> DEFINE x == a \div n
           y == b \div n
<1>1. /\ n * x + (a % n) = a /\ a % n \in 0 .. (n - 1) /\ x \in Nat
      /\ n * y + (b % n) = b /\ b % n \in 0 .. (n - 1) /\ y \in Nat
      BY DivMod
<1> HIDE DEF x, y
<1>2. ASSUME y < x PROVE FALSE
  <2>1. n * y + n <= n * x BY <1>1, <1>2
  <2>2. QED BY <1>1, <2>1
<1>3. x <= y BY <1>1, <1>2
<1>4. QED BY <1>3 DEF x, y

(* Of two positions in different places of the round the earlier one is in *)
(* an earlier round, if it is not the smaller.                             *)
LEMMA EarlierRound ==
    ASSUME NEW n \in Nat \ {0}, NEW p \in Nat, NEW c \in Nat, p < c, ~(p % n < c % n)
    PROVE  p \div n < c \div n
<1> DEFINE x == p \div n
           y == c \div n
<1>1. /\ n * x + (p % n) = p /\ p % n \in 0 .. (n - 1) /\ x \in Nat
      /\ n * y + (c % n) = c /\ c % n \in 0 .. (n - 1) /\ y \in Nat
      BY DivMod
<1> HIDE DEF x, y
<1>2. ASSUME y <= x PROVE FALSE
  <2>1. n * y <= n * x BY <1>1, <1>2
  <2>2. QED BY <1>1, <2>1
<1>3. x < y BY <1>1, <1>2
<1>4. QED BY <1>3 DEF x, y

(* The end computed in multicastState_updateSeqEnd is a whole number of    *)
(* rounds, at least one, after the first packet.                           *)
LEMMA RoundsAfter ==
    ASSUME NEW n \in Nat \ {0}, NEW p \in Nat, NEW k \in Nat, p \div n < k,
           NEW e, e = k * n + (p % n)
    PROVE  e \in Nat /\ e >= p + n /\ (e - p) % n = 0
<1> DEFINE x == p \div n
           d == k - x
<1>1. n * x + (p % n) = p /\ p % n \in 0 .. (n - 1) /\ x \in Nat BY DivMod
<1> HIDE DEF x
<1>2. d \in Nat /\ d >= 1 /\ k = x + d BY <1>1 DEF x
<1> HIDE DEF d
<1>3. k * n = n * x + n * d BY <1>1, <1>2
<1>4. n * d >= n /\ n * d \in Nat /\ n * x \in Nat BY <1>1, <1>2
<1>5. e = p + n * d BY <1>1, <1>3, <1>4
<1>6. (n * d) % n = 0 BY <1>2
<1>7. e - p = n * d BY <1>4, <1>5
<1>8. QED BY <1>4, <1>5, <1>6, <1>7

-----------------------------------------------------------------------------
(* The invariant.                                                          *)

F(r) == [type |-> "FIRST", seq |-> first[r] % seq_max]
A == [type |-> "ALL"]
HasF(r) == up[r] = <<F(r)>> \/ up[r] = <<F(r), A>>
HasA(r) == up[r] = <<A>> \/ up[r] = <<F(r), A>>

Report == [type : {"FIRST"}, seq : Nat] \union [type : {"ALL"}]

(* Whose first report has been counted, and whose is being handled.        *)
Counted == {r \in Recver : seqEnd[r] # NoEnd \/ (st_pc \in {"compare", "round"} /\ st_r = r)}
Handled(r) == st_pc # "idle" /\ st_r = r
AllDone == {r \in Recver : has_all_done[r]}

(* A receiver reports each thing once, and its first packet first.         *)
MessagesOf(r) ==
    /\ up[r] = <<>> \/ up[r] = <<A>> \/ HasF(r)
    /\ first[r] = NoEnd => up[r] = <<>> /\ r \notin Counted
    /\ first[r] # NoEnd => first[r] < seq_cur
    /\ HasF(r) => r \notin Counted \/ Handled(r)
    /\ HasA(r) => ~has_all_done[r] /\ seq_max > 1
    /\ Handled(r) => HasF(r)
    /\ HasA(r) \/ has_all_done[r] => first[r] # NoEnd /\ seq_cur >= first[r] + seq_max

Messages == \A r \in Recver : MessagesOf(r)

(* What the send thread knows of the report it handles.                    *)
InHand ==
    /\ st_pc \in {"compare", "round"} => seqEnd[st_r] = NoEnd
    /\ st_pc = "end" => seqEnd[st_r] # NoEnd
    /\ st_pc = "round" => st_more \/ first[st_r] \div seq_max < seq_cur \div seq_max

(* The end of the stream is that of the last receiver.                     *)
KnownEnd ==
    /\ n_first_seq = Cardinality(Counted)
    /\ seq_end # SEQNUM_MAX => /\ seq_end = seq_end_max /\ st_pc = "idle"
                               /\ \A r \in Recver : seqEnd[r] # NoEnd
    /\ \A r \in Recver : seqEnd[r] # NoEnd /\ ~(st_pc = "end" /\ st_r = r)
                            => seqEnd[r] <= seq_end_max
    /\ seq_end = SEQNUM_MAX => seq_cur + nm_left <= MaxPos
    /\ last => seq_end # SEQNUM_MAX /\ seq_end <= seq_cur
    /\ bcd_state = "DEAD" => last
    /\ \A r \in Recver : fast_done[r] => last

(* Who has reported completion is counted, and the last one is told on.    *)
KnownDone ==
    /\ seq_max = 1 => n_all_done = n_first_seq
    /\ seq_max > 1 => n_all_done = Cardinality(AllDone)
    /\ all_sent = IF n_all_done = NInit THEN 1 ELSE 0

IInv == TypeOK /\ up \in [Recver -> Seq(Report)] /\ Messages /\ InHand /\ WholeRound /\ KnownEnd /\ KnownDone

-----------------------------------------------------------------------------
(* What a receiver may have on the way.                                    *)

LEMMA Forms ==
    ASSUME NEW f, f.type = "FIRST"
    PROVE  /\ <<f>> # <<>> /\ <<A>> # <<>> /\ <<f, A>> # <<>>
           /\ <<f>> # <<A>> /\ <<f, A>> # <<A>> /\ <<f, A>> # <<f>>
           /\ Head(<<f>>) = f /\ Head(<<f, A>>) = f /\ Head(<<A>>) = A
           /\ Tail(<<f>>) = <<>> /\ Tail(<<A>>) = <<>> /\ Tail(<<f, A>>) = <<A>>
           /\ A.type = "ALL"
<1>1. A.type = "ALL" BY DEF A
<1>2. f # A BY <1>1
<1>3. QED BY <1>1, <1>2

LEMMA One ==
    ASSUME NEW S, NEW s \in Seq(S), NEW x \in S, Len(s) = 1, s[1] = x
    PROVE  s = <<x>>
<1> DEFINE t == <<x>>
<1>1. t \in Seq(S) /\ Len(t) = 1 /\ t[1] = x OBVIOUS
<1> HIDE DEF t
<1>2. \A i \in 1 .. Len(s) : s[i] = t[i] BY <1>1
<1>3. s = t BY <1>1, <1>2, SeqEqual
<1>4. QED BY <1>3 DEF t

LEMMA Two ==
    ASSUME NEW S, NEW s \in Seq(S), NEW x \in S, NEW y \in S, Len(s) = 2, s[1] = x, s[2] = y
    PROVE  s = <<x, y>>
<1> DEFINE t == <<x, y>>
<1>1. t \in Seq(S) /\ Len(t) = 2 /\ t[1] = x /\ t[2] = y OBVIOUS
<1> HIDE DEF t
<1>2. \A i \in 1 .. Len(s) : s[i] = t[i] BY <1>1
<1>3. s = t BY <1>1, <1>2, SeqEqual
<1>4. QED BY <1>3 DEF t

LEMMA Appended ==
    ASSUME NEW f
    PROVE  /\ Append(<<>>, f) = <<f>> /\ Append(<<>>, A) = <<A>> /\ Append(<<f>>, A) = <<f, A>>
<1> DEFINE S == {f, A}
<1>1. f \in S /\ A \in S /\ <<>> \in Seq(S) /\ <<f>> \in Seq(S) /\ Len(<<>>) = 0 /\ Len(<<f>>) = 1
      OBVIOUS
<1> HIDE DEF S
<1>2. ASSUME NEW x \in S PROVE Append(<<>>, x) = <<x>>
  <2>1. /\ Append(<<>>, x) \in Seq(S) /\ Len(Append(<<>>, x)) = 1
        /\ Append(<<>>, x)[1] = x
        BY <1>1, AppendProperties
  <2>2. QED BY <2>1, One
<1>3. Append(<<f>>, A) = <<f, A>>
  <2>1. /\ Append(<<f>>, A) \in Seq(S) /\ Len(Append(<<f>>, A)) = 2
        /\ Append(<<f>>, A)[1] = f /\ Append(<<f>>, A)[2] = A
        BY <1>1, AppendProperties
  <2>2. QED BY <1>1, <2>1, Two
<1>4. QED BY <1>1, <1>2, <1>3

LEMMA Cut ==
    ASSUME NEW f
    PROVE  /\ \A k \in 0 .. Len(<<>>) : SubSeq(<<>>, 1, k) = <<>>
           /\ \A k \in 0 .. Len(<<A>>) : SubSeq(<<A>>, 1, k) \in {<<>>, <<A>>}
           /\ \A k \in 0 .. Len(<<f>>) : SubSeq(<<f>>, 1, k) = IF k = 0 THEN <<>> ELSE <<f>>
           /\ \A k \in 0 .. Len(<<f, A>>) : SubSeq(<<f, A>>, 1, k) =
                    IF k = 0 THEN <<>> ELSE IF k = 1 THEN <<f>> ELSE <<f, A>>
<1> DEFINE S == {f, A}
           t == <<f, A>>
<1>1. \A s : SubSeq(s, 1, 0) = <<>> BY SubSeqEmpty
<1>2. ASSUME NEW x \in S PROVE SubSeq(<<x>>, 1, 1) = <<x>>
  <2>1. <<x>> \in Seq(S) /\ Len(<<x>>) = 1 OBVIOUS
  <2>2. QED BY <2>1, SubSeqFull
<1>3. t \in Seq(S) /\ Len(t) = 2 /\ t[1] = f /\ f \in S /\ A \in S OBVIOUS
<1> HIDE DEF t
<1>4. SubSeq(t, 1, 2) = t BY <1>3, SubSeqFull
<1>5. SubSeq(t, 1, 1) = <<f>>
  <2>1. \A i \in 1 .. 1 : t[i] \in S BY <1>3
  <2>2. /\ SubSeq(t, 1, 1) \in Seq(S) /\ Len(SubSeq(t, 1, 1)) = 1
        /\ SubSeq(t, 1, 1)[1] = t[1]
        BY <2>1, SubSeqProperties
  <2>3. QED BY <1>3, <2>2, One
<1>6. Len(<<>>) = 0 /\ Len(<<A>>) = 1 /\ Len(<<f>>) = 1 OBVIOUS
<1>7. 0 .. 0 = {0} /\ 0 .. 1 = {0, 1} /\ 0 .. 2 = {0, 1, 2} OBVIOUS
<1>8. SubSeq(<<A>>, 1, 1) = <<A>> /\ SubSeq(<<f>>, 1, 1) = <<f>> BY <1>2, <1>3
<1>9. /\ \A k \in 0 .. Len(<<>>) : SubSeq(<<>>, 1, k) = <<>>
      /\ \A k \in 0 .. Len(<<A>>) : SubSeq(<<A>>, 1, k) \in {<<>>, <<A>>}
      /\ \A k \in 0 .. Len(<<f>>) : SubSeq(<<f>>, 1, k) = IF k = 0 THEN <<>> ELSE <<f>>
      BY Zenon, <1>1, <1>6, <1>7, <1>8
<1>10. \A k \in 0 .. Len(t) : SubSeq(t, 1, k) = IF k = 0 THEN <<>> ELSE IF k = 1 THEN <<f>> ELSE t
  <2>1. ASSUME NEW k \in {0, 1, 2}
        PROVE  SubSeq(t, 1, k) = IF k = 0 THEN <<>> ELSE IF k = 1 THEN <<f>> ELSE t
    <3>1. CASE k = 0 BY <1>1, <3>1
    <3>2. CASE k = 1 BY <1>5, <3>2
    <3>3. CASE k = 2 BY <1>4, <3>3
    <3>4. QED BY <3>1, <3>2, <3>3
  <2>2. QED BY <1>3, <1>7, <2>1
<1>11. QED BY <1>9, <1>10 DEF t

(* Where the k lies does not matter: a receiver in the queue is one.       *)
LEMMA InsertedType ==
    ASSUME NEW q \in Seq(Recver), NEW b \in Recver, NEW r \in Inserted(q, b)
    PROVE  r \in Seq(Recver)
<1>1. PICK k \in 1 .. (Len(q) + 1) :
        r = [i \in 1 .. (Len(q) + 1) |-> IF i < k THEN q[i] ELSE IF i = k THEN b ELSE q[i - 1]]
      BY DEF Inserted
<1>2. Len(q) \in Nat /\ DOMAIN q = 1 .. Len(q) /\ \A i \in 1 .. Len(q) : q[i] \in Recver
      OBVIOUS
<1>3. ASSUME NEW i \in 1 .. (Len(q) + 1) PROVE r[i] \in Recver
  <2>1. CASE i < k BY <1>1, <1>2, <2>1
  <2>2. CASE i = k BY <1>1, <2>2
  <2>3. CASE i > k
    <3>1. i - 1 \in 1 .. Len(q) BY <1>2, <2>3
    <3>2. r[i] = q[i - 1] BY <1>1, <2>3
    <3>3. QED BY <1>2, <3>1, <3>2
  <2>4. QED BY <1>2, <2>1, <2>2, <2>3
<1>4. r \in [1 .. (Len(q) + 1) -> Recver] BY <1>1, <1>3
<1>5. QED BY <1>2, <1>4

LEMMA SizeIsPositive == ASSUME TypeOK PROVE seq_max \in Nat \ {0}
  BY SendAssumption DEF TypeOK

LEMMA NInitType == NInit \in Nat \ {0}
  BY SendAssumption, FS_CardinalityType, FS_EmptySet DEF NInit

-----------------------------------------------------------------------------
(* The invariant holds from the start.                                     *)
LEMMA InitIInv == Init => IInv
<1> SUFFICES ASSUME Init PROVE IInv OBVIOUS
<1>1. Counted = {} /\ AllDone = {} BY DEF Init, Counted, AllDone
<1>2. Cardinality(Counted) = 0 /\ Cardinality(AllDone) = 0 BY <1>1, FS_EmptySet
<1>3. TypeOK
  <2>1. seq_max \in Nat BY SendAssumption DEF Init
  <2>2. has_all_done \in [Recver -> BOOLEAN] /\ fast_done \in [Recver -> BOOLEAN]
        BY Zenon DEF Init
  <2>3. pq \in Seq(Recver) /\ arr \in Seq(Recver) BY DEF Init
  <2>4. /\ seqEnd \in [Recver -> Nat \union {NoEnd}] /\ first \in [Recver -> Nat \union {NoEnd}]
        BY DEF Init
  <2>5. last \in BOOLEAN /\ st_more \in BOOLEAN BY Zenon DEF Init
  <2>6. /\ seq_max \in Sizes /\ seq_cur \in Nat /\ seq_end \in Nat /\ seq_end_max \in Nat
        /\ n_first_seq \in 0 .. NInit /\ n_all_done \in 0 .. NInit /\ all_sent \in Nat
        /\ nm_left \in Int /\ nm_left <= Burst /\ (nm_left < 0 => seq_end # SEQNUM_MAX)
        BY SendAssumption, NInitType DEF Init
  <2>7. QED BY <2>2, <2>3, <2>4, <2>5, <2>6 DEF Init, TypeOK
<1>4. up \in [Recver -> Seq(Report)] BY DEF Init
<1>5. Messages
  <2>1. \A r \in Recver : up[r] = <<>> /\ ~HasF(r) /\ ~HasA(r) BY Forms DEF Init, HasF, HasA, F
  <2>2. QED BY <1>1, <2>1 DEF Init, Messages, MessagesOf, Handled
<1>6. InHand /\ WholeRound BY DEF Init, InHand, WholeRound
<1>7. KnownEnd BY <1>2, SendAssumption DEF Init, KnownEnd
<1>8. KnownDone BY <1>2, NInitType DEF Init, KnownDone
<1>9. QED BY <1>3, <1>4, <1>5, <1>6, <1>7, <1>8 DEF IInv

-----------------------------------------------------------------------------
(* What an action on another receiver, or on the stream, leaves alone.     *)

LEMMA MessagesKept ==
    ASSUME IInv, NEW r \in Recver, seq_cur' \in Nat, seq_cur' >= seq_cur, seq_max' = seq_max,
           up'[r] = up[r], first'[r] = first[r], has_all_done'[r] = has_all_done[r],
           Handled(r)' <=> Handled(r), r \in Counted' <=> r \in Counted
    PROVE  MessagesOf(r)'
<1>1. (HasF(r)' <=> HasF(r)) /\ (HasA(r)' <=> HasA(r)) BY DEF HasF, HasA, F, A
<1>2. MessagesOf(r) BY DEF IInv, Messages
<1>3. seq_max \in Nat /\ seq_cur \in Nat /\ first[r] \in Nat \union {NoEnd}
      BY SizeIsPositive DEF IInv, TypeOK
<1>4. QED BY <1>1, <1>2, <1>3 DEF MessagesOf

LEMMA StreamKeeps ==
    ASSUME IInv, seq_cur' \in Nat, seq_cur' >= seq_cur, UNCHANGED <<seq_max, ends, counts, st, net>>
    PROVE  /\ up' \in [Recver -> Seq(Report)] /\ Messages' /\ InHand' /\ WholeRound' /\ KnownDone'
           /\ n_first_seq' = Cardinality(Counted')
<1> USE DEF ends, counts, st, net
<1>1. Counted' = Counted /\ AllDone' = AllDone BY DEF Counted, AllDone
<1>2. Messages'
  <2>1. ASSUME NEW r \in Recver PROVE MessagesOf(r)'
        BY <1>1, MessagesKept DEF Handled
  <2>2. QED BY <2>1 DEF Messages
<1>3. InHand'
  <2>1. seq_cur \div seq_max <= seq_cur' \div seq_max
        BY SizeIsPositive, DivMonotone DEF IInv, TypeOK
  <2>2. CASE st_pc = "round"
    <3>1. Handled(st_r) /\ st_r \in Recver BY <2>2 DEF Handled, IInv, TypeOK
    <3>2. HasF(st_r) BY <3>1 DEF IInv, Messages, MessagesOf
    <3>3. first[st_r] # NoEnd BY <3>1, <3>2, Forms DEF IInv, Messages, MessagesOf, HasF, F
    <3>4. first[st_r] \in Nat BY <3>1, <3>3 DEF IInv, TypeOK
    <3>5. first[st_r] \div seq_max \in Nat /\ seq_cur \div seq_max \in Nat /\ seq_cur' \div seq_max \in Nat
          BY <3>4, SizeIsPositive, DivMod DEF IInv, TypeOK
    <3>6. QED BY <2>1, <2>2, <3>5 DEF IInv, InHand
  <2>3. QED BY <2>2 DEF IInv, InHand
<1>4. WholeRound' BY DEF IInv, WholeRound
<1>5. KnownDone' BY <1>1 DEF IInv, KnownDone
<1>6. QED BY <1>1, <1>2, <1>3, <1>4, <1>5 DEF IInv, KnownEnd

-----------------------------------------------------------------------------
(* The netmap thread.                                                      *)

(* As long as the end is not known the stream is short of MaxPos.          *)
LEMMA EndIsAhead == ASSUME IInv PROVE seq_end = SEQNUM_MAX => seq_cur < seq_end
  BY SendAssumption DEF IInv, TypeOK, KnownEnd

LEMMA NetmapStep == ASSUME IInv, Netmap PROVE IInv'
<1> USE DEF stream, ends, counts, st, net
<1>1. seq_cur \in Nat /\ seq_end \in Nat /\ nm_left \in Int BY DEF IInv, TypeOK
<1>2. CASE NmUpgrade
  <2>1. TypeOK' BY <1>2 DEF NmUpgrade, IInv, TypeOK
  <2>2. KnownEnd' BY <1>1, <1>2, StreamKeeps DEF NmUpgrade, IInv, KnownEnd
  <2>3. QED BY <1>1, <1>2, <2>1, <2>2, StreamKeeps DEF NmUpgrade, IInv
<1>3. CASE NmEnded
  <2>1. last' \in BOOLEAN BY <1>3 DEF NmEnded
  <2>2. TypeOK' BY <1>3, <2>1 DEF NmEnded, IInv, TypeOK
  <2>3. (last => last') /\ (last' => last \/ seq_cur >= seq_end) BY Zenon, <1>3 DEF NmEnded
  <2>4. last' => seq_end # SEQNUM_MAX /\ seq_end <= seq_cur
        BY <1>1, <2>3, EndIsAhead DEF IInv, KnownEnd
  <2>5. KnownEnd' BY <1>1, <1>3, <2>3, <2>4, StreamKeeps DEF NmEnded, IInv, KnownEnd
  <2>6. QED BY <1>1, <1>3, <2>2, <2>5, StreamKeeps DEF NmEnded, IInv
<1>4. CASE NmLimit
  <2>1. nm_left' \in Int /\ nm_left' <= Burst /\ (nm_left' < 0 => seq_end # SEQNUM_MAX)
        /\ (seq_end = SEQNUM_MAX => seq_cur + nm_left' <= MaxPos)
        BY <1>1, <1>4, SendAssumption DEF NmLimit
  <2>2. TypeOK' BY <1>4, <2>1 DEF NmLimit, IInv, TypeOK
  <2>3. KnownEnd' BY <1>1, <1>4, <2>1, StreamKeeps DEF NmLimit, IInv, KnownEnd
  <2>4. QED BY <1>1, <1>4, <2>2, <2>3, StreamKeeps DEF NmLimit, IInv
<1>5. CASE NmPacket
  <2>1. seq_cur' \in Nat /\ seq_cur' >= seq_cur BY <1>1, <1>5 DEF NmPacket
  <2>2. nm_left' \in Nat /\ nm_left' <= Burst /\ seq_cur' + nm_left' = seq_cur + nm_left
        BY <1>1, <1>5, SendAssumption DEF NmPacket, IInv, TypeOK
  <2>3. TypeOK' BY <1>5, <2>1, <2>2 DEF NmPacket, IInv, TypeOK
  <2>4. KnownEnd' BY <1>1, <1>5, <2>1, <2>2, StreamKeeps DEF NmPacket, IInv, KnownEnd
  <2>5. QED BY <1>5, <2>1, <2>3, <2>4, StreamKeeps DEF NmPacket, IInv
<1>6. CASE NmMark
  <2>1. last' \in BOOLEAN BY <1>6 DEF NmMark
  <2>2. TypeOK' BY <1>6, <2>1, SendAssumption DEF NmMark, IInv, TypeOK
  <2>3. (last => last') /\ (last' => last \/ seq_cur >= seq_end) BY Zenon, <1>6 DEF NmMark
  <2>4. last' => seq_end # SEQNUM_MAX /\ seq_end <= seq_cur
        BY <1>1, <2>3, EndIsAhead DEF IInv, KnownEnd
  <2>5. seq_end = SEQNUM_MAX => seq_cur + 0 <= MaxPos
        BY <1>1, SendAssumption DEF IInv, KnownEnd, TypeOK
  <2>6. KnownEnd' BY <1>1, <1>6, <2>3, <2>4, <2>5, StreamKeeps DEF NmMark, IInv, KnownEnd
  <2>7. QED BY <1>1, <1>6, <2>2, <2>6, StreamKeeps DEF NmMark, IInv
<1>7. CASE NmDead
  <2>1. TypeOK' BY <1>7 DEF NmDead, IInv, TypeOK
  <2>2. KnownEnd' BY <1>1, <1>7, StreamKeeps DEF NmDead, IInv, KnownEnd
  <2>3. QED BY <1>1, <1>7, <2>1, <2>2, StreamKeeps DEF NmDead, IInv
<1>8. CASE NmAgain
  <2>1. TypeOK' BY <1>8 DEF NmAgain, IInv, TypeOK
  <2>2. KnownEnd' BY <1>1, <1>8, StreamKeeps DEF NmAgain, IInv, KnownEnd
  <2>3. QED BY <1>1, <1>8, <2>1, <2>2, StreamKeeps DEF NmAgain, IInv
<1>9. QED BY <1>2, <1>3, <1>4, <1>5, <1>6, <1>7, <1>8 DEF Netmap

-----------------------------------------------------------------------------
(* The send thread.                                                        *)

(* What stands at the head of a connection.                                *)
LEMMA Heads ==
    ASSUME IInv, NEW r \in Recver
    PROVE  /\ HasF(r) => /\ up[r] # <<>> /\ Head(up[r]) = F(r) /\ first[r] \in Nat
                         /\ Tail(up[r]) = IF HasA(r) THEN <<A>> ELSE <<>>
           /\ up[r] # <<>> /\ Head(up[r]).type = "FIRST" => HasF(r)
           /\ up[r] # <<>> /\ Head(up[r]).type = "ALL" =>
                    up[r] = <<A>> /\ HasA(r) /\ ~HasF(r) /\ Tail(up[r]) = <<>>
<1>1. MessagesOf(r) BY DEF IInv, Messages
<1>2. F(r).type = "FIRST" BY DEF F
<1>3. first[r] \in Nat \/ first[r] = NoEnd BY DEF IInv, TypeOK
<1> HIDE DEF F
<1>4. QED BY <1>1, <1>2, <1>3, Forms DEF MessagesOf, HasF, HasA

LEMMA CountedFinite ==
    /\ IsFiniteSet(Counted) /\ Cardinality(Counted) \in 0 .. NInit
    /\ IsFiniteSet(AllDone) /\ Cardinality(AllDone) \in 0 .. NInit
    /\ Cardinality(Counted) = NInit => Counted = Recver
    /\ Cardinality(AllDone) = NInit => AllDone = Recver
<1>1. Counted \in SUBSET Recver /\ AllDone \in SUBSET Recver BY DEF Counted, AllDone
<1>2. QED BY <1>1, SendAssumption, FS_Subset, FS_CardinalityType DEF NInit

LEMMA StFirstStep == ASSUME IInv, NEW r \in Recver, StFirst(r) PROVE IInv'
<1> USE DEF stream, ends, net
<1>1. st_pc = "idle" /\ HasF(r) /\ r \notin Counted
  <2>1. st_pc = "idle" /\ HasF(r) BY Heads DEF StFirst, FromRecver
  <2>2. QED BY <2>1 DEF IInv, Messages, MessagesOf, Handled
<1>2. Counted' = Counted \union {r} BY <1>1 DEF StFirst, Counted
<1>3. /\ n_first_seq + 1 = Cardinality(Counted')
      /\ n_first_seq + 1 \in 0 .. NInit
  <2>1. Cardinality(Counted') = Cardinality(Counted) + 1
        BY <1>1, <1>2, CountedFinite, FS_AddElement
  <2>2. Counted' \in SUBSET Recver BY <1>2 DEF Counted
  <2>3. Cardinality(Counted') <= NInit
        BY <2>2, SendAssumption, FS_Subset, FS_CardinalityType DEF NInit
  <2>4. QED BY <2>1, <2>3, CountedFinite, NInitType DEF IInv, KnownEnd
<1>4. /\ seq_max = 1 => n_all_done' = n_first_seq + 1
      /\ seq_max # 1 => n_all_done' = n_all_done
      /\ n_all_done' \in 0 .. NInit
      /\ all_sent' = IF n_all_done' = NInit THEN 1 ELSE 0
  <2>1. n_all_done \in 0 .. NInit /\ NInit \in Nat /\ n_first_seq \in Nat
        BY NInitType DEF IInv, TypeOK
  <2>2. CASE seq_max = 1 BY <1>3, <2>1, <2>2 DEF StFirst, IInv, KnownDone
  <2>3. CASE seq_max # 1 BY <2>1, <2>3 DEF StFirst, IInv, KnownDone
  <2>4. QED BY <2>2, <2>3
<1>5. seq_end = SEQNUM_MAX BY <1>1 DEF IInv, KnownEnd, Counted
<1>6. TypeOK'
  <2>1. all_sent' \in Nat BY <1>4
  <2>2. QED BY <1>3, <1>4, <2>1 DEF StFirst, IInv, TypeOK
<1>7. Messages'
  <2>1. seq_cur \in Nat BY DEF IInv, TypeOK
  <2>2. ASSUME NEW q \in Recver, q # r PROVE MessagesOf(q)'
        BY <1>1, <1>2, <2>1, <2>2, MessagesKept DEF StFirst, Handled
  <2>3. MessagesOf(r)'
    <3>1. HasF(r)' /\ (HasA(r)' <=> HasA(r)) BY <1>1 DEF StFirst, HasF, HasA, F, A
    <3>2. first[r] # NoEnd BY <1>1, Heads DEF NoEnd
    <3>3. MessagesOf(r) BY DEF IInv, Messages
    <3>4. QED BY <3>1, <3>2, <3>3 DEF StFirst, MessagesOf, Handled
  <2>4. QED BY <2>2, <2>3 DEF Messages
<1>8. InHand' BY <1>1 DEF StFirst, InHand, Counted
<1>9. WholeRound' BY DEF StFirst, IInv, WholeRound
<1>10. KnownEnd' BY <1>1, <1>3, <1>5 DEF StFirst, IInv, KnownEnd
<1>11. KnownDone'
  <2>1. AllDone' = AllDone BY DEF StFirst, AllDone
  <2>2. QED BY <1>4, <2>1 DEF StFirst, IInv, KnownDone
<1>12. up' \in [Recver -> Seq(Report)] BY DEF StFirst, IInv
<1>13. QED BY <1>6, <1>7, <1>8, <1>9, <1>10, <1>11, <1>12 DEF IInv

LEMMA StCompareStep == ASSUME IInv, StCompare PROVE IInv'
<1> USE DEF stream, ends, counts, net
<1>1. /\ st_r \in Recver /\ Handled(st_r) /\ HasF(st_r) /\ Head(up[st_r]) = F(st_r)
      /\ first[st_r] \in Nat /\ first[st_r] < seq_cur /\ seqEnd[st_r] = NoEnd
  <2>1. st_r \in Recver /\ Handled(st_r) BY DEF StCompare, Handled, IInv, TypeOK
  <2>2. HasF(st_r) BY <2>1 DEF IInv, Messages, MessagesOf
  <2>3. Head(up[st_r]) = F(st_r) /\ first[st_r] \in Nat BY <2>1, <2>2, Heads
  <2>4. first[st_r] < seq_cur BY <2>1, <2>3 DEF IInv, Messages, MessagesOf, NoEnd
  <2>5. QED BY <2>1, <2>2, <2>3, <2>4 DEF StCompare, IInv, InHand
<1>2. st_more' <=> first[st_r] % seq_max < seq_cur % seq_max
  <2>1. st_more' = (Head(up[st_r]).seq < seq_cur % seq_max) BY DEF StCompare
  <2>2. Head(up[st_r]).seq = first[st_r] % seq_max BY <1>1 DEF F
  <2>3. st_more' = (first[st_r] % seq_max < seq_cur % seq_max) BY <2>1, <2>2
  <2>4. QED BY Zenon, <2>3
<1>3. st_more' \in BOOLEAN BY DEF StCompare
<1>4. TypeOK' BY <1>3 DEF StCompare, IInv, TypeOK
<1>5. Counted' = Counted /\ AllDone' = AllDone BY DEF StCompare, Counted, AllDone
<1>6. Messages'
  <2>1. seq_cur \in Nat BY DEF IInv, TypeOK
  <2>2. ASSUME NEW q \in Recver PROVE MessagesOf(q)'
        BY <1>5, <2>1, MessagesKept DEF StCompare, Handled
  <2>3. QED BY <2>2 DEF Messages
<1>7. InHand'
  <2>1. ~st_more' => first[st_r] \div seq_max < seq_cur \div seq_max
        BY <1>1, <1>2, SizeIsPositive, EarlierRound DEF IInv, TypeOK
  <2>2. QED BY <1>1, <2>1 DEF StCompare, InHand
<1>8. WholeRound' BY DEF StCompare, IInv, WholeRound
<1>9. KnownEnd' BY <1>5 DEF StCompare, IInv, KnownEnd
<1>10. KnownDone' BY <1>5 DEF StCompare, IInv, KnownDone
<1>11. up' \in [Recver -> Seq(Report)] BY DEF StCompare, IInv
<1>12. QED BY <1>4, <1>6, <1>7, <1>8, <1>9, <1>10, <1>11 DEF IInv

LEMMA StRoundStep == ASSUME IInv, StRound PROVE IInv'
<1> USE DEF stream, counts, net
<1> DEFINE round == seq_cur \div seq_max + IF st_more THEN 1 ELSE 0
           end == round * seq_max + Head(up[st_r]).seq
<1>1. /\ st_r \in Recver /\ st_pc = "round" /\ Handled(st_r) /\ HasF(st_r)
      /\ Head(up[st_r]).seq = first[st_r] % seq_max
      /\ first[st_r] \in Nat /\ first[st_r] < seq_cur /\ seqEnd[st_r] = NoEnd
  <2>1. st_r \in Recver /\ Handled(st_r) BY DEF StRound, Handled, IInv, TypeOK
  <2>2. HasF(st_r) BY <2>1 DEF IInv, Messages, MessagesOf
  <2>3. Head(up[st_r]) = F(st_r) /\ first[st_r] \in Nat BY <2>1, <2>2, Heads
  <2>4. first[st_r] < seq_cur BY <2>1, <2>3 DEF IInv, Messages, MessagesOf, NoEnd
  <2>5. Head(up[st_r]).seq = first[st_r] % seq_max BY <2>3 DEF F
  <2>6. QED BY <2>1, <2>2, <2>3, <2>4, <2>5 DEF StRound, IInv, InHand
<1>2. seq_max \in Nat \ {0} /\ seq_cur \in Nat BY SizeIsPositive DEF IInv, TypeOK
<1>3. round \in Nat /\ first[st_r] \div seq_max < round
  <2>1. /\ seq_cur \div seq_max \in Nat /\ first[st_r] \div seq_max \in Nat
        /\ first[st_r] \div seq_max <= seq_cur \div seq_max
    <3>1. first[st_r] <= seq_cur BY <1>1, <1>2
    <3>2. seq_cur \div seq_max \in Nat /\ first[st_r] \div seq_max \in Nat BY <1>1, <1>2, DivMod
    <3>3. first[st_r] \div seq_max <= seq_cur \div seq_max BY <1>1, <1>2, <3>1, DivMonotone
    <3>4. QED BY <3>2, <3>3
  <2>2. CASE st_more BY <2>1, <2>2
  <2>3. CASE ~st_more
    <3>1. first[st_r] \div seq_max < seq_cur \div seq_max BY <1>1, <2>3 DEF IInv, InHand
    <3>2. QED BY <2>1, <2>3, <3>1
  <2>4. QED BY <2>2, <2>3
<1>4. end \in Nat /\ end >= first[st_r] + seq_max /\ (end - first[st_r]) % seq_max = 0
  <2> DEFINE p == first[st_r]
  <2>1. end = round * seq_max + (p % seq_max) BY <1>1
  <2>2. p \in Nat /\ p \div seq_max < round BY <1>1, <1>3
  <2> HIDE DEF round, end
  <2> HIDE DEF p
  <2>3. end \in Nat /\ end >= p + seq_max /\ (end - p) % seq_max = 0
        BY <1>2, <1>3, <2>1, <2>2, RoundsAfter
  <2>4. QED BY <2>3 DEF p
<1>5. seqEnd' = [seqEnd EXCEPT ![st_r] = end] BY DEF StRound
<1> HIDE DEF end
<1>6. /\ seqEnd' \in [Recver -> Nat \union {NoEnd}] /\ seqEnd'[st_r] = end /\ seqEnd'[st_r] # NoEnd
      /\ \A q \in Recver \ {st_r} : seqEnd'[q] = seqEnd[q]
      BY <1>1, <1>4, <1>5 DEF IInv, TypeOK, NoEnd
<1>7. TypeOK'
  <2>1. pq' \in Seq(Recver) BY <1>1, InsertedType DEF StRound, IInv, TypeOK
  <2>2. QED BY <1>6, <2>1 DEF StRound, IInv, TypeOK
<1>8. Counted' = Counted /\ AllDone' = AllDone
  <2>1. AllDone' = AllDone BY DEF StRound, AllDone
  <2>2. ASSUME NEW q \in Recver PROVE q \in Counted' <=> q \in Counted
        BY <1>1, <1>6, <2>2 DEF StRound, Counted
  <2>3. QED BY <2>1, <2>2 DEF Counted
<1>9. Messages'
  <2>1. ASSUME NEW q \in Recver PROVE MessagesOf(q)'
        BY <1>1, <1>2, <1>8, MessagesKept DEF StRound, Handled
  <2>2. QED BY <2>1 DEF Messages
<1>10. InHand' BY <1>6 DEF StRound, InHand
<1>11. WholeRound'
  <2>1. ASSUME NEW q \in Recver, seqEnd'[q] # NoEnd
        PROVE  seqEnd'[q] >= first[q] + seq_max /\ (seqEnd'[q] - first[q]) % seq_max = 0
    <3>1. CASE q = st_r BY <1>4, <1>6, <3>1
    <3>2. CASE q # st_r BY <1>6, <2>1, <3>2 DEF IInv, WholeRound
    <3>3. QED BY <3>1, <3>2
  <2>2. first' = first /\ seq_max' = seq_max BY DEF StRound
  <2>3. QED BY <2>1, <2>2 DEF WholeRound
<1>12. KnownEnd' BY <1>1, <1>6, <1>8 DEF StRound, IInv, KnownEnd
<1>13. KnownDone' BY <1>8 DEF StRound, IInv, KnownDone
<1>14. up' \in [Recver -> Seq(Report)] BY DEF StRound, IInv
<1>15. QED BY <1>7, <1>9, <1>10, <1>11, <1>12, <1>13, <1>14 DEF IInv

LEMMA StEndStep == ASSUME IInv, StEnd PROVE IInv'
<1> USE DEF stream, counts
<1>1. /\ st_r \in Recver /\ st_pc = "end" /\ HasF(st_r) /\ seqEnd[st_r] # NoEnd
      /\ seqEnd[st_r] \in Nat /\ seq_end = SEQNUM_MAX
      /\ up[st_r] # <<>> /\ Tail(up[st_r]) = IF HasA(st_r) THEN <<A>> ELSE <<>>
  <2>1. st_r \in Recver /\ st_pc = "end" /\ Handled(st_r) BY DEF StEnd, Handled, IInv, TypeOK
  <2>2. HasF(st_r) BY <2>1 DEF IInv, Messages, MessagesOf
  <2>3. up[st_r] # <<>> /\ Tail(up[st_r]) = IF HasA(st_r) THEN <<A>> ELSE <<>> BY <2>1, <2>2, Heads
  <2>4. seqEnd[st_r] # NoEnd /\ seq_end = SEQNUM_MAX BY <2>1 DEF IInv, InHand, KnownEnd
  <2>5. QED BY <2>1, <2>2, <2>3, <2>4 DEF IInv, TypeOK
<1>2. Counted' = Counted /\ AllDone' = AllDone BY <1>1 DEF StEnd, Counted, AllDone
<1>3. /\ seq_end_max' \in Nat /\ seq_end_max' >= seq_end_max /\ seq_end_max' >= seqEnd[st_r]
      /\ seq_end' \in Nat
  <2>1. seq_end_max \in Nat /\ seq_end \in Nat BY DEF IInv, TypeOK
  <2>2. QED BY <1>1, <2>1 DEF StEnd
<1>4. TypeOK' BY <1>1, <1>3 DEF StEnd, IInv, TypeOK
<1>5. up' = [up EXCEPT ![st_r] = Tail(up[st_r])] BY DEF StEnd, Received
<1>6. /\ up'[st_r] = Tail(up[st_r]) /\ \A q \in Recver \ {st_r} : up'[q] = up[q]
      /\ up' \in [Recver -> Seq(Report)]
  <2>1. Tail(up[st_r]) \in Seq(Report) BY <1>1, HeadTailProperties DEF IInv
  <2>2. QED BY <1>1, <1>5, <2>1 DEF IInv
<1>7. Messages'
  <2>1. ASSUME NEW q \in Recver, q # st_r PROVE MessagesOf(q)'
    <3>1. seq_cur \in Nat /\ up'[q] = up[q] BY <1>6, <2>1 DEF IInv, TypeOK
    <3>2. QED BY <1>1, <1>2, <2>1, <3>1, MessagesKept DEF StEnd, Handled
  <2>2. MessagesOf(st_r)'
    <3>1. up'[st_r] = IF HasA(st_r) THEN <<A>> ELSE <<>> BY <1>1, <1>6
    <3>2. ~HasF(st_r)' /\ (HasA(st_r)' <=> HasA(st_r))
      <4>1. F(st_r)' = F(st_r) /\ A' = A /\ st_r' = st_r BY DEF StEnd, F, A
      <4>2. F(st_r).type = "FIRST" BY DEF F
      <4> HIDE DEF F
      <4>3. QED BY <3>1, <4>1, <4>2, Forms DEF HasF, HasA
    <3>3. MessagesOf(st_r) BY <1>1 DEF IInv, Messages
    <3>4. first[st_r] # NoEnd BY <1>1, Heads DEF NoEnd
    <3>5. QED BY <1>2, <3>1, <3>2, <3>3, <3>4 DEF StEnd, MessagesOf, Handled, A
  <2>3. st_r' = st_r BY DEF StEnd
  <2>4. QED BY <2>1, <2>2, <2>3 DEF Messages
<1>8. InHand' BY DEF StEnd, InHand
<1>9. WholeRound' BY DEF StEnd, IInv, WholeRound
<1>10. KnownEnd'
  <2>1. \A q \in Recver : seqEnd[q] # NoEnd => seqEnd[q] <= seq_end_max'
    <3>1. TAKE q \in Recver
    <3>2. HAVE seqEnd[q] # NoEnd
    <3>3. seqEnd[q] \in Nat /\ seq_end_max \in Nat BY <3>2 DEF IInv, TypeOK
    <3>4. CASE q = st_r BY <1>3, <3>4
    <3>5. CASE q # st_r
      <4>1. seqEnd[q] <= seq_end_max BY <3>2, <3>5 DEF IInv, KnownEnd
      <4>2. QED BY <1>3, <3>3, <4>1
    <3>6. QED BY <3>4, <3>5
  <2>2. AllFirst => \A q \in Recver : seqEnd[q] # NoEnd
    <3>1. AllFirst => Counted = Recver BY CountedFinite DEF AllFirst, IInv, KnownEnd
    <3>2. QED BY <1>1, <3>1 DEF Counted
  <2>3. seq_end' # SEQNUM_MAX => seq_end' = seq_end_max' /\ AllFirst
        BY <1>1 DEF StEnd
  <2>4. ~last /\ bcd_state # "DEAD" /\ \A q \in Recver : ~fast_done[q]
        BY <1>1 DEF IInv, KnownEnd
  <2>5. seq_cur + nm_left <= MaxPos BY <1>1 DEF IInv, KnownEnd
  <2>6. /\ st_pc' = "idle" /\ seqEnd' = seqEnd /\ n_first_seq' = n_first_seq
        /\ UNCHANGED <<last, bcd_state, fast_done, seq_cur, nm_left>>
        BY DEF StEnd
  <2>7. QED BY <1>2, <2>1, <2>2, <2>3, <2>4, <2>5, <2>6 DEF IInv, KnownEnd
<1>11. KnownDone' BY <1>2 DEF StEnd, IInv, KnownDone
<1>12. QED BY <1>4, <1>6, <1>7, <1>8, <1>9, <1>10, <1>11 DEF IInv

LEMMA StAllDoneStep == ASSUME IInv, NEW r \in Recver, StAllDone(r) PROVE IInv'
<1> USE DEF stream, ends, st
<1>1. /\ st_pc = "idle" /\ up[r] = <<A>> /\ HasA(r) /\ ~HasF(r) /\ Tail(up[r]) = <<>>
      /\ r \notin AllDone /\ seq_max > 1
  <2>1. /\ st_pc = "idle" /\ up[r] = <<A>> /\ HasA(r) /\ ~HasF(r) /\ Tail(up[r]) = <<>>
        BY Heads DEF StAllDone, FromRecver
  <2>2. QED BY <2>1 DEF IInv, Messages, MessagesOf, AllDone
<1>2. AllDone' = AllDone \union {r} /\ Counted' = Counted
      BY DEF StAllDone, AllDone, Counted, IInv, TypeOK
<1>3. n_all_done + 1 = Cardinality(AllDone') /\ n_all_done + 1 \in 0 .. NInit
  <2>1. Cardinality(AllDone') = Cardinality(AllDone) + 1
        BY <1>1, <1>2, CountedFinite, FS_AddElement
  <2>2. AllDone' \in SUBSET Recver BY <1>2 DEF AllDone
  <2>3. Cardinality(AllDone') <= NInit
        BY <2>2, SendAssumption, FS_Subset, FS_CardinalityType DEF NInit
  <2>4. n_all_done = Cardinality(AllDone) BY <1>1 DEF IInv, KnownDone
  <2>5. QED BY <2>1, <2>3, <2>4, CountedFinite, NInitType
<1>4. all_sent' = IF n_all_done' = NInit THEN 1 ELSE 0
  <2>1. n_all_done \in 0 .. NInit /\ NInit \in Nat BY NInitType DEF IInv, TypeOK
  <2>2. QED BY <1>3, <2>1 DEF StAllDone, IInv, KnownDone
<1>5. TypeOK'
  <2>1. all_sent' \in Nat BY <1>4
  <2>2. has_all_done' \in [Recver -> BOOLEAN] BY DEF StAllDone, IInv, TypeOK
  <2>3. QED BY <1>3, <2>1, <2>2 DEF StAllDone, IInv, TypeOK
<1>6. up' = [up EXCEPT ![r] = <<>>] BY <1>1 DEF StAllDone, Received
<1>7. up' \in [Recver -> Seq(Report)] BY <1>6 DEF IInv
<1>8. Messages'
  <2>1. seq_cur \in Nat BY DEF IInv, TypeOK
  <2>2. ASSUME NEW q \in Recver, q # r PROVE MessagesOf(q)'
    <3>1. up'[q] = up[q] /\ has_all_done'[q] = has_all_done[q]
          BY <1>6, <2>2 DEF StAllDone, IInv, TypeOK
    <3>2. /\ q \in Counted' <=> q \in Counted
          /\ seq_cur' \in Nat /\ seq_cur' >= seq_cur /\ seq_max' = seq_max /\ first' = first
          /\ Handled(q)' <=> Handled(q)
          BY <1>2, <2>1 DEF StAllDone, Handled
    <3>3. QED BY <3>1, <3>2, MessagesKept
  <2>3. MessagesOf(r)'
    <3>1. up'[r] = <<>> BY <1>6 DEF IInv
    <3>2. ~HasF(r)' /\ ~HasA(r)' BY <3>1 DEF HasF, HasA
    <3>3. MessagesOf(r) BY DEF IInv, Messages
    <3>4. QED BY <1>1, <1>2, <3>1, <3>2, <3>3 DEF StAllDone, MessagesOf, Handled
  <2>4. QED BY <2>2, <2>3 DEF Messages
<1>9. InHand' BY DEF StAllDone, IInv, InHand
<1>10. WholeRound' BY DEF StAllDone, IInv, WholeRound
<1>11. KnownEnd' BY <1>2 DEF StAllDone, IInv, KnownEnd
<1>12. KnownDone' BY <1>1, <1>3, <1>4 DEF StAllDone, IInv, KnownDone
<1>13. QED BY <1>5, <1>7, <1>8, <1>9, <1>10, <1>11, <1>12 DEF IInv

LEMMA StPopStep == ASSUME IInv, StPop PROVE IInv'
<1> USE DEF stream, counts, st, net
<1>1. pq \in Seq(Recver) /\ arr \in Seq(Recver) /\ pq # <<>> BY DEF StPop, IInv, TypeOK
<1>2. Head(pq) \in Recver /\ Tail(pq) \in Seq(Recver) BY <1>1, HeadTailProperties
<1>3. Append(arr, Head(pq)) \in Seq(Recver) BY <1>1, <1>2, AppendProperties
<1>4. TypeOK' BY <1>2, <1>3 DEF StPop, IInv, TypeOK
<1>5. Counted' = Counted /\ AllDone' = AllDone BY DEF StPop, Counted, AllDone
<1>6. Messages'
  <2>1. seq_cur \in Nat BY DEF IInv, TypeOK
  <2>2. ASSUME NEW q \in Recver PROVE MessagesOf(q)'
        BY <1>5, <2>1, MessagesKept DEF StPop, Handled
  <2>3. QED BY <2>2 DEF Messages
<1>7. InHand' /\ WholeRound' BY DEF StPop, IInv, InHand, WholeRound
<1>8. KnownEnd' BY <1>5 DEF StPop, IInv, KnownEnd
<1>9. KnownDone' BY <1>5 DEF StPop, IInv, KnownDone
<1>10. up' \in [Recver -> Seq(Report)] BY DEF StPop, IInv
<1>11. QED BY <1>4, <1>6, <1>7, <1>8, <1>9, <1>10 DEF IInv

LEMMA StFastDoneStep == ASSUME IInv, StFastDone PROVE IInv'
<1> USE DEF stream, counts, st
<1>1. arr \in Seq(Recver) /\ arr # <<>> BY DEF StFastDone, IInv, TypeOK
<1>2. Head(arr) \in Recver /\ Tail(arr) \in Seq(Recver) BY <1>1, HeadTailProperties
<1>3. fast_done' \in [Recver -> BOOLEAN] BY <1>2 DEF StFastDone, IInv, TypeOK
<1>4. TypeOK' BY <1>2, <1>3 DEF StFastDone, IInv, TypeOK
<1>5. Counted' = Counted /\ AllDone' = AllDone BY DEF StFastDone, Counted, AllDone
<1>6. Messages'
  <2>1. seq_cur \in Nat BY DEF IInv, TypeOK
  <2>2. ASSUME NEW q \in Recver PROVE MessagesOf(q)'
        BY <1>5, <2>1, MessagesKept DEF StFastDone, Handled
  <2>3. QED BY <2>2 DEF Messages
<1>7. InHand' /\ WholeRound' BY DEF StFastDone, IInv, InHand, WholeRound
<1>8. last BY DEF StFastDone, IInv, KnownEnd
<1>9. KnownEnd' BY <1>5, <1>8 DEF StFastDone, IInv, KnownEnd
<1>10. KnownDone' BY <1>5 DEF StFastDone, IInv, KnownDone
<1>11. up' \in [Recver -> Seq(Report)] BY DEF StFastDone, IInv
<1>12. QED BY <1>4, <1>6, <1>7, <1>9, <1>10, <1>11 DEF IInv

LEMMA SendStep == ASSUME IInv, Send PROVE IInv'
  BY StFirstStep, StAllDoneStep, StCompareStep, StRoundStep, StEndStep, StPopStep, StFastDoneStep
     DEF Send

-----------------------------------------------------------------------------
(* The receivers.                                                          *)

LEMMA RecverFirstStep == ASSUME IInv, NEW r \in Recver, RecverFirst(r) PROVE IInv'
<1> USE DEF stream, ends, counts, st
<1>1. PICK p \in 0 .. (seq_cur - 1) :
        /\ first' = [first EXCEPT ![r] = p]
        /\ up' = [up EXCEPT ![r] = Append(@, [type |-> "FIRST", seq |-> p % seq_max])]
      BY DEF RecverFirst
<1>2. seq_max \in Nat \ {0} /\ seq_cur \in Nat /\ p \in Nat /\ p < seq_cur
      BY SizeIsPositive DEF IInv, TypeOK
<1>3. up[r] = <<>> /\ r \notin Counted /\ ~Handled(r) /\ ~has_all_done[r]
  <2>1. up[r] = <<>> /\ r \notin Counted BY DEF RecverFirst, IInv, Messages, MessagesOf
  <2>2. ~HasF(r) BY <2>1 DEF HasF
  <2>3. QED BY <2>1, <2>2 DEF RecverFirst, IInv, Messages, MessagesOf
<1> DEFINE f == [type |-> "FIRST", seq |-> p % seq_max]
<1>4. f \in Report /\ f.type = "FIRST" BY <1>2, DivMod DEF Report
<1>5. up' = [up EXCEPT ![r] = <<f>>]
  <2> HIDE DEF f
  <2>1. Append(<<>>, f) = <<f>> BY Appended
  <2>2. QED BY <1>1, <1>3, <2>1 DEF f
<1>6. up' \in [Recver -> Seq(Report)]
  <2> HIDE DEF f
  <2>1. <<f>> \in Seq(Report) BY <1>4
  <2>2. QED BY <1>5, <2>1 DEF IInv
<1>7. first' \in [Recver -> Nat \union {NoEnd}] /\ first'[r] = p /\ first'[r] # NoEnd
      BY <1>1, <1>2 DEF IInv, TypeOK, NoEnd
<1>8. TypeOK' BY <1>7 DEF RecverFirst, IInv, TypeOK
<1>9. Counted' = Counted /\ AllDone' = AllDone BY DEF RecverFirst, Counted, AllDone
<1>10. Messages'
  <2>1. ASSUME NEW q \in Recver, q # r PROVE MessagesOf(q)'
    <3>1. up'[q] = up[q] /\ first'[q] = first[q] BY <1>1, <1>5, <2>1 DEF IInv, TypeOK
    <3>2. QED BY <1>2, <1>9, <3>1, MessagesKept DEF RecverFirst, Handled
  <2>2. MessagesOf(r)'
    <3>1. up'[r] = <<f>> BY <1>5 DEF IInv
    <3>2. F(r)' = f BY <1>7 DEF RecverFirst, F
    <3>3. HasF(r)' /\ ~HasA(r)'
      <4> HIDE DEF f
      <4>1. A' = A BY DEF A
      <4>2. QED BY <1>4, <3>1, <3>2, <4>1, Forms DEF HasF, HasA
    <3>4. QED BY <1>2, <1>3, <1>7, <1>9, <3>3 DEF RecverFirst, MessagesOf, Handled
  <2>3. QED BY <2>1, <2>2 DEF Messages
<1>11. InHand'
  <2>1. st_pc = "round" => first'[st_r] = first[st_r]
        BY <1>1, <1>3 DEF IInv, TypeOK, Handled
  <2>2. QED BY <2>1 DEF RecverFirst, IInv, InHand
<1>12. WholeRound'
  <2>1. seqEnd[r] = NoEnd BY <1>3 DEF Counted
  <2>2. \A q \in Recver \ {r} : first'[q] = first[q] BY <1>1 DEF IInv, TypeOK
  <2>3. QED BY <2>1, <2>2 DEF RecverFirst, IInv, WholeRound
<1>13. KnownEnd' BY <1>9 DEF RecverFirst, IInv, KnownEnd
<1>14. KnownDone' BY <1>9 DEF RecverFirst, IInv, KnownDone
<1>15. QED BY <1>6, <1>8, <1>10, <1>11, <1>12, <1>13, <1>14 DEF IInv

(* A receiver that has been told that the stream is over has had its round. *)
LEMMA ToldIsServed ==
    ASSUME IInv, NEW r \in Recver, fast_done[r], first[r] # NoEnd
    PROVE  seq_cur >= first[r] + seq_max
<1>1. seq_end # SEQNUM_MAX /\ seq_end <= seq_cur BY DEF IInv, KnownEnd
<1>2. seqEnd[r] # NoEnd /\ seqEnd[r] <= seq_end BY <1>1 DEF IInv, KnownEnd
<1>3. seqEnd[r] >= first[r] + seq_max BY <1>2 DEF IInv, WholeRound
<1>4. /\ seqEnd[r] \in Nat /\ first[r] \in Nat /\ seq_max \in Nat /\ seq_cur \in Nat
      /\ seq_end \in Nat
      BY <1>2, SizeIsPositive DEF IInv, TypeOK
<1>5. QED BY <1>1, <1>2, <1>3, <1>4

LEMMA RecverAllStep == ASSUME IInv, NEW r \in Recver, RecverAll(r) PROVE IInv'
<1> USE DEF stream, ends, counts, st
<1>1. seq_max > 1 /\ first[r] # NoEnd /\ seq_cur >= first[r] + seq_max /\ ~has_all_done[r]
      BY ToldIsServed DEF RecverAll, RecverReported
<1>2. F(r) \in Report /\ A \in Report /\ A.type = "ALL"
  <2>1. first[r] \in Nat /\ seq_max \in Nat \ {0} BY <1>1, SizeIsPositive DEF IInv, TypeOK
  <2>2. first[r] % seq_max \in Nat BY <2>1, DivMod
  <2>3. QED BY <2>2 DEF F, A, Report
<1>3. up[r] = <<>> \/ up[r] = <<F(r)>>
  <2>1. up[r] # <<A>>
    <3>1. Len(<<A>>) = 1 /\ <<A>>[1].type = "ALL" BY <1>2
    <3>2. QED BY <3>1 DEF RecverAll, RecverReported
  <2>2. up[r] # <<F(r), A>>
    <3>1. Len(<<F(r), A>>) = 2 /\ <<F(r), A>>[2].type = "ALL" BY <1>2
    <3>2. QED BY <3>1 DEF RecverAll, RecverReported
  <2>3. QED BY <2>1, <2>2 DEF IInv, Messages, MessagesOf, HasF
<1>4. up' = [up EXCEPT ![r] = Append(up[r], A)] BY DEF RecverAll, A
<1>5. up'[r] = IF up[r] = <<>> THEN <<A>> ELSE <<F(r), A>>
  <2>1. Append(<<>>, A) = <<A>> /\ Append(<<F(r)>>, A) = <<F(r), A>> BY Appended
  <2>2. up'[r] = Append(up[r], A) BY <1>4 DEF IInv
  <2>3. QED BY <1>3, <2>1, <2>2
<1>6. up' \in [Recver -> Seq(Report)]
  <2>1. Append(up[r], A) \in Seq(Report) BY <1>2, AppendProperties DEF IInv
  <2>2. QED BY <1>4, <2>1 DEF IInv
<1>7. TypeOK' BY DEF RecverAll, IInv, TypeOK
<1>8. Counted' = Counted /\ AllDone' = AllDone BY DEF RecverAll, Counted, AllDone
<1>9. Messages'
  <2>1. ASSUME NEW q \in Recver, q # r PROVE MessagesOf(q)'
    <3>1. up'[q] = up[q] /\ seq_cur \in Nat BY <1>4, <2>1 DEF IInv, TypeOK
    <3>2. QED BY <1>8, <3>1, MessagesKept DEF RecverAll, Handled
  <2>2. MessagesOf(r)'
    <3>1. F(r)' = F(r) /\ A' = A BY DEF RecverAll, F, A
    <3>2. F(r).type = "FIRST" BY DEF F
    <3>3. (HasF(r)' <=> HasF(r)) /\ HasA(r)' /\ (up'[r] = <<A>> \/ HasF(r)')
      <4> HIDE DEF F
      <4>1. QED BY <1>3, <1>5, <3>1, <3>2, Forms DEF HasF, HasA
    <3>4. MessagesOf(r) BY DEF IInv, Messages
    <3>5. QED BY <1>1, <1>8, <3>1, <3>3, <3>4 DEF RecverAll, MessagesOf, Handled
  <2>3. QED BY <2>1, <2>2 DEF Messages
<1>10. InHand' /\ WholeRound' BY DEF RecverAll, IInv, InHand, WholeRound
<1>11. KnownEnd' BY <1>8 DEF RecverAll, IInv, KnownEnd
<1>12. KnownDone' BY <1>8 DEF RecverAll, IInv, KnownDone
<1>13. QED BY <1>6, <1>7, <1>9, <1>10, <1>11, <1>12 DEF IInv

LEMMA RecverDiesStep == ASSUME IInv, NEW r \in Recver, RecverDies(r) PROVE IInv'
<1> USE DEF stream, ends, counts, st
<1>1. PICK k \in 0 .. Len(up[r]) :
        /\ Handled(r) => k > 0
        /\ up' = [up EXCEPT ![r] = SubSeq(up[r], 1, k)]
      BY DEF RecverDies, Handled
<1>2. MessagesOf(r) BY DEF IInv, Messages
<1>3. up'[r] = SubSeq(up[r], 1, k) BY <1>1 DEF IInv
<1>4. /\ up'[r] \in {<<>>, <<A>>, <<F(r)>>, <<F(r), A>>}
      /\ HasF(r) /\ k > 0 => up'[r] \in {<<F(r)>>, <<F(r), A>>}
      /\ up'[r] = <<A>> => up[r] = <<A>>
      /\ up'[r] = <<F(r), A>> => up[r] = <<F(r), A>>
      /\ up'[r] = <<F(r)>> => HasF(r)
      /\ up[r] = <<>> => up'[r] = <<>>
  <2>1. F(r).type = "FIRST" BY DEF F
  <2> HIDE DEF F
  <2>2. /\ <<F(r)>> # <<A>> /\ <<F(r), A>> # <<A>> /\ <<F(r), A>> # <<F(r)>>
        /\ <<F(r)>> # <<>> /\ <<A>> # <<>> /\ <<F(r), A>> # <<>>
        BY <2>1, Forms
  <2>3. CASE up[r] = <<>>
    <3>1. up'[r] = <<>> BY <1>3, <2>3, Cut
    <3>2. QED BY <2>2, <2>3, <3>1 DEF HasF
  <2>4. CASE up[r] = <<A>>
    <3>1. up'[r] \in {<<>>, <<A>>} BY <1>3, <2>4, Cut
    <3>2. QED BY <2>2, <2>4, <3>1 DEF HasF
  <2>5. CASE up[r] = <<F(r)>>
    <3>1. up'[r] = IF k = 0 THEN <<>> ELSE <<F(r)>> BY <1>3, <2>5, Cut
    <3>2. QED BY <2>2, <2>5, <3>1 DEF HasF
  <2>6. CASE up[r] = <<F(r), A>>
    <3>1. up'[r] = IF k = 0 THEN <<>> ELSE IF k = 1 THEN <<F(r)>> ELSE <<F(r), A>>
          BY <1>3, <2>6, Cut
    <3>2. QED BY <2>2, <2>6, <3>1 DEF HasF
  <2>7. QED BY <1>2, <2>3, <2>4, <2>5, <2>6 DEF MessagesOf, HasF
<1>5. up' \in [Recver -> Seq(Report)]
  <2>1. Len(up[r]) \in Nat /\ \A i \in 1 .. Len(up[r]) : up[r][i] \in Report
        BY ElementOfSeq, LenProperties DEF IInv
  <2>2. SubSeq(up[r], 1, k) \in Seq(Report) BY <2>1, SubSeqProperties
  <2>3. QED BY <1>1, <2>2 DEF IInv
<1>6. TypeOK' BY SendAssumption DEF RecverDies, IInv, TypeOK
<1>7. Counted' = Counted /\ AllDone' = AllDone BY DEF RecverDies, Counted, AllDone
<1>8. Messages'
  <2>1. ASSUME NEW q \in Recver, q # r PROVE MessagesOf(q)'
    <3>1. up'[q] = up[q] /\ seq_cur \in Nat BY <1>1, <2>1 DEF IInv, TypeOK
    <3>2. QED BY <1>7, <3>1, MessagesKept DEF RecverDies, Handled
  <2>2. MessagesOf(r)'
    <3>1. F(r)' = F(r) /\ A' = A BY DEF RecverDies, F, A
    <3>2. Handled(r) => HasF(r)' BY <1>1, <1>2, <1>4, <3>1 DEF MessagesOf, HasF
    <3>3. /\ HasF(r)' => HasF(r)
          /\ HasA(r)' => HasA(r)
          /\ up'[r] = <<>> \/ up'[r] = <<A>> \/ HasF(r)'
      <4> HIDE DEF F
      <4>1. QED BY <1>4, <3>1 DEF HasF, HasA
    <3>4. QED BY <1>2, <1>4, <1>7, <3>1, <3>2, <3>3 DEF RecverDies, MessagesOf, Handled
  <2>3. QED BY <2>1, <2>2 DEF Messages
<1>9. InHand' /\ WholeRound' BY DEF RecverDies, IInv, InHand, WholeRound
<1>10. KnownEnd' BY <1>7 DEF RecverDies, IInv, KnownEnd
<1>11. KnownDone' BY <1>7 DEF RecverDies, IInv, KnownDone
<1>12. QED BY <1>5, <1>6, <1>8, <1>9, <1>10, <1>11 DEF IInv

-----------------------------------------------------------------------------
(* The results.                                                            *)

LEMMA UnchangedIInv == ASSUME IInv, UNCHANGED vars PROVE IInv'
  BY DEF vars, stream, ends, counts, st, net, IInv, TypeOK, Messages, MessagesOf, InHand, WholeRound,
         KnownEnd, KnownDone, HasF, HasA, F, A, Counted, AllDone, Handled

LEMMA NextIInv == IInv /\ [Next]_vars => IInv'
<1> SUFFICES ASSUME IInv, [Next]_vars PROVE IInv' OBVIOUS
<1>1. QED BY NetmapStep, SendStep, RecverFirstStep, RecverAllStep, RecverDiesStep, UnchangedIInv
          DEF Next, Stop

(* The invariant holds of the two threads and the receivers together.      *)
THEOREM SendInvariant == Spec => []IInv
  BY InitIInv, NextIInv, PTL DEF Spec

(* Everything the two threads keep about a transfer has its type; the      *)
(* counters of reports never pass the number of receivers                  *)
(* (thread_send.c:286-372).                                                *)
THEOREM TypeCorrect == Spec => []TypeOK
<1>1. IInv => TypeOK BY DEF IInv
<1>2. QED BY <1>1, SendInvariant, PTL

(* The end computed for a receiver in multicastState_updateSeqEnd          *)
(* (hero.c:992-1027) is a whole number of rounds after its first packet,   *)
(* although the netmap thread moves seq_cur between the two reads of it.   *)
THEOREM EveryEndIsAWholeRound == Spec => []WholeRound
<1>1. IInv => WholeRound BY DEF IInv
<1>2. QED BY <1>1, SendInvariant, PTL

(* The netmap thread marks the last packet (thread_data.c:384-395,         *)
(* 500-509), and the send thread sends MSG_FAST_DONE, only when the end of *)
(* every receiver has been reached.                                        *)
THEOREM NobodyIsCutShort == Spec => []NobodyCutShort
<1>1. IInv => NobodyCutShort
  <2>1. SUFFICES ASSUME IInv, last \/ (\E r \in Recver : fast_done[r]), NEW q \in Recver
                 PROVE  seqEnd[q] # NoEnd /\ seqEnd[q] <= seq_cur
        BY DEF NobodyCutShort
  <2>2. seq_end # SEQNUM_MAX /\ seq_end <= seq_cur BY <2>1 DEF IInv, KnownEnd
  <2>3. seqEnd[q] # NoEnd /\ seqEnd[q] <= seq_end BY <2>1, <2>2 DEF IInv, KnownEnd
  <2>4. seqEnd[q] \in Nat /\ seq_end \in Nat /\ seq_cur \in Nat BY <2>1, <2>3 DEF IInv, TypeOK
  <2>5. QED BY <2>2, <2>3, <2>4
<1>2. QED BY <1>1, SendInvariant, PTL

(* The client of the sender is told that everybody has the data            *)
(* (thread_send.c:309-318, 357-366) once, and only when everybody does.    *)
THEOREM ToldOnceAndTruly == Spec => []AllSentIsTrue
<1>1. IInv => AllSentIsTrue
  <2>1. SUFFICES ASSUME IInv, all_sent > 0, NEW r \in Recver PROVE all_sent = 1 /\ Complete(r)
    <3>1. Recver # {} BY SendAssumption
    <3>2. QED BY <3>1 DEF AllSentIsTrue
  <2>2. n_all_done = NInit /\ all_sent = 1 BY <2>1 DEF IInv, KnownDone
  <2>3. MessagesOf(r) BY <2>1 DEF IInv, Messages
  <2>4. CASE seq_max = 1
    <3>1. r \in Counted BY <2>1, <2>2, <2>4, CountedFinite DEF IInv, KnownDone, KnownEnd
    <3>2. QED BY <2>2, <2>3, <2>4, <3>1 DEF MessagesOf, Complete
  <2>5. CASE seq_max > 1
    <3>1. r \in AllDone BY <2>1, <2>2, <2>5, CountedFinite DEF IInv, KnownDone
    <3>2. QED BY <2>2, <2>3, <3>1 DEF MessagesOf, Complete, AllDone
  <2>6. QED BY <2>1, <2>4, <2>5, SizeIsPositive DEF IInv
<1>2. QED BY <1>1, SendInvariant, PTL
=============================================================================
