------------------------- MODULE NetmapPort_proofs -------------------------
(***************************************************************************)
(* Proofs about NetmapPort: the indices of a ring of any size tell when    *)
(* the last packet of a multicast has left it, whatever packets of the     *)
(* host are among or behind those of the multicast, however far the NIC    *)
(* gets between two looks and whenever the end becomes known; every packet *)
(* carries the bytes its number says, with a checksum that is right; and   *)
(* the rings with their indices implement the queue of TxQueue.            *)
(***************************************************************************)
EXTENDS NetmapPort, FiniteSetTheorems, SequenceTheorems, WellFoundedInduction, TLAPS

(* Slot i holds a packet the kernel has.                                   *)
InKernel(i) == Dist(num_slots, tail, i) \in 1 .. InNic
IsData(i) == InKernel(i) /\ slot[i].kind = "data"

-----------------------------------------------------------------------------
(* The invariant.                                                          *)

Types ==
    /\ head \in Slots /\ tail \in Slots /\ DOMAIN slot = Slots
    /\ h_head \in HSlots /\ h_tail \in HSlots /\ DOMAIN h_slot = HSlots
    /\ am_head \in Slots /\ am_tail \in Slots
    /\ n_multi \in Nat /\ n_host \in Nat /\ left \in Nat
    /\ last \in BOOLEAN /\ need_release \in BOOLEAN /\ togo \in Int

(* The host's ring never holds a packet of a multicast.                    *)
HostsOwn == \A j \in HSlots : h_slot[j].kind # "data"

(* What the thread knows of the multicast where it stands.                 *)
Control ==
    /\ pc = "packet" => Alive /\ left <= nm_ring_space /\ left <= n_multi
    /\ Alive => (last <=> need_release)
    /\ need_release => Alive
    /\ Alive /\ last /\ pc \in {"poll", "send", "packet"} => n_multi = 0

(* Between the marks: from am_tail tail has not come as far as am_head, or *)
(* nothing of the multicast is left.                                       *)
NotYet ==
    /\ Dist(num_slots, tail, am_head) >= 1
    /\ Dist(num_slots, am_tail, tail) + Dist(num_slots, tail, am_head)
            = Dist(num_slots, am_tail, am_head)
    /\ \A i \in Slots : IsData(i) => Dist(num_slots, tail, i) <= Dist(num_slots, tail, am_head)
Left == \A i \in Slots : ~IsData(i)

Marks ==
    /\ need_release => NotYet \/ Left
    /\ ~Alive => Left

PInv == Types /\ HostsOwn /\ Control /\ Marks

-----------------------------------------------------------------------------
(* Ways round a ring.                                                      *)

LEMMA Ways ==
    ASSUME NEW n \in Nat, n >= 2, NEW a \in 0 .. n - 1, NEW b \in 0 .. n - 1
    PROVE  /\ Dist(n, a, b) \in 0 .. n - 1
           /\ Dist(n, a, b) = 0 <=> a = b
           /\ \A k \in 0 .. n - 1 : Plus(n, a, k) \in 0 .. n - 1 /\ Dist(n, a, Plus(n, a, k)) = k
           /\ \A k \in 0 .. n - 1 : Dist(n, a, b) = k => b = Plus(n, a, k)
  BY DEF Dist, Plus

(* From a further on by k.                                                 *)
LEMMA Onward ==
    ASSUME NEW n \in Nat, n >= 2, NEW a \in 0 .. n - 1, NEW b \in 0 .. n - 1,
           NEW k \in 0 .. n - 1
    PROVE  /\ k <= Dist(n, a, b) => Dist(n, Plus(n, a, k), b) = Dist(n, a, b) - k
           /\ Dist(n, b, a) + k < n => Dist(n, b, Plus(n, a, k)) = Dist(n, b, a) + k
           /\ Dist(n, b, a) + k >= n => Dist(n, b, Plus(n, a, k)) = Dist(n, b, a) + k - n
  BY DEF Dist, Plus

LEMMA Back ==
    ASSUME NEW n \in Nat, n >= 2, NEW a \in 0 .. n - 1, NEW b \in 0 .. n - 1,
           NEW k \in 0 .. n - 1, Dist(n, Plus(n, a, k), b) + k < n
    PROVE  Dist(n, a, b) = Dist(n, Plus(n, a, k), b) + k
  BY DEF Dist, Plus

(* What is not in the first m slots after a, on the way from a to c, nor   *)
(* beyond them before c, is on the way from c to a.                        *)
LEMMA Behind ==
    ASSUME NEW n \in Nat, n >= 2, NEW a \in 0 .. n - 1, NEW c \in 0 .. n - 1, NEW i \in 0 .. n - 1,
           NEW m \in 0 .. Dist(n, a, c), Dist(n, c, i) \in 1 .. (n - 1 - Dist(n, a, c)) + m,
           ~(Dist(n, a, i) < m)
    PROVE  Dist(n, c, i) <= n - 1 - Dist(n, a, c)
  BY DEF Dist

LEMMA Sizes2 == num_slots \in Nat /\ num_slots >= 2 /\ host_slots \in Nat /\ host_slots >= 2
  BY PortAssumption

LEMMA KernelHas ==
    ASSUME Types
    PROVE  /\ nm_ring_space \in 0 .. num_slots - 1 /\ InNic \in 0 .. num_slots - 1
           /\ nm_ring_space + InNic = num_slots - 1
           /\ pkt_queued \in 0 .. host_slots - 1
           /\ Dist(num_slots, tail, head) = IF InNic = num_slots - 1 THEN 0 ELSE InNic + 1
  BY Sizes2 DEF Types, Slots, HSlots, nm_ring_space, InNic, pkt_queued, Dist

LEMMA Kinds ==
    /\ Junk.kind # "data" /\ \A h : Host(h).kind # "data"
    /\ \A s, from, bytes : Data(s, from, bytes).kind = "data"
  BY DEF Junk, Host, Data

-----------------------------------------------------------------------------
(* The NIC sends d packets.                                                *)
LEMMA Transmitted ==
    ASSUME Types, NEW d \in 0 .. InNic, Transmit(d), head' = head
    PROVE  InNic' = InNic - d
<1> DEFINE n == num_slots
<1>1. n \in Nat /\ n >= 2 /\ tail \in 0 .. n - 1 /\ head \in 0 .. n - 1
      BY Sizes2 DEF Types, Slots
<1>2. InNic \in 0 .. n - 1 /\ d \in 0 .. n - 1 BY <1>1, KernelHas
<1>3. tail' = Plus(n, tail, d) BY DEF Transmit
<1>4. InNic = n - 1 - Dist(n, head, tail) /\ InNic' = n - 1 - Dist(n, head, tail')
      BY DEF InNic, nm_ring_space
<1>5. Dist(n, head, tail) \in 0 .. n - 1 BY <1>1, Ways
<1>6. Dist(n, head, tail) + d < n BY <1>1, <1>2, <1>4, <1>5
<1>7. Dist(n, head, tail') = Dist(n, head, tail) + d BY <1>1, <1>2, <1>3, <1>6, Onward
<1>8. QED BY <1>1, <1>2, <1>4, <1>5, <1>7

LEMMA TransmitKeeps ==
    ASSUME Types, Marks, NEW d \in 0 .. InNic, Transmit(d),
           UNCHANGED <<head, am_head, am_tail, need_release, bcd_state>>
    PROVE  tail' \in Slots /\ DOMAIN slot' = Slots /\ Marks'
<1> DEFINE n == num_slots
<1>1. n \in Nat /\ n >= 2 /\ tail \in 0 .. n - 1 /\ head \in 0 .. n - 1 /\ am_head \in 0 .. n - 1
      /\ am_tail \in 0 .. n - 1 /\ Slots = 0 .. n - 1
      BY Sizes2 DEF Types, Slots
<1>2. InNic \in 0 .. n - 1 /\ d \in 0 .. n - 1 BY <1>1, KernelHas
<1>0. /\ Dist(n, tail, am_head) \in 0 .. n - 1 /\ Dist(n, am_tail, tail) \in 0 .. n - 1
      /\ Dist(n, am_tail, am_head) \in 0 .. n - 1
      BY <1>1, Ways
<1>3. tail' = Plus(n, tail, d) /\ tail' \in 0 .. n - 1 /\ Dist(n, tail, tail') = d
      BY <1>1, <1>2, Ways DEF Transmit
<1>4. DOMAIN slot' = Slots /\ \A i \in Slots :
            slot'[i] = IF Dist(n, tail, i) \in 1 .. d THEN Junk ELSE slot[i]
      BY DEF Transmit
<1>5. InNic' = InNic - d BY Transmitted
<1>6. ASSUME NEW i \in Slots, IsData(i)'
      PROVE  IsData(i) /\ Dist(n, tail', i) = Dist(n, tail, i) - d /\ Dist(n, tail, i) > d
  <2>1. Dist(n, tail', i) \in 1 .. InNic - d /\ slot'[i].kind = "data"
        BY <1>5, <1>6 DEF IsData, InKernel
  <2>2. Dist(n, tail, i) = Dist(n, tail', i) + d
    <3>1. Dist(n, Plus(n, tail, d), i) + d < n BY <1>1, <1>2, <1>3, <2>1
    <3>2. QED BY <1>1, <1>2, <1>3, <3>1, Back
  <2>3. slot'[i] = slot[i] BY <1>2, <1>4, <2>1, <2>2
  <2>4. QED BY <1>2, <2>1, <2>2, <2>3 DEF IsData, InKernel
<1>7. Left => Left' BY <1>6 DEF Left
<1>8. ASSUME NotYet PROVE NotYet' \/ Left'
  <2>1. CASE d < Dist(n, tail, am_head)
    <3>1. Dist(n, tail', am_head) = Dist(n, tail, am_head) - d
      <4>1. d <= Dist(n, tail, am_head) BY <1>0, <1>2, <2>1
      <4>2. QED BY <1>1, <1>2, <1>3, <4>1, Onward
    <3>2. Dist(n, am_tail, tail') = Dist(n, am_tail, tail) + d
      <4>1. Dist(n, am_tail, tail) + d < n
            BY <1>0, <1>1, <1>2, <1>8, <2>1 DEF NotYet
      <4>2. QED BY <1>1, <1>2, <1>3, <4>1, Onward
    <3>3. Dist(n, tail, am_head) \in 0 .. n - 1 /\ Dist(n, am_tail, tail) \in 0 .. n - 1
          BY <1>1, Ways
    <3>4. /\ Dist(n, tail', am_head) >= 1
          /\ Dist(n, am_tail, tail') + Dist(n, tail', am_head) = Dist(n, am_tail, am_head)
          BY <1>2, <1>8, <2>1, <3>1, <3>2, <3>3 DEF NotYet
    <3>5. ASSUME NEW i \in Slots, IsData(i)'
          PROVE  Dist(n, tail', i) <= Dist(n, tail', am_head)
      <4>1. Dist(n, tail, i) <= Dist(n, tail, am_head) BY <1>6, <1>8, <3>5 DEF NotYet
      <4>2. Dist(n, tail, i) \in 0 .. n - 1 BY <1>1, Ways
      <4>3. QED BY <1>2, <1>6, <3>1, <3>3, <3>5, <4>1, <4>2
    <3>6. am_head' = am_head /\ am_tail' = am_tail OBVIOUS
    <3>7. NotYet' BY <3>4, <3>5, <3>6 DEF NotYet
    <3>8. QED BY <3>7
  <2>2. CASE d >= Dist(n, tail, am_head)
    <3>1. ASSUME NEW i \in Slots, IsData(i)' PROVE FALSE
      <4>1. Dist(n, tail, i) <= Dist(n, tail, am_head) BY <1>6, <1>8, <3>1 DEF NotYet
      <4>2. Dist(n, tail, i) \in 0 .. n - 1 /\ Dist(n, tail, am_head) \in 0 .. n - 1 BY <1>1, Ways
      <4>3. QED BY <1>2, <1>6, <2>2, <3>1, <4>1, <4>2
    <3>2. QED BY <3>1 DEF Left
  <2>3. QED BY <1>0, <1>2, <2>1, <2>2
<1>9. QED BY <1>1, <1>3, <1>4, <1>7, <1>8 DEF Marks, Alive

(* Packets that are not of the multicast go into the ring behind it.       *)
LEMMA HostBehind ==
    ASSUME Types, Marks, NEW m \in 0 .. nm_ring_space, head' = Plus(num_slots, head, m),
           \A i \in Slots : slot'[i] = slot[i] \/ slot'[i].kind # "data",
           \A i \in Slots : Dist(num_slots, head, i) < m => slot'[i].kind # "data",
           UNCHANGED <<tail, am_head, am_tail, need_release, bcd_state>>
    PROVE  Marks'
<1> DEFINE n == num_slots
<1>1. n \in Nat /\ n >= 2 /\ tail \in 0 .. n - 1 /\ head \in 0 .. n - 1 /\ Slots = 0 .. n - 1
      BY Sizes2 DEF Types, Slots
<1>2. m \in 0 .. n - 1 /\ nm_ring_space = Dist(n, head, tail) BY KernelHas DEF nm_ring_space
<1>3. InNic' = InNic + m
      BY <1>1, <1>2 DEF InNic, nm_ring_space, Dist, Plus
<1>4. ASSUME NEW i \in Slots, IsData(i)' PROVE IsData(i)
  <2>1. Dist(n, tail, i) \in 1 .. InNic + m /\ slot'[i].kind = "data"
        BY <1>3, <1>4 DEF IsData, InKernel
  <2>2. slot[i].kind = "data" /\ ~(Dist(n, head, i) < m) BY <2>1
  <2>3. Dist(n, tail, i) <= InNic
    <3>1. InNic = n - 1 - Dist(n, head, tail) BY DEF InNic, nm_ring_space
    <3>2. i \in 0 .. n - 1 /\ m \in 0 .. Dist(n, head, tail)
          /\ Dist(n, tail, i) \in 1 .. (n - 1 - Dist(n, head, tail)) + m
          BY <1>1, <1>2, <2>1, <3>1
    <3>3. Dist(n, tail, i) <= n - 1 - Dist(n, head, tail) BY <1>1, <2>2, <3>2, Behind
    <3>4. QED BY <3>1, <3>3
  <2>4. InNic \in Nat BY KernelHas
  <2>5. QED BY <1>1, <1>2, <2>1, <2>2, <2>3, <2>4, Ways DEF IsData, InKernel
<1>5. Left => Left' BY <1>4 DEF Left
<1>6. NotYet => NotYet' BY <1>4 DEF NotYet
<1>7. QED BY <1>5, <1>6 DEF Marks, Alive

(* The marks are set when the last packet has gone in.                     *)
LEMMA MarkLastSets == ASSUME Types, MarkLast, UNCHANGED <<head, tail, slot>>
                      PROVE  am_head' \in Slots /\ am_tail' \in Slots /\ (NotYet' \/ Left')
<1> DEFINE n == num_slots
<1>1. n \in Nat /\ n >= 2 /\ tail \in 0 .. n - 1 /\ head \in 0 .. n - 1 /\ Slots = 0 .. n - 1
      BY Sizes2 DEF Types, Slots
<1>2. am_head' = Dist(n, 1, head) /\ am_tail' = tail BY DEF MarkLast
<1>3. am_head' \in 0 .. n - 1 BY <1>1, <1>2, Ways
<1>4. InNic \in 0 .. n - 1 /\ InNic' = InNic BY KernelHas DEF InNic, nm_ring_space
<1>5. \A i \in Slots : IsData(i)' <=> IsData(i) BY <1>4 DEF IsData, InKernel
<1>6. CASE InNic = 0
  <2>1. \A i \in Slots : ~IsData(i) BY <1>6 DEF IsData, InKernel
  <2>2. QED BY <1>1, <1>2, <1>3, <1>5, <2>1 DEF Left
<1>7. CASE InNic > 0
  <2>1. Dist(n, tail, am_head') = InNic
        BY <1>1, <1>2, <1>7 DEF InNic, nm_ring_space, Dist
  <2>2. Dist(n, tail, tail) = 0 BY <1>1, Ways
  <2>3. \A i \in Slots : IsData(i) => Dist(n, tail, i) <= InNic BY <1>4 DEF IsData, InKernel
  <2>4. NotYet' BY <1>2, <1>4, <1>5, <1>7, <2>1, <2>2, <2>3 DEF NotYet
  <2>5. QED BY <1>1, <1>2, <1>3, <2>4
<1>8. QED BY <1>4, <1>6, <1>7

(* As long as the last packet is in the ring the test of the indices says  *)
(* no.                                                                     *)
LEMMA NotPassed == ASSUME Types, NotYet PROVE ~Passed
<1> DEFINE n == num_slots
<1>1. n \in Nat /\ n >= 2 /\ tail \in 0 .. n - 1 /\ am_head \in 0 .. n - 1 /\ am_tail \in 0 .. n - 1
      BY Sizes2 DEF Types, Slots
<1>2. QED BY <1>1 DEF NotYet, Passed, Dist

-----------------------------------------------------------------------------
(* The steps.                                                              *)

LEMMA InitPInv == Init => PInv
<1> SUFFICES ASSUME Init PROVE PInv OBVIOUS
<1>1. Types
  <2>1. last \in BOOLEAN /\ need_release \in BOOLEAN BY DEF Init
  <2>2. QED BY <2>1, Sizes2 DEF Init, Types, Slots, HSlots
<1>2. HostsOwn BY Kinds DEF Init, HostsOwn
<1>3. Control BY DEF Init, Control, Alive
<1>4. Marks BY Kinds DEF Init, Marks, Left, IsData
<1>5. QED BY <1>1, <1>2, <1>3, <1>4 DEF PInv

(* Nothing in the rings has changed.                                       *)
LEMMA MarksKept ==
    ASSUME Marks, UNCHANGED <<head, tail, slot, am_head, am_tail, need_release>>,
           Alive' \/ ~Alive
    PROVE  Marks'
<1>1. \A i \in Slots : IsData(i)' <=> IsData(i) BY DEF IsData, InKernel, InNic, nm_ring_space
<1>2. QED BY <1>1 DEF Marks, NotYet, Left

LEMMA LookStep == ASSUME PInv, LookIdle \/ LookEnded \/ LookSend PROVE PInv'
<1> USE DEF txring, hostring, file, mark, found, end
<1>1. CASE LookIdle
  <2>1. Types' BY <1>1, KernelHas DEF LookIdle, PInv, Types
  <2>2. Marks' BY <1>1, MarksKept DEF LookIdle, PInv, Alive
  <2>3. QED BY <1>1, <2>1, <2>2 DEF LookIdle, PInv, HostsOwn, Control, Alive
<1>2. CASE LookEnded
  <2>1. Alive' BY <1>2 DEF LookEnded, Alive
  <2>2. CASE last
    <3>1. Types' BY <1>2, <2>2, KernelHas DEF LookEnded, PInv, Types
    <3>2. Marks' BY <1>2, <2>1, <2>2, MarksKept DEF LookEnded, PInv
    <3>3. QED BY <1>2, <2>1, <2>2, <3>1, <3>2 DEF LookEnded, PInv, HostsOwn, Control, Alive
  <2>3. CASE ~last
    <3>1. MarkLast BY <1>2, <2>3 DEF LookEnded
    <3>2. am_head' \in Slots /\ am_tail' \in Slots /\ (NotYet' \/ Left')
          BY <1>2, <3>1, MarkLastSets DEF LookEnded, PInv
    <3>3. Types' BY <1>2, <3>1, <3>2, KernelHas DEF LookEnded, MarkLast, PInv, Types
    <3>4. Marks' BY <2>1, <3>2 DEF Marks
    <3>5. QED BY <1>2, <2>1, <3>1, <3>3, <3>4
              DEF LookEnded, MarkLast, PInv, HostsOwn, Control, Alive
  <2>4. QED BY <2>2, <2>3
<1>3. CASE LookSend
  <2>1. Alive' /\ Alive /\ ~last /\ ~need_release
        BY <1>3 DEF LookSend, Alive, PInv, Control
  <2>2. n_multi' \in Nat /\ n_host' \in Nat
    <3>1. known => togo > 0 /\ togo \in Int BY <1>3 DEF LookSend, Ended, PInv, Types
    <3>2. PICK n \in (IF bcd_state' = bcd_state THEN n_multi ELSE 0) .. nm_burst :
              n_multi' = IF known THEN Lesser(n, togo) ELSE n
          BY <1>3 DEF LookSend
    <3>3. n \in Nat BY <3>2, PortAssumption DEF PInv, Types
    <3>4. n_multi' \in Nat BY <3>1, <3>2, <3>3 DEF Lesser
    <3>5. QED BY <1>3, <3>4, KernelHas DEF LookSend, PInv
  <2>3. Types' BY <1>3, <2>2 DEF LookSend, PInv, Types
  <2>4. Marks' BY <1>3, <2>1, MarksKept DEF LookSend, PInv
  <2>5. QED BY <1>3, <2>1, <2>3, <2>4 DEF LookSend, PInv, HostsOwn, Control, Alive
<1>4. QED BY <1>1, <1>2, <1>3

LEMMA HostSendsStep == ASSUME PInv, NEW h \in HostPkt, HostSends(h) PROVE PInv'
<1> USE DEF txring, file, mark, found, end
<1>1. h_tail' \in HSlots
  <2>1. h_tail' = Plus(host_slots, h_tail, 1) /\ h_tail \in 0 .. host_slots - 1 /\ 1 \in 0 .. host_slots - 1
        BY Sizes2 DEF HostSends, PInv, Types, HSlots
  <2>2. QED BY <2>1, Sizes2, Ways DEF HSlots
<1>2. Types' BY <1>1 DEF HostSends, PInv, Types
<1>3. HostsOwn' BY Kinds DEF HostSends, PInv, Types, HostsOwn
<1>4. Marks' BY MarksKept DEF HostSends, PInv, Alive
<1>5. Control' BY DEF HostSends, PInv, Control, Alive, nm_ring_space
<1>6. QED BY <1>2, <1>3, <1>4, <1>5 DEF PInv

LEMMA PollStep == ASSUME PInv, Poll PROVE PInv'
<1> USE DEF hostring, file, mark, end
<1>1. tail' \in Slots /\ DOMAIN slot' = Slots /\ Marks'
  <2>1. CASE UNCHANGED <<tail, slot>>
        BY <2>1, MarksKept DEF Poll, PInv, Types, Alive
  <2>2. CASE \E d \in 0 .. InNic : Transmit(d)
        BY <2>2, TransmitKeeps DEF Poll, PInv
  <2>3. QED BY <2>1, <2>2 DEF Poll
<1>2. Types' BY <1>1 DEF Poll, PInv, Types
<1>3. HostsOwn' BY DEF Poll, PInv, HostsOwn
<1>4. pc' \in {"send", "move", "sync"} BY DEF Poll, Turn
<1>5. Control' BY <1>4 DEF Poll, PInv, Control, Alive
<1>6. QED BY <1>1, <1>2, <1>3, <1>5 DEF PInv

LEMMA AmStep == ASSUME PInv, AmBegin \/ AmPacket \/ AmOver PROVE PInv'
<1> USE DEF hostring, file, mark, found, end, txring
<1>1. CASE AmBegin
  <2>1. left' \in Nat /\ left' <= nm_ring_space /\ left' <= n_multi
        BY <1>1, KernelHas DEF AmBegin, Batch, Lesser, PInv, Types
  <2>2. Types' BY <1>1, <2>1 DEF AmBegin, PInv, Types
  <2>3. Marks' BY <1>1, MarksKept DEF AmBegin, PInv, Alive
  <2>4. Control' BY <1>1, <2>1 DEF AmBegin, PInv, Control, Alive, nm_ring_space
  <2>5. QED BY <1>1, <2>2, <2>3, <2>4 DEF AmBegin, PInv, HostsOwn
<1>2. CASE AmPacket
  <2>1. Alive /\ Alive' /\ ~last /\ ~need_release /\ left \in Nat /\ n_multi \in Nat
        BY <1>2 DEF AmPacket, Alive, PInv, Control, Types
  <2>2. left > 0 /\ left <= nm_ring_space /\ left <= n_multi
        BY <1>2 DEF AmPacket, PInv, Control
  <2>3. head' \in Slots /\ nm_ring_space' = nm_ring_space - 1
    <3>1. /\ num_slots \in Nat /\ num_slots >= 2 /\ head \in 0 .. num_slots - 1
          /\ tail \in 0 .. num_slots - 1
          BY Sizes2 DEF PInv, Types, Slots
    <3>2. head' = Plus(num_slots, head, 1) /\ tail' = tail BY <1>2 DEF AmPacket
    <3>3. 1 <= Dist(num_slots, head, tail) BY <2>1, <2>2, KernelHas DEF nm_ring_space, PInv
    <3>4. QED BY <3>1, <3>2, <3>3, Onward, Ways DEF Slots, nm_ring_space
  <2>4. togo' \in Int BY <1>2 DEF AmPacket, PInv, Types
  <2>5. n_multi' \in Nat /\ left' \in Nat /\ left' <= n_multi' BY <1>2, <2>1, <2>2 DEF AmPacket
  <2>6. Types' BY <1>2, <2>3, <2>4, <2>5 DEF AmPacket, PInv, Types
  <2>7. Marks' BY <1>2, <2>1 DEF AmPacket, Marks
  <2>8. left' <= nm_ring_space'
    <3>1. nm_ring_space \in Nat BY KernelHas DEF PInv
    <3>2. QED BY <1>2, <2>1, <2>2, <2>3, <3>1 DEF AmPacket
  <2>9. Control' BY <1>2, <2>1, <2>5, <2>8 DEF AmPacket, Control
  <2>10. QED BY <1>2, <2>6, <2>7, <2>9 DEF AmPacket, PInv, HostsOwn
<1>3. CASE AmOver
  <2>1. Alive /\ Alive' BY <1>3 DEF AmOver, Alive, PInv, Control
  <2>2. CASE Ended /\ ~last
    <3>1. MarkLast BY <1>3, <2>2 DEF AmOver
    <3>2. am_head' \in Slots /\ am_tail' \in Slots /\ (NotYet' \/ Left')
          BY <1>3, <3>1, MarkLastSets DEF AmOver, PInv
    <3>3. Types' BY <1>3, <3>1, <3>2 DEF AmOver, MarkLast, PInv, Types
    <3>4. Marks' BY <2>1, <3>2 DEF Marks
    <3>5. QED BY <1>3, <2>1, <3>1, <3>3, <3>4 DEF AmOver, MarkLast, PInv, HostsOwn, Control
  <2>3. CASE ~(Ended /\ ~last)
    <3>1. UNCHANGED <<last, mark>> BY <1>3, <2>3 DEF AmOver
    <3>2. Types' BY <1>3, <3>1 DEF AmOver, PInv, Types
    <3>3. Marks' BY <1>3, <2>1, <3>1, MarksKept DEF AmOver, PInv
    <3>4. QED BY <1>3, <2>1, <3>1, <3>2, <3>3 DEF AmOver, PInv, HostsOwn, Control
  <2>4. QED BY <2>2, <2>3
<1>4. QED BY <1>1, <1>2, <1>3

LEMMA MoveStep == ASSUME PInv, Move PROVE PInv'
<1> USE DEF file, mark, found, end
<1> DEFINE m == Moved
<1>1. m \in 0 .. nm_ring_space /\ m \in 0 .. pkt_queued
      BY KernelHas, PortAssumption DEF Moved, Lesser, PInv
<1>2. nm_ring_space \in 0 .. num_slots - 1 /\ pkt_queued \in 0 .. host_slots - 1 BY KernelHas DEF PInv
<1>3. m \in 0 .. num_slots - 1 /\ m \in 0 .. host_slots - 1 BY <1>1, <1>2, Sizes2
<1>4. head' = Plus(num_slots, head, m) /\ h_head' = Plus(host_slots, h_head, m) /\ Swap(m)
      BY DEF Move
<1> HIDE DEF m
<1>5. head' \in Slots /\ h_head' \in HSlots
      BY <1>3, <1>4, Sizes2, Ways DEF PInv, Types, Slots, HSlots
<1>6. DOMAIN slot' = Slots /\ DOMAIN h_slot' = HSlots BY <1>4 DEF Swap
<1>7. Types' BY <1>5, <1>6 DEF Move, PInv, Types
<1>8. HostsOwn' BY <1>4, Kinds DEF Swap, PInv, HostsOwn
<1>9. \A i \in Slots : slot'[i] = IF Dist(num_slots, head, i) < m
                                    THEN h_slot[Plus(host_slots, h_head, Dist(num_slots, head, i))]
                                    ELSE slot[i]
      BY <1>4 DEF Swap
<1>10. ASSUME NEW i \in Slots, Dist(num_slots, head, i) < m
       PROVE  h_slot[Plus(host_slots, h_head, Dist(num_slots, head, i))].kind # "data"
  <2> DEFINE k == Dist(num_slots, head, i)
  <2>1. k \in 0 .. num_slots - 1 BY Sizes2, Ways DEF PInv, Types, Slots
  <2>2. k \in 0 .. host_slots - 1 BY <1>3, <1>10, <2>1, Sizes2
  <2> HIDE DEF k
  <2>3. Plus(host_slots, h_head, k) \in HSlots BY <2>2, Sizes2, Ways DEF PInv, Types, HSlots
  <2>4. QED BY <2>3 DEF k, PInv, HostsOwn
<1>11. Marks'
  <2>1. \A i \in Slots : slot'[i] = slot[i] \/ slot'[i].kind # "data" BY <1>9, <1>10
  <2>2. \A i \in Slots : Dist(num_slots, head, i) < m => slot'[i].kind # "data" BY <1>9, <1>10
  <2>3. UNCHANGED <<tail, am_head, am_tail, need_release, bcd_state>> BY DEF Move
  <2>4. QED BY <1>1, <1>4, <2>1, <2>2, <2>3, HostBehind DEF PInv
<1>12. Control' BY DEF Move, PInv, Control, Alive
<1>13. QED BY <1>7, <1>8, <1>11, <1>12 DEF PInv

LEMMA SyncStep == ASSUME PInv, Sync PROVE PInv'
<1> USE DEF hostring, file, mark, found, end
<1>1. tail' \in Slots /\ DOMAIN slot' = Slots /\ Marks' BY TransmitKeeps DEF Sync, PInv
<1>2. Types' BY <1>1 DEF Sync, PInv, Types
<1>3. QED BY <1>1, <1>2 DEF Sync, PInv, HostsOwn, Control, Alive

(* The multicast is over: its last packet has left.                        *)
LEMMA CheckStep == ASSUME PInv, Check PROVE PInv'
<1> USE DEF hostring, file, found, end, txring
<1>1. \A i \in Slots : IsData(i)' <=> IsData(i) BY DEF Check, IsData, InKernel, InNic, nm_ring_space
<1>2. CASE need_release /\ Passed
  <2>1. Left BY <1>2, NotPassed DEF PInv, Marks
  <2>2. Left' BY <1>1, <2>1 DEF Left
  <2>3. Types'
    <3>1. need_release' \in BOOLEAN BY <1>2 DEF Check
    <3>2. QED BY <1>2, <3>1, Sizes2 DEF Check, PInv, Types, Slots
  <2>4. Marks' BY <2>2 DEF Marks
  <2>5. QED BY <1>2, <2>3, <2>4 DEF Check, PInv, HostsOwn, Control, Alive
<1>3. CASE ~(need_release /\ Passed)
  <2>1. /\ UNCHANGED <<bcd_state, need_release, am_head>>
        /\ am_tail' = IF need_release THEN tail ELSE am_tail
        BY <1>3 DEF Check
  <2>2. Types' BY <2>1 DEF Check, PInv, Types
  <2>3. need_release /\ NotYet => NotYet'
    <3>1. /\ tail \in 0 .. num_slots - 1 /\ am_head \in 0 .. num_slots - 1
          BY DEF PInv, Types, Slots
    <3>2. Dist(num_slots, tail, tail) = 0 /\ Dist(num_slots, tail, am_head) \in 0 .. num_slots - 1
          BY <3>1, Sizes2, Ways
    <3>3. tail' = tail BY DEF Check
    <3>4. QED BY <1>1, <2>1, <3>2, <3>3 DEF NotYet
  <2>4. Marks' BY <1>1, <2>1, <2>3 DEF PInv, Marks, Left, Alive
  <2>5. QED BY <2>1, <2>2, <2>4 DEF Check, PInv, HostsOwn, Control, Alive
<1>4. QED BY <1>2, <1>3

LEMMA OthersStep ==
    ASSUME PInv, Activate \/ (\E n \in 0 .. MaxToGo : EndKnown(n)) PROVE PInv'
<1> USE DEF hostring, txring, found, mark, file
<1>1. CASE Activate
  <2>1. ~need_release /\ pc # "packet" /\ Alive' BY <1>1 DEF Activate, Alive, PInv, Control
  <2>2. Types'
    <3>1. last' \in BOOLEAN BY <1>1 DEF Activate
    <3>2. QED BY <1>1, <3>1 DEF Activate, PInv, Types
  <2>3. Marks' BY <1>1, <2>1 DEF Activate, Marks
  <2>4. QED BY <1>1, <2>1, <2>2, <2>3 DEF Activate, PInv, HostsOwn, Control
<1>2. CASE \E n \in 0 .. MaxToGo : EndKnown(n)
  <2>1. Types' BY <1>2, PortAssumption DEF EndKnown, PInv, Types
  <2>2. Marks' BY <1>2, MarksKept DEF EndKnown, PInv, Alive
  <2>3. QED BY <1>2, <2>1, <2>2 DEF EndKnown, PInv, HostsOwn, Control, Alive, nm_ring_space
<1>3. QED BY <1>1, <1>2

LEMMA NextPInv == PInv /\ [Next]_vars => PInv'
<1> SUFFICES ASSUME PInv, [Next]_vars PROVE PInv' OBVIOUS
<1>1. CASE Next
      BY <1>1, LookStep, HostSendsStep, PollStep, AmStep, MoveStep, SyncStep, CheckStep, OthersStep
         DEF Next, Netmap
<1>2. CASE UNCHANGED vars
  <2>1. Marks' BY <1>2, MarksKept DEF vars, txring, mark, PInv, Alive
  <2>2. QED BY <1>2, <2>1 DEF vars, txring, hostring, file, end, found, mark, PInv, Types, HostsOwn,
                              Control, Alive, nm_ring_space
<1>3. QED BY <1>1, <1>2

-----------------------------------------------------------------------------
(* The results.                                                            *)

(* The invariant of the thread, the kernel and the other threads.          *)
THEOREM PortInvariant == Spec => []PInv
  BY InitPInv, NextPInv, PTL DEF Spec

LEMMA LeftWhenDead == PInv => DeadHasLeft
<1>1. SUFFICES ASSUME PInv, ~Alive, NEW i \in 1 .. InNic PROVE InFlight[i].kind # "data"
      BY DEF DeadHasLeft
<1>2. i \in 0 .. num_slots - 1 /\ tail \in 0 .. num_slots - 1
      BY <1>1, KernelHas, Sizes2 DEF PInv, Types, Slots
<1>3. Plus(num_slots, tail, i) \in Slots /\ Dist(num_slots, tail, Plus(num_slots, tail, i)) = i
      BY <1>2, Sizes2, Ways DEF Slots
<1>4. slot[Plus(num_slots, tail, i)].kind # "data"
      BY <1>1, <1>3 DEF PInv, Marks, Left, IsData, InKernel
<1>5. QED BY <1>1, <1>4 DEF InFlight

(* A multicast is declared dead (thread_data.c:652-667), which gives up    *)
(* the path, only when the NIC has none of its packets any more.           *)
THEOREM NothingIsLeftBehind == Spec => []DeadHasLeft
  BY LeftWhenDead, PortInvariant, PTL

-----------------------------------------------------------------------------
(* Division with remainder.                                                *)

LEMMA DivMod ==
    ASSUME NEW n \in Nat \ {0}, NEW a \in Nat
    PROVE  n * (a \div n) + (a % n) = a /\ a % n \in 0 .. (n - 1) /\ a \div n \in Nat
<1>1. n \in Int /\ n > 0 /\ a \in Int OBVIOUS
<1>2. n * (a \div n) + (a % n) = a BY <1>1
<1>3. a % n \in 0 .. (n - 1) /\ a \div n \in Int BY <1>1
<1>4. ASSUME a \div n <= -1 PROVE FALSE
  <2>1. n * (a \div n) + n <= n * 0 BY <1>1, <1>3, <1>4
  <2>2. QED BY <1>1, <1>2, <1>3, <2>1
<1>5. QED BY <1>2, <1>3, <1>4

LEMMA Times ==
    ASSUME NEW P \in Nat \ {0}, NEW a \in Int, NEW b \in Int
    PROVE  /\ a * P \in Int /\ b * P \in Int /\ (a + b) * P = a * P + b * P
           /\ (a - 1) * P = a * P - P /\ (a + 1) * P = a * P + P
           /\ a <= b => a * P <= b * P
           /\ a < b => a * P + P <= b * P
<1>1. P \in Int /\ P > 0 OBVIOUS
<1>2. /\ a * P \in Int /\ b * P \in Int
      /\ (a + b) * P = a * P + b * P /\ (a - 1) * P = a * P - P
      /\ (a + 1) * P = a * P + P
      BY <1>1
<1>3. ASSUME NEW c \in Int, c >= 0 PROVE c * P >= 0
      BY <1>1, <1>3
<1>4. (b - a) * P = b * P - a * P BY <1>1
<1>5. a <= b => a * P <= b * P
  <2>1. a <= b => (b - a) * P >= 0 BY <1>3
  <2>2. QED BY <1>2, <1>4, <2>1
<1>6. a < b => a * P + P <= b * P
  <2>1. a < b => (b - a - 1) * P >= 0 BY <1>3
  <2>2. (b - a - 1) * P = b * P - a * P - P BY <1>1
  <2>3. QED BY <1>1, <1>2, <2>1, <2>2
<1>7. QED BY <1>2, <1>5, <1>6

LEMMA ModOf ==
    ASSUME NEW n \in Nat \ {0}, NEW k \in Nat, NEW m \in 0 .. n - 1
    PROVE  k * n + m \in Nat /\ (k * n + m) % n = m
<1> DEFINE a == k * n + m
<1>1. a \in Nat /\ k * n \in Nat OBVIOUS
<1>2. /\ n * (a \div n) + (a % n) = a /\ a % n \in 0 .. (n - 1) /\ a \div n \in Nat
      BY <1>1, DivMod
<1> HIDE DEF a
<1>3. a = k * n + m BY DEF a
<1> DEFINE q == a \div n
           r == a % n
<1>4. n * q = q * n BY <1>2
<1>5. q * n + r = k * n + m /\ r \in 0 .. (n - 1) /\ q \in Nat BY <1>2, <1>3, <1>4
<1> HIDE DEF q, r
<1>6. q * n \in Int /\ k * n \in Int BY <1>5
<1>7. (q < k => q * n + n <= k * n) /\ (k < q => k * n + n <= q * n) BY <1>5, Times
<1>8. q = k BY <1>5, <1>6, <1>7
<1>9. r = m BY <1>5, <1>6, <1>8
<1>10. QED BY <1>1, <1>9 DEF a, r

(* A multiple more.                                                        *)
LEMMA ModMore ==
    ASSUME NEW n \in Nat \ {0}, NEW k \in Nat, NEW x \in Nat
    PROVE  (k * n + x) % n = x % n
<1> DEFINE q == x \div n
           r == x % n
<1>1. n * q + r = x /\ r \in 0 .. n - 1 /\ q \in Nat BY DivMod
<1>2. n * q = q * n BY <1>1
<1> HIDE DEF q, r
<1>3. (k + q) * n = k * n + q * n /\ k * n \in Int /\ q * n \in Int BY <1>1, Times
<1>4. k * n + x = (k + q) * n + r BY <1>1, <1>2, <1>3
<1>5. k + q \in Nat BY <1>1
<1>6. ((k + q) * n + r) % n = r BY <1>1, <1>5, ModOf
<1>7. QED BY <1>4, <1>6 DEF r

(* A set of numbers has a least one: sets of numbers below n are finite,   *)
(* and there is no endless descent among finite sets.                      *)
LEMMA Least ==
    ASSUME NEW T, T \subseteq Nat, T # {}
    PROVE  \E m \in T : \A k \in T : m <= k
<1> DEFINE R == StrictSubsetOrdering(Nat)
           S == FiniteSubsetsOf(Nat)
           U == {0 .. n : n \in T}
<1>1. IsWellFoundedOn(R, S) BY FS_StrictSubsetOrderingWellFounded
<1>2. U \subseteq S /\ U # {}
  <2>1. \A n \in T : 0 .. n \subseteq Nat /\ IsFiniteSet(0 .. n) BY FS_Interval
  <2>2. QED BY <2>1 DEF FiniteSubsetsOf
<1>3. PICK x \in U : \A y \in U : <<y, x>> \notin R
  <2> HIDE DEF R, S, U
  <2>1. QED BY <1>1, <1>2, WFMin
<1>4. PICK m \in T : x = 0 .. m OBVIOUS
<1>5. ASSUME NEW k \in T, ~(m <= k) PROVE FALSE
  <2>1. 0 .. k \subseteq 0 .. m /\ m \notin 0 .. k /\ m \in 0 .. m BY <1>5
  <2>2. <<0 .. k, 0 .. m>> \in R BY <2>1 DEF StrictSubsetOrdering
  <2>3. QED BY <1>3, <1>4, <2>2
<1>6. QED BY <1>5

-----------------------------------------------------------------------------
(* What folding a sum gives: its remainder modulo Word - 1, from 1 on.     *)

Rem(s) == IF s = 0 THEN 0 ELSE 1 + ((s - 1) % (Word - 1))

LEMMA Sizes3 == Word \in Nat /\ Word >= 2 /\ Word \in Nat \ {0} /\ Word - 1 \in Nat \ {0}
  BY PortAssumption

LEMMA Halves ==
    ASSUME NEW s \in Nat, ~(s < Word)
    PROVE  /\ (s % Word) + (s \div Word) \in Nat /\ (s % Word) + (s \div Word) < s
           /\ Rem((s % Word) + (s \div Word)) = Rem(s)
<1> DEFINE M == Word - 1
           q == s \div Word
           r == s % Word
<1>1. Word * q + r = s /\ r \in 0 .. Word - 1 /\ q \in Nat BY Sizes3, DivMod
<1>2. Word * q = q * M + q /\ q * M \in Nat BY <1>1, Sizes3
<1>3. M \in Nat \ {0} /\ Word = M + 1 BY Sizes3
<1> HIDE DEF q, r, M
<1>4. q # 0
  <2>1. q = 0 => q * M = 0 BY <1>3
  <2>2. QED BY <1>1, <1>2, <1>3, <2>1
<1>5. q * M >= 1
  <2>1. 1 * M <= q * M BY <1>1, <1>3, <1>4, Times
  <2>2. 1 * M = M /\ M >= 1 BY <1>3
  <2>3. QED BY <1>2, <1>3, <2>1, <2>2
<1>6. s = q * M + (r + q) /\ r + q \in Nat /\ r + q < s /\ r + q # 0
      BY <1>1, <1>2, <1>4, <1>5, Sizes3
<1>7. (s - 1) % M = ((r + q) - 1) % M
  <2>1. (r + q) - 1 \in Nat /\ s - 1 = q * M + ((r + q) - 1) BY <1>1, <1>2, <1>6
  <2>2. (q * M + ((r + q) - 1)) % M = ((r + q) - 1) % M BY <1>1, <1>3, <2>1, ModMore
  <2>3. QED BY <2>1, <2>2
<1>8. s # 0 BY <1>6
<1>9. Rem(s) = 1 + ((s - 1) % M) /\ Rem(r + q) = 1 + (((r + q) - 1) % M)
      BY <1>6, <1>8, Zenon DEF Rem, M
<1>10. r + q \in Nat /\ r + q < s /\ Rem(r + q) = Rem(s) BY <1>6, <1>7, <1>9
<1>11. QED BY <1>10 DEF q, r

LEMMA Small == ASSUME NEW s \in Nat, s < Word PROVE Rem(s) = s
<1>1. CASE s = 0 BY <1>1 DEF Rem
<1>2. CASE s # 0
  <2>1. s - 1 \in 0 .. (Word - 1) - 1 BY <1>2, Sizes3
  <2>2. (0 * (Word - 1) + (s - 1)) % (Word - 1) = s - 1 BY <2>1, Sizes3, ModOf
  <2>3. 0 * (Word - 1) + (s - 1) = s - 1 BY Sizes3
  <2>4. QED BY <1>2, <2>2, <2>3 DEF Rem
<1>3. QED BY <1>1, <1>2

LEMMA Folds ==
    Fold = [s \in Nat |-> IF s < Word THEN s ELSE Fold[(s % Word) + (s \div Word)]]
<1>1. \E f : f = [s \in Nat |-> IF s < Word THEN s ELSE f[(s % Word) + (s \div Word)]]
  <2> DEFINE g == [s \in Nat |-> Rem(s)]
  <2>1. ASSUME NEW s \in Nat
        PROVE  Rem(s) = IF s < Word THEN s ELSE g[(s % Word) + (s \div Word)]
        BY Halves, Small
  <2>2. g = [s \in Nat |-> IF s < Word THEN s ELSE g[(s % Word) + (s \div Word)]] BY <2>1
  <2> HIDE DEF g
  <2>3. QED BY <2>2
<1>2. QED BY <1>1, Zenon DEF Fold

(* Were it something else for any sum, there would be a least such sum.    *)
LEMMA FoldIs == ASSUME NEW s \in Nat PROVE Fold[s] = Rem(s)
<1> DEFINE T == {n \in Nat : Fold[n] # Rem(n)}
<1>1. ASSUME T # {} PROVE FALSE
  <2>1. PICK m \in T : \A k \in T : m <= k
    <3>1. T \subseteq Nat OBVIOUS
    <3> HIDE DEF T
    <3>2. QED BY <1>1, <3>1, Least
  <2>2. m \in Nat /\ Fold[m] # Rem(m) OBVIOUS
  <2>3. Fold[m] = IF m < Word THEN m ELSE Fold[(m % Word) + (m \div Word)] BY <2>2, Folds
  <2>4. CASE m < Word BY <2>2, <2>3, <2>4, Small
  <2>5. CASE ~(m < Word)
    <3> DEFINE k == (m % Word) + (m \div Word)
    <3>1. k \in Nat /\ k < m /\ Rem(k) = Rem(m) BY <2>2, <2>5, Halves
    <3>2. Fold[m] = Fold[k] BY <2>3, <2>5
    <3> HIDE DEF k
    <3>3. k \in T BY <2>2, <3>1, <3>2
    <3>4. QED BY <2>1, <2>2, <3>1, <3>3
  <2>6. QED BY <2>4, <2>5
<1>2. QED BY <1>1

(* A header is accepted by the receiver's check.                           *)
LEMMA HeaderIsValid ==
    ASSUME NEW bytes \in Nat
    PROVE  /\ validate_ip_checksum(Header(bytes)) = 0
           /\ Header(bytes) \in [fixed : Nat, tot_len : Nat, check : Int]
<1> DEFINE M == Word - 1
           x == 1 + bytes
           f == Fold[x]
           q == (x - 1) \div M
           r == (x - 1) % M
<1>1. M \in Nat \ {0} /\ x \in Nat /\ x # 0 /\ x - 1 \in Nat BY Sizes3
<1>2. M * q + r = x - 1 /\ r \in 0 .. M - 1 /\ q \in Nat BY <1>1, DivMod
<1>3. f = 1 + r BY <1>1, FoldIs DEF Rem
<1>4. Header(bytes) = [fixed |-> 1, tot_len |-> bytes, check |-> M - f]
  <2> DEFINE h == [initIPHeader EXCEPT !.tot_len = bytes]
  <2>1. h = [fixed |-> 1, tot_len |-> bytes, check |-> 0] BY DEF initIPHeader
  <2> HIDE DEF h
  <2>2. [h EXCEPT !.check = 0] = h BY <2>1
  <2>3. h.fixed + h.tot_len + h.check = x BY <2>1
  <2>4. compute_checksum([h EXCEPT !.check = 0]) = M - f BY <2>2, <2>3 DEF compute_checksum
  <2>5. compute_ip_checksum(h) = [h EXCEPT !.check = M - f] BY <2>4 DEF compute_ip_checksum
  <2> HIDE DEF f, M, x
  <2>6. [h EXCEPT !.check = M - f] = [fixed |-> 1, tot_len |-> bytes, check |-> M - f] BY <2>1
  <2>7. QED BY <2>5, <2>6 DEF Header, h
<1>5. validate_ip_checksum(Header(bytes)) = M - Fold[1 + bytes + (M - f)]
      BY <1>4 DEF validate_ip_checksum, compute_checksum
<1> HIDE DEF M, x, f, q, r
<1> DEFINE y == x + (M - f)
<1>6. /\ 1 + bytes + (M - f) = y /\ y \in Nat /\ y # 0
      /\ y - 1 = q * M + (M - 1) /\ M - 1 \in 0 .. M - 1
  <2>1. M * q = q * M /\ q * M \in Int BY <1>1, <1>2
  <2>2. 1 + bytes = x BY DEF x
  <2>3. QED BY <1>1, <1>2, <1>3, <2>1, <2>2
<1> HIDE DEF y
<1>7. Fold[y] = 1 + ((y - 1) % M) BY <1>6, FoldIs DEF Rem, M
<1>8. (q * M + (M - 1)) % M = M - 1 BY <1>1, <1>2, <1>6, ModOf
<1>9. Fold[1 + bytes + (M - f)] = M
  <2>1. (y - 1) % M = M - 1 BY <1>6, <1>8
  <2>2. QED BY <1>1, <1>6, <1>7, <2>1
<1>10. M - f \in Int BY <1>1, <1>2, <1>3
<1>11. QED BY <1>1, <1>4, <1>5, <1>9, <1>10

-----------------------------------------------------------------------------
(* The packets of the data.                                                *)

LEMMA WholePackets ==
    ASSUME NEW size \in Sizes
    PROVE  /\ PacketsOf(size) \in Nat \ {0} /\ byte_payload_min(size) \in 1 .. Payload
           /\ Payload \in Nat \ {0} /\ size \in Nat \ {0}
           /\ size = (PacketsOf(size) - 1) * Payload + byte_payload_min(size)
<1> DEFINE q == size \div Payload
           r == size % Payload
<1>1. size \in Nat \ {0} /\ Payload \in Nat \ {0} BY PortAssumption
<1>2. Payload * q + r = size /\ r \in 0 .. Payload - 1 /\ q \in Nat BY <1>1, DivMod
<1>3. Payload * q = q * Payload /\ q * Payload \in Nat BY <1>1, <1>2
<1>4. /\ PacketsOf(size) = q + IF r = 0 THEN 0 ELSE 1
      /\ byte_payload_min(size) = IF r = 0 THEN Payload ELSE r
      BY DEF PacketsOf, byte_payload_min
<1> HIDE DEF q, r
<1>5. q = 0 => q * Payload = 0 BY <1>1
<1>6. (q - 1) * Payload = q * Payload - Payload BY <1>1, <1>2, Times
<1>7. CASE r = 0
  <2>1. q # 0 BY <1>1, <1>2, <1>3, <1>5, <1>7
  <2>2. PacketsOf(size) = q /\ byte_payload_min(size) = Payload BY <1>2, <1>4, <1>7
  <2>3. QED BY <1>1, <1>2, <1>3, <1>6, <1>7, <2>1, <2>2
<1>8. CASE r # 0
  <2>1. PacketsOf(size) = q + 1 /\ byte_payload_min(size) = r /\ (q + 1) - 1 = q BY <1>2, <1>4, <1>8
  <2>2. QED BY <1>1, <1>2, <1>3, <1>8, <2>1
<1>9. QED BY <1>7, <1>8

-----------------------------------------------------------------------------
(* The rings as sequences.                                                 *)

LEMMA AsSeq ==
    ASSUME NEW S, NEW n \in Nat, NEW f \in [1 .. n -> S]
    PROVE  f \in Seq(S) /\ Len(f) = n
  BY SeqDef, LenProperties

LEMMA Further ==
    ASSUME NEW n \in Nat, n >= 2, NEW a \in 0 .. n - 1, NEW k \in Nat, NEW j \in Nat, k + j <= n - 1
    PROVE  Plus(n, Plus(n, a, k), j) = Plus(n, a, k + j)
  BY DEF Plus

(* A ring whose free slots are those from b to a.                          *)
LEMMA Across ==
    ASSUME NEW n \in Nat, n >= 2, NEW a \in 0 .. n - 1, NEW b \in 0 .. n - 1,
           NEW l \in Nat, l = n - 1 - Dist(n, b, a)
    PROVE  /\ \A i \in 1 .. l : Dist(n, b, Plus(n, a, i)) = Dist(n, b, a) + i
           /\ \A j \in 1 .. Dist(n, b, a) : Plus(n, a, l + j) = Plus(n, b, j - 1)
  BY DEF Dist, Plus

Rings == slot \in [Slots -> Packet] /\ h_slot \in [HSlots -> Packet]

LEMMA FlightIs ==
    Types /\ Rings =>
        /\ InFlight \in Seq(Packet) /\ Len(InFlight) = InNic
        /\ \A i \in 1 .. InNic : Plus(num_slots, tail, i) \in Slots
                                 /\ InFlight[i] = slot[Plus(num_slots, tail, i)]
<1> SUFFICES ASSUME Types, Rings
             PROVE  /\ InFlight \in Seq(Packet) /\ Len(InFlight) = InNic
                    /\ \A i \in 1 .. InNic : Plus(num_slots, tail, i) \in Slots
                                             /\ InFlight[i] = slot[Plus(num_slots, tail, i)]
    OBVIOUS
<1>1. InNic \in 0 .. num_slots - 1 /\ tail \in 0 .. num_slots - 1 BY KernelHas DEF Types, Slots
<1>2. ASSUME NEW i \in 1 .. InNic PROVE Plus(num_slots, tail, i) \in Slots
  <2>1. i \in 0 .. num_slots - 1 BY <1>1, Sizes2
  <2>2. QED BY <1>1, <2>1, Sizes2, Ways DEF Slots
<1>3. InFlight \in [1 .. InNic -> Packet] BY <1>2 DEF InFlight, Rings
<1>4. InNic \in Nat BY <1>1
<1>5. InFlight \in Seq(Packet) /\ Len(InFlight) = InNic BY <1>3, <1>4, AsSeq
<1>6. QED BY <1>2, <1>5 DEF InFlight

LEMMA PendingIs ==
    Types /\ Rings =>
        /\ Pending \in Seq(Packet) /\ Len(Pending) = pkt_queued
        /\ \A i \in 1 .. pkt_queued : Plus(host_slots, h_head, i - 1) \in HSlots
                                      /\ Pending[i] = h_slot[Plus(host_slots, h_head, i - 1)]
<1> SUFFICES ASSUME Types, Rings
             PROVE  /\ Pending \in Seq(Packet) /\ Len(Pending) = pkt_queued
                    /\ \A i \in 1 .. pkt_queued : Plus(host_slots, h_head, i - 1) \in HSlots
                              /\ Pending[i] = h_slot[Plus(host_slots, h_head, i - 1)]
    OBVIOUS
<1>1. pkt_queued \in 0 .. host_slots - 1 /\ h_head \in 0 .. host_slots - 1
      BY KernelHas DEF Types, HSlots
<1>2. ASSUME NEW i \in 1 .. pkt_queued PROVE Plus(host_slots, h_head, i - 1) \in HSlots
  <2>1. i - 1 \in 0 .. host_slots - 1 BY <1>1, Sizes2
  <2>2. QED BY <1>1, <2>1, Sizes2, Ways DEF HSlots
<1>3. Pending \in [1 .. pkt_queued -> Packet] BY <1>2 DEF Pending, Rings
<1>4. pkt_queued \in Nat BY <1>1
<1>5. Pending \in Seq(Packet) /\ Len(Pending) = pkt_queued BY <1>3, <1>4, AsSeq
<1>6. QED BY <1>2, <1>5 DEF Pending

LEMMA Same ==
    /\ UNCHANGED <<head, tail, slot>> => InFlight' = InFlight
    /\ UNCHANGED <<h_head, h_tail, h_slot>> => Pending' = Pending
  BY DEF InFlight, InNic, nm_ring_space, Pending, pkt_queued

LEMMA Named == Junk \in Packet /\ (\A h \in HostPkt : Host(h) \in Packet)
  BY DEF Packet

(* The NIC sends the d oldest ones.                                        *)
LEMMA TransmitSeq ==
    ASSUME Types, Rings, NEW d \in 0 .. InNic, Transmit(d), head' = head, UNCHANGED hostring,
           Types', Rings'
    PROVE  InFlight' = SubSeq(InFlight, d + 1, Len(InFlight)) /\ Pending' = Pending
<1> DEFINE n == num_slots
           f == InFlight'
           g == SubSeq(InFlight, d + 1, Len(InFlight))
<1>1. n \in Nat /\ n >= 2 /\ tail \in 0 .. n - 1 /\ Slots = 0 .. n - 1
      BY Sizes2 DEF Types, Slots
<1>2. InNic \in 0 .. n - 1 /\ d \in 0 .. n - 1 BY <1>1, KernelHas
<1>3. InNic' = InNic - d BY Transmitted
<1>4. /\ InFlight \in Seq(Packet) /\ Len(InFlight) = InNic
      /\ \A i \in 1 .. InNic : Plus(n, tail, i) \in Slots /\ InFlight[i] = slot[Plus(n, tail, i)]
      BY FlightIs
<1>5. /\ f \in Seq(Packet) /\ Len(f) = InNic'
      /\ \A i \in 1 .. InNic' : Plus(n, tail', i) \in Slots /\ f[i] = slot'[Plus(n, tail', i)]
  <2>1. (Types /\ Rings => 
            /\ InFlight \in Seq(Packet) /\ Len(InFlight) = InNic
            /\ \A i \in 1 .. InNic : Plus(num_slots, tail, i) \in Slots
                                 /\ InFlight[i] = slot[Plus(num_slots, tail, i)])'
        BY FlightIs, PTL
  <2>2. QED BY <2>1
<1>6. /\ g \in Seq(Packet) /\ Len(g) = InNic - d
      /\ \A i \in 1 .. InNic - d : g[i] = InFlight[d + i]
  <2>1. \A i \in d + 1 .. InNic : InFlight[i] \in Packet
        BY <1>2, <1>4, ElementOfSeq
  <2>2. /\ SubSeq(InFlight, d + 1, InNic) \in Seq(Packet)
        /\ Len(SubSeq(InFlight, d + 1, InNic))
              = IF d + 1 <= InNic THEN InNic - (d + 1) + 1 ELSE 0
        /\ \A i \in 1 .. InNic - (d + 1) + 1 : SubSeq(InFlight, d + 1, InNic)[i] = InFlight[d + 1 + i - 1]
    <3>1. d + 1 \in Int /\ InNic \in Int BY <1>2
    <3> HIDE DEF Packet
    <3>2. QED BY <2>1, <3>1, SubSeqProperties
  <2>3. InNic - (d + 1) + 1 = InNic - d /\ (\A i \in 1 .. InNic - d : d + 1 + i - 1 = d + i)
        BY <1>2
  <2>4. QED BY <1>2, <1>4, <2>2, <2>3
<1>7. ASSUME NEW i \in 1 .. InNic - d PROVE f[i] = g[i]
  <2>1. tail' = Plus(n, tail, d) BY DEF Transmit
  <2>2. Plus(n, tail', i) = Plus(n, tail, d + i) BY <1>1, <1>2, <2>1, Further
  <2>3. d + i \in 0 .. n - 1 /\ d + i \in 1 .. InNic /\ d + i \notin 1 .. d BY <1>1, <1>2
  <2>4. Dist(n, tail, Plus(n, tail, d + i)) = d + i /\ Plus(n, tail, d + i) \in Slots
        BY <1>1, <2>3, Ways
  <2>5. slot'[Plus(n, tail, d + i)] = slot[Plus(n, tail, d + i)]
        BY <2>3, <2>4 DEF Transmit
  <2>6. QED BY <1>3, <1>4, <1>5, <1>6, <2>2, <2>3, <2>5
<1>8. InFlight' = g
  <2> HIDE DEF f, g
  <2>1. f = g BY <1>3, <1>5, <1>6, <1>7, SeqEqual
  <2>2. QED BY <2>1 DEF f
<1>9. QED BY <1>8, Same DEF hostring

(* A packet goes into the slot at head.                                    *)
LEMMA PutSeq ==
    ASSUME Types, Rings, NEW p \in Packet, nm_ring_space > 0,
           slot' = [slot EXCEPT ![head] = p], head' = Plus(num_slots, head, 1), tail' = tail,
           UNCHANGED hostring, Types', Rings'
    PROVE  InFlight' = Append(InFlight, p) /\ Pending' = Pending
<1> DEFINE n == num_slots
           f == InFlight'
           g == Append(InFlight, p)
<1>1. n \in Nat /\ n >= 2 /\ tail \in 0 .. n - 1 /\ head \in 0 .. n - 1 /\ Slots = 0 .. n - 1
      BY Sizes2 DEF Types, Slots
<1>2. InNic \in 0 .. n - 1 /\ InNic = n - 1 - Dist(n, head, tail) /\ Dist(n, head, tail) \in 1 .. n - 1
      BY <1>1, KernelHas DEF nm_ring_space, InNic
<1>3. InNic' = InNic + 1 BY <1>1, <1>2 DEF InNic, nm_ring_space, Dist, Plus
<1>4. /\ InFlight \in Seq(Packet) /\ Len(InFlight) = InNic
      /\ \A i \in 1 .. InNic : Plus(n, tail, i) \in Slots /\ InFlight[i] = slot[Plus(n, tail, i)]
      BY FlightIs
<1>5. /\ f \in Seq(Packet) /\ Len(f) = InNic'
      /\ \A i \in 1 .. InNic' : Plus(n, tail', i) \in Slots /\ f[i] = slot'[Plus(n, tail', i)]
  <2>1. (Types /\ Rings => 
            /\ InFlight \in Seq(Packet) /\ Len(InFlight) = InNic
            /\ \A i \in 1 .. InNic : Plus(num_slots, tail, i) \in Slots
                                 /\ InFlight[i] = slot[Plus(num_slots, tail, i)])'
        BY FlightIs, PTL
  <2>2. QED BY <2>1
<1>6. /\ g \in Seq(Packet) /\ Len(g) = InNic + 1 /\ g[InNic + 1] = p
      /\ \A i \in 1 .. InNic : g[i] = InFlight[i]
  <2> HIDE DEF Packet
  <2>1. QED BY <1>2, <1>4, AppendProperties
<1>7. /\ \A i \in 1 .. InNic : Dist(n, head, Plus(n, tail, i)) = Dist(n, head, tail) + i
      /\ Plus(n, tail, InNic + 1) = Plus(n, head, 0)
  <2>1. InNic \in Nat /\ 1 \in 1 .. Dist(n, head, tail) /\ 1 - 1 = 0 BY <1>2
  <2>2. /\ \A i \in 1 .. InNic : Dist(n, head, Plus(n, tail, i)) = Dist(n, head, tail) + i
        /\ \A j \in 1 .. Dist(n, head, tail) : Plus(n, tail, InNic + j) = Plus(n, head, j - 1)
        BY <1>1, <1>2, <2>1, Across
  <2>3. QED BY <2>1, <2>2
<1>8. Plus(n, head, 0) = head /\ Dist(n, head, head) = 0 BY <1>1 DEF Plus, Dist
<1>9. ASSUME NEW i \in 1 .. InNic + 1 PROVE f[i] = g[i]
  <2>1. CASE i = InNic + 1
    <3>1. f[i] = slot'[head] BY <1>3, <1>5, <1>7, <1>8, <2>1
    <3>2. slot'[head] = p BY <1>1 DEF Rings
    <3>3. QED BY <1>6, <2>1, <3>1, <3>2
  <2>2. CASE i # InNic + 1
    <3>1. i \in 1 .. InNic BY <1>2, <2>2
    <3>2. Plus(n, tail, i) # head BY <1>2, <1>7, <1>8, <3>1
    <3>3. f[i] = slot'[Plus(n, tail, i)] BY <1>3, <1>5
    <3>4. slot'[Plus(n, tail, i)] = slot[Plus(n, tail, i)] BY <1>4, <3>1, <3>2 DEF Rings
    <3>5. QED BY <1>4, <1>6, <3>1, <3>3, <3>4
  <2>3. QED BY <2>1, <2>2
<1>10. InFlight' = g
  <2> HIDE DEF f, g
  <2>1. f = g BY <1>3, <1>5, <1>6, <1>9, SeqEqual
  <2>2. QED BY <2>1 DEF f
<1>11. QED BY <1>10, Same DEF hostring

(* The host's stack puts one into the slot at h_tail.                      *)
LEMMA HostSendsSeq ==
    ASSUME Types, Rings, NEW h \in HostPkt, HostSends(h), Types', Rings'
    PROVE  Pending' = Append(Pending, Host(h)) /\ InFlight' = InFlight
<1> DEFINE n == host_slots
           f == Pending'
           g == Append(Pending, Host(h))
<1>1. n \in Nat /\ n >= 2 /\ h_tail \in 0 .. n - 1 /\ h_head \in 0 .. n - 1 /\ HSlots = 0 .. n - 1
      BY Sizes2 DEF Types, HSlots
<1>2. /\ pkt_queued \in 0 .. n - 1 /\ pkt_queued = Dist(n, h_head, h_tail) /\ pkt_queued < n - 1
      BY <1>1, KernelHas DEF pkt_queued, HostSends
<1>3. /\ h_slot' = [h_slot EXCEPT ![h_tail] = Host(h)]
      /\ h_tail' = Plus(n, h_tail, 1) /\ h_head' = h_head
      BY DEF HostSends
<1>4. pkt_queued' = pkt_queued + 1 BY <1>1, <1>2, <1>3 DEF pkt_queued, Dist, Plus
<1>5. /\ Pending \in Seq(Packet) /\ Len(Pending) = pkt_queued
      /\ \A i \in 1 .. pkt_queued : Plus(n, h_head, i - 1) \in HSlots
                                    /\ Pending[i] = h_slot[Plus(n, h_head, i - 1)]
      BY PendingIs
<1>6. /\ f \in Seq(Packet) /\ Len(f) = pkt_queued'
      /\ \A i \in 1 .. pkt_queued' : Plus(n, h_head', i - 1) \in HSlots
                                     /\ f[i] = h_slot'[Plus(n, h_head', i - 1)]
  <2>1. (Types /\ Rings =>
            /\ Pending \in Seq(Packet) /\ Len(Pending) = pkt_queued
            /\ \A i \in 1 .. pkt_queued : Plus(host_slots, h_head, i - 1) \in HSlots
                                      /\ Pending[i] = h_slot[Plus(host_slots, h_head, i - 1)])'
        BY PendingIs, PTL
  <2>2. QED BY <2>1
<1>7. /\ g \in Seq(Packet) /\ Len(g) = pkt_queued + 1 /\ g[pkt_queued + 1] = Host(h)
      /\ \A i \in 1 .. pkt_queued : g[i] = Pending[i]
  <2>1. Host(h) \in Packet BY Named
  <2> HIDE DEF Packet
  <2>2. QED BY <1>2, <1>5, <2>1, AppendProperties
<1>8. \A k \in 0 .. pkt_queued : Plus(n, h_head, k) = h_tail <=> k = pkt_queued
      BY <1>1, <1>2 DEF Plus, Dist
<1>9. ASSUME NEW i \in 1 .. pkt_queued + 1 PROVE f[i] = g[i]
  <2>1. i - 1 \in 0 .. pkt_queued /\ (i - 1 = pkt_queued <=> i = pkt_queued + 1) BY <1>2
  <2>2. f[i] = h_slot'[Plus(n, h_head, i - 1)] BY <1>3, <1>4, <1>6
  <2>3. CASE i = pkt_queued + 1
    <3>1. h_slot'[h_tail] = Host(h) BY <1>1, <1>3 DEF Rings
    <3>2. Plus(n, h_head, i - 1) = h_tail BY <1>8, <2>1, <2>3
    <3>3. QED BY <1>7, <2>2, <2>3, <3>1, <3>2
  <2>4. CASE i # pkt_queued + 1
    <3>1. i \in 1 .. pkt_queued BY <1>2, <2>4
    <3>2. Plus(n, h_head, i - 1) # h_tail BY <1>8, <2>1, <2>4
    <3>3. h_slot'[Plus(n, h_head, i - 1)] = h_slot[Plus(n, h_head, i - 1)]
          BY <1>3, <1>5, <3>1, <3>2 DEF Rings
    <3>4. QED BY <1>5, <1>7, <2>2, <3>1, <3>3
  <2>5. QED BY <2>3, <2>4
<1>10. Pending' = g
  <2> HIDE DEF f, g
  <2>1. f = g BY <1>4, <1>6, <1>7, <1>9, SeqEqual
  <2>2. QED BY <2>1 DEF f
<1>11. UNCHANGED <<head, tail, slot>> BY DEF HostSends, txring
<1>12. QED BY <1>10, <1>11, Same

(* The first m of the host go over to the NIC.                             *)
LEMMA MoveSeq ==
    ASSUME Types, Rings, Move, Types', Rings'
    PROVE  /\ Moved \in 0 .. Len(Pending) /\ Len(Pending) \in Nat
           /\ InFlight' = InFlight \o SubSeq(Pending, 1, Moved)
           /\ Pending' = SubSeq(Pending, Moved + 1, Len(Pending))
<1> DEFINE n == num_slots
           l == host_slots
           m == Moved
           f == InFlight'
           g == InFlight \o SubSeq(Pending, 1, m)
           u == Pending'
           v == SubSeq(Pending, m + 1, Len(Pending))
<1>1. /\ n \in Nat /\ n >= 2 /\ tail \in 0 .. n - 1 /\ head \in 0 .. n - 1 /\ Slots = 0 .. n - 1
      /\ l \in Nat /\ l >= 2 /\ h_tail \in 0 .. l - 1 /\ h_head \in 0 .. l - 1
      /\ HSlots = 0 .. l - 1
      BY Sizes2 DEF Types, Slots, HSlots
<1>2. /\ InNic \in 0 .. n - 1 /\ InNic = n - 1 - Dist(n, head, tail)
      /\ nm_ring_space = Dist(n, head, tail) /\ Dist(n, head, tail) \in 0 .. n - 1
      /\ pkt_queued \in 0 .. l - 1 /\ pkt_queued = Dist(l, h_head, h_tail)
      BY <1>1, KernelHas DEF nm_ring_space, InNic, pkt_queued
<1>3. m \in 0 .. Dist(n, head, tail) /\ m \in 0 .. pkt_queued
      BY <1>2, PortAssumption DEF Moved, Lesser
<1>4. head' = Plus(n, head, m) /\ h_head' = Plus(l, h_head, m) /\ Swap(m)
      /\ UNCHANGED <<tail, h_tail>>
      BY DEF Move
<1> HIDE DEF m
<1>5. InNic' = InNic + m /\ m \in 0 .. n - 1 /\ m \in 0 .. l - 1
  <2>1. m \in 0 .. n - 1 /\ m \in 0 .. l - 1 BY <1>1, <1>2, <1>3
  <2>2. Dist(n, Plus(n, head, m), tail) = Dist(n, head, tail) - m
        BY <1>1, <1>2, <1>3, <2>1, Onward
  <2>3. InNic' = n - 1 - (Dist(n, head, tail) - m)
        BY <1>4, <2>2 DEF InNic, nm_ring_space
  <2>4. QED BY <1>1, <1>2, <1>3, <2>1, <2>3
<1>6. pkt_queued' = pkt_queued - m
  <2>1. Dist(l, Plus(l, h_head, m), h_tail) = Dist(l, h_head, h_tail) - m
    <3>1. m <= Dist(l, h_head, h_tail) BY <1>1, <1>2, <1>3
    <3>2. QED BY <1>1, <1>5, <3>1, Onward
  <2>2. QED BY <1>2, <1>4, <2>1 DEF pkt_queued
<1>7. /\ InFlight \in Seq(Packet) /\ Len(InFlight) = InNic
      /\ \A i \in 1 .. InNic : Plus(n, tail, i) \in Slots /\ InFlight[i] = slot[Plus(n, tail, i)]
      /\ Pending \in Seq(Packet) /\ Len(Pending) = pkt_queued
      /\ \A i \in 1 .. pkt_queued : Plus(l, h_head, i - 1) \in HSlots
                                    /\ Pending[i] = h_slot[Plus(l, h_head, i - 1)]
      BY FlightIs, PendingIs
<1>8. /\ f \in Seq(Packet) /\ Len(f) = InNic'
      /\ \A i \in 1 .. InNic' : Plus(n, tail', i) \in Slots /\ f[i] = slot'[Plus(n, tail', i)]
  <2>1. (Types /\ Rings => 
            /\ InFlight \in Seq(Packet) /\ Len(InFlight) = InNic
            /\ \A i \in 1 .. InNic : Plus(num_slots, tail, i) \in Slots
                                 /\ InFlight[i] = slot[Plus(num_slots, tail, i)])'
        BY FlightIs, PTL
  <2>2. QED BY <2>1
<1>9. /\ u \in Seq(Packet) /\ Len(u) = pkt_queued'
      /\ \A i \in 1 .. pkt_queued' : Plus(l, h_head', i - 1) \in HSlots
                                     /\ u[i] = h_slot'[Plus(l, h_head', i - 1)]
  <2>1. (Types /\ Rings =>
            /\ Pending \in Seq(Packet) /\ Len(Pending) = pkt_queued
            /\ \A i \in 1 .. pkt_queued : Plus(host_slots, h_head, i - 1) \in HSlots
                                      /\ Pending[i] = h_slot[Plus(host_slots, h_head, i - 1)])'
        BY PendingIs, PTL
  <2>2. QED BY <2>1
<1>10. \A i \in 1 .. pkt_queued : Pending[i] \in Packet BY <1>2, <1>7, ElementOfSeq
<1>11. /\ SubSeq(Pending, 1, m) \in Seq(Packet) /\ Len(SubSeq(Pending, 1, m)) = m
       /\ \A i \in 1 .. m : SubSeq(Pending, 1, m)[i] = Pending[i]
  <2>1. \A i \in 1 .. m : Pending[i] \in Packet BY <1>2, <1>3, <1>10
  <2>2. /\ SubSeq(Pending, 1, m) \in Seq(Packet)
        /\ Len(SubSeq(Pending, 1, m)) = IF 1 <= m THEN m - 1 + 1 ELSE 0
        /\ \A i \in 1 .. m - 1 + 1 : SubSeq(Pending, 1, m)[i] = Pending[1 + i - 1]
    <3>1. 1 \in Int /\ m \in Int BY <1>5
    <3> HIDE DEF Packet
    <3>2. QED BY <2>1, <3>1, SubSeqProperties
  <2>3. m - 1 + 1 = m /\ \A i \in 1 .. m : 1 + i - 1 = i BY <1>5
  <2>4. QED BY <1>5, <2>2, <2>3
<1>12. /\ v \in Seq(Packet) /\ Len(v) = pkt_queued - m
       /\ \A i \in 1 .. pkt_queued - m : v[i] = Pending[m + i]
  <2>1. \A i \in m + 1 .. pkt_queued : Pending[i] \in Packet BY <1>2, <1>5, <1>10
  <2>2. /\ SubSeq(Pending, m + 1, pkt_queued) \in Seq(Packet)
        /\ Len(SubSeq(Pending, m + 1, pkt_queued))
              = IF m + 1 <= pkt_queued THEN pkt_queued - (m + 1) + 1 ELSE 0
        /\ \A i \in 1 .. pkt_queued - (m + 1) + 1 :
              SubSeq(Pending, m + 1, pkt_queued)[i] = Pending[m + 1 + i - 1]
    <3>1. m + 1 \in Int /\ pkt_queued \in Int BY <1>2, <1>5
    <3> HIDE DEF Packet
    <3>2. QED BY <2>1, <3>1, SubSeqProperties
  <2>3. pkt_queued - (m + 1) + 1 = pkt_queued - m
        /\ (m + 1 <= pkt_queued \/ pkt_queued - m = 0)
        /\ (\A i \in 1 .. pkt_queued - m : m + 1 + i - 1 = m + i)
        BY <1>1, <1>2, <1>3
  <2>4. Len(v) = pkt_queued - m
    <3>1. Len(SubSeq(Pending, m + 1, pkt_queued)) = pkt_queued - m
      <4>1. CASE m + 1 <= pkt_queued
        <5>1. Len(SubSeq(Pending, m + 1, pkt_queued)) = pkt_queued - (m + 1) + 1
              BY <2>2, <4>1
        <5>2. QED BY <2>3, <5>1
      <4>2. CASE ~(m + 1 <= pkt_queued)
        <5>1. Len(SubSeq(Pending, m + 1, pkt_queued)) = 0 BY <2>2, <4>2
        <5>2. pkt_queued - m = 0 BY <2>3, <4>2
        <5>3. QED BY <5>1, <5>2
      <4>3. QED BY <4>1, <4>2
    <3>2. QED BY <1>7, <3>1
  <2>5. QED BY <1>7, <2>2, <2>3, <2>4
<1>13. /\ g \in Seq(Packet) /\ Len(g) = InNic + m
       /\ \A i \in 1 .. InNic + m :
              g[i] = IF i <= InNic THEN InFlight[i] ELSE SubSeq(Pending, 1, m)[i - InNic]
  <2> DEFINE w == SubSeq(Pending, 1, m)
  <2>1. /\ InFlight \in Seq(Packet) /\ Len(InFlight) = InNic
        /\ w \in Seq(Packet) /\ Len(w) = m
        BY <1>7, <1>11
  <2>2. /\ InFlight \o w \in Seq(Packet)
        /\ Len(InFlight \o w) = InNic + m
        /\ \A i \in 1 .. InNic + m :
              (InFlight \o w)[i] = IF i <= InNic THEN InFlight[i] ELSE w[i - InNic]
    <3> HIDE DEF w
    <3>1. /\ InFlight \o w \in Seq(Packet)
          /\ Len(InFlight \o w) = Len(InFlight) + Len(w)
          /\ \A i \in 1 .. Len(InFlight) + Len(w) :
                (InFlight \o w)[i] = IF i <= Len(InFlight) THEN InFlight[i]
                                     ELSE w[i - Len(InFlight)]
          BY ONLY <2>1, ConcatProperties
    <3>2. QED BY ONLY <2>1, <3>1
  <2>3. QED BY <2>2
<1>14. /\ \A i \in 1 .. InNic : Dist(n, head, Plus(n, tail, i)) = Dist(n, head, tail) + i
       /\ \A j \in 1 .. Dist(n, head, tail) : Plus(n, tail, InNic + j) = Plus(n, head, j - 1)
  <2>1. InNic \in Nat /\ InNic = n - 1 - Dist(n, head, tail) BY <1>1, <1>2
  <2>2. QED BY <1>1, <2>1, Across
<1>15. ASSUME NEW i \in 1 .. InNic + m PROVE f[i] = g[i]
  <2>0. f[i] = slot'[Plus(n, tail, i)] BY <1>4, <1>5, <1>8
  <2>1. CASE i <= InNic
    <3>1. i \in 1 .. InNic BY <1>2, <1>5, <2>1
    <3>2. ~(Dist(n, head, Plus(n, tail, i)) < m)
      <4>1. Dist(n, head, Plus(n, tail, i)) = Dist(n, head, tail) + i BY <1>14, <3>1
      <4>2. ~(Dist(n, head, tail) + i < m)
        <5>1. Dist(n, head, tail) \in Nat /\ m \in Nat /\ m <= Dist(n, head, tail)
              BY <1>1, <1>2, <1>3
        <5>2. i \in Nat BY <1>2, <3>1
        <5> HIDE DEF m, n
        <5>3. QED BY ONLY <5>1, <5>2
      <4>3. QED BY <4>1, <4>2
    <3>3. slot'[Plus(n, tail, i)] = slot[Plus(n, tail, i)]
          BY <1>4, <1>7, <3>1, <3>2 DEF Swap
    <3>4. QED BY <1>7, <1>13, <2>0, <2>1, <3>1, <3>3
  <2>2. CASE ~(i <= InNic)
    <3>1. PICK j \in 1 .. m : i = InNic + j
      <4>1. i - InNic \in 1 .. m /\ i = InNic + (i - InNic) BY <1>2, <1>5, <2>2
      <4>2. QED BY <4>1
    <3>0. j \in Nat /\ 1 <= j /\ j <= m /\ m \in Nat BY <1>1, <1>5
    <3>2. /\ j \in 1 .. Dist(n, head, tail) /\ j - 1 \in 0 .. n - 1 /\ j - 1 < m
          /\ j \in 1 .. pkt_queued
      <4>1. Dist(n, head, tail) \in Nat /\ m <= Dist(n, head, tail) /\ m <= n - 1
            /\ pkt_queued \in Nat /\ m <= pkt_queued
            BY <1>1, <1>2, <1>3, <1>5
      <4>2. QED BY <1>1, <3>0, <4>1
    <3>7. i - InNic = j BY <1>1, <1>2, <3>0, <3>1
    <3>3. Plus(n, tail, i) = Plus(n, head, j - 1) BY <1>14, <3>1, <3>2
    <3>4. Dist(n, head, Plus(n, head, j - 1)) = j - 1 /\ Plus(n, head, j - 1) \in Slots
          BY <1>1, <3>2, Ways
    <3>5. slot'[Plus(n, tail, i)] = h_slot[Plus(l, h_head, j - 1)]
          BY <1>4, <3>2, <3>3, <3>4 DEF Swap
    <3>6. Pending[j] = h_slot[Plus(l, h_head, j - 1)] BY <1>7, <3>2
    <3>8. SubSeq(Pending, 1, m)[j] = Pending[j] BY <1>11
    <3>9. g[i] = SubSeq(Pending, 1, m)[j] BY <1>13, <2>2, <3>7
    <3>10. QED BY <2>0, <3>5, <3>6, <3>8, <3>9
  <2>3. QED BY <2>1, <2>2
<1>16. ASSUME NEW i \in 1 .. pkt_queued - m PROVE u[i] = v[i]
  <2>1. i \in 1 .. pkt_queued' /\ u[i] = h_slot'[Plus(l, Plus(l, h_head, m), i - 1)]
        BY <1>4, <1>6, <1>9
  <2>2. m + i \in 1 .. pkt_queued /\ (m + i) - 1 = m + (i - 1) /\ m + (i - 1) \in 0 .. l - 1
        /\ m \in Nat /\ i - 1 \in Nat /\ m + (i - 1) <= l - 1
        BY <1>1, <1>2, <1>3
  <2>3. Plus(l, Plus(l, h_head, m), i - 1) = Plus(l, h_head, m + (i - 1))
        BY <1>1, <2>2, Further
  <2>4. Dist(l, h_head, Plus(l, h_head, m + (i - 1))) = m + (i - 1)
        /\ Plus(l, h_head, m + (i - 1)) \in HSlots
        BY <1>1, <2>2, Ways
  <2>5. ~(m + (i - 1) < m) BY <2>2
  <2>6. h_slot'[Plus(l, h_head, m + (i - 1))] = h_slot[Plus(l, h_head, m + (i - 1))]
        BY <1>4, <2>4, <2>5 DEF Swap
  <2>7. Pending[m + i] = h_slot[Plus(l, h_head, m + (i - 1))] BY <1>7, <2>2
  <2>8. QED BY <1>12, <2>1, <2>3, <2>6, <2>7
<1>17. InFlight' = g /\ Pending' = v
  <2> HIDE DEF f, g, u, v
  <2>1. f = g BY <1>5, <1>8, <1>13, <1>15, SeqEqual
  <2>2. u = v BY <1>6, <1>9, <1>12, <1>16, SeqEqual
  <2>3. QED BY <2>1, <2>2 DEF f, u
<1>18. QED BY <1>2, <1>3, <1>7, <1>17 DEF m

-----------------------------------------------------------------------------
(* The invariant for what the rings hold.                                  *)

(* A packet as it has to be.                                               *)
HostPackets == {Host(h) : h \in HostPkt}
DataPackets ==
    [kind : {"data"}, seq : Nat, from : Nat, hdr : [fixed : Nat, tot_len : Nat, check : Int]]
Sendable == HostPackets \union
    {p \in DataPackets : p.from = p.seq * Payload /\ validate_ip_checksum(p.hdr) = 0}
Contents == InFlight \in Seq(Sendable) /\ Pending \in Seq(HostPackets)

(* Where the thread is in the file.                                        *)
Reading ==
    /\ data_size \in Sizes /\ seq \in 0 .. seq_max - 1
    /\ fpos = seq * Payload \/ (seq = 0 /\ fpos = data_size)

(* How much it is about to send.                                           *)
Batches ==
    /\ bcd_state \in {"DEAD", "INITIATED", "ATTEMPT", "FULLRATE"}
    /\ pc \in {"look", "poll", "send", "packet", "move", "sync", "check"}
    /\ known \in BOOLEAN /\ flip \in BOOLEAN
    /\ n_multi \in 0 .. nm_burst /\ n_host \in HSlots
    /\ pc # "packet" => left = 0
    /\ pc \in {"poll", "send"} /\ ~Alive => n_multi = 0
    /\ pc = "send" => n_multi > 0

NInv == PInv /\ Reading /\ Batches /\ Rings /\ Contents

(* Where the file is read from is where the packet lies in the data.       *)
LEMMA Reads ==
    ASSUME Reading
    PROVE  /\ ReadFrom = seq * Payload /\ ReadFrom \in Nat /\ seq \in Nat
           /\ DataBytes(data_size, seq) \in Nat /\ PayloadBytes(data_size, seq) \in Nat
<1>1. /\ seq_max \in Nat \ {0} /\ byte_payload_min(data_size) \in 1 .. Payload
      /\ Payload \in Nat \ {0} /\ data_size \in Nat \ {0}
      /\ data_size = (seq_max - 1) * Payload + byte_payload_min(data_size)
      BY WholePackets DEF Reading, seq_max
<1>2. seq \in Nat /\ seq <= seq_max - 1 /\ seq_max - 1 \in Int BY <1>1 DEF Reading
<1>3. seq * Payload \in Int /\ seq * Payload <= (seq_max - 1) * Payload
      /\ (seq_max - 1) * Payload \in Int
      BY <1>1, <1>2, Times
<1>4. seq * Payload < data_size BY <1>1, <1>3
<1>5. seq = 0 => seq * Payload = 0 BY <1>1
<1>6. 0 <= seq * Payload
  <2>1. 0 * Payload <= seq * Payload BY <1>1, <1>2, Times
  <2>2. QED BY <1>1, <2>1
<1>7. ReadFrom = seq * Payload
  <2>1. seq * Payload # data_size BY <1>1, <1>3, <1>4
  <2>2. CASE fpos = seq * Payload BY <2>1, <2>2, Zenon DEF ReadFrom
  <2>3. CASE seq = 0 /\ fpos = data_size BY <1>5, <2>3, Zenon DEF ReadFrom
  <2>4. QED BY <2>2, <2>3 DEF Reading
<1>8. DataBytes(data_size, seq) \in Nat BY <1>1 DEF DataBytes
<1>9. PayloadBytes(data_size, seq) \in Nat BY <1>8 DEF PayloadBytes
<1>10. QED BY <1>2, <1>3, <1>6, <1>7, <1>8, <1>9

LEMMA ReadsOn ==
    ASSUME Reading, AmPacket
    PROVE  /\ Reading'
           /\ seq' + 1 = IF seq + 1 = seq_max THEN 1 ELSE (seq + 1) + 1
<1>1. /\ seq_max \in Nat \ {0} /\ Payload \in Nat \ {0}
      /\ data_size = (seq_max - 1) * Payload + byte_payload_min(data_size)
      BY WholePackets DEF Reading, seq_max
<1>2. seq \in Nat /\ seq <= seq_max - 1 /\ ReadFrom = seq * Payload BY <1>1, Reads DEF Reading
<1>3. /\ fpos' = seq * Payload + DataBytes(data_size, seq)
      /\ seq' = (seq + 1) % seq_max /\ data_size' = data_size /\ seq_max' = seq_max
      BY <1>2 DEF AmPacket, seq_max
<1>4. CASE seq + 1 = seq_max
  <2>1. (1 * seq_max + 0) % seq_max = 0
    <3>1. 0 \in 0 .. seq_max - 1 BY <1>1
    <3>2. QED BY <1>1, <3>1, ModOf
  <2>2. 1 * seq_max + 0 = seq + 1 BY <1>1, <1>4
  <2>3. seq' = 0 BY <1>3, <2>1, <2>2
  <2>4. fpos' = data_size'
    <3>1. DataBytes(data_size, seq) = byte_payload_min(data_size) BY <1>4 DEF DataBytes, seq_max
    <3>2. seq = seq_max - 1 BY <1>1, <1>2, <1>4
    <3>3. QED BY <1>1, <1>3, <3>1, <3>2
  <2>5. QED BY <1>1, <1>3, <1>4, <2>3, <2>4 DEF Reading
<1>5. CASE seq + 1 # seq_max
  <2>1. seq + 1 \in 0 .. seq_max - 1 BY <1>1, <1>2, <1>5
  <2>2. (0 * seq_max + (seq + 1)) % seq_max = seq + 1 BY <1>1, <2>1, ModOf
  <2>3. 0 * seq_max + (seq + 1) = seq + 1 BY <1>1, <1>2
  <2>4. seq' = seq + 1 BY <1>3, <2>2, <2>3
  <2>5. DataBytes(data_size, seq) = Payload BY <1>5 DEF DataBytes, seq_max
  <2>6. (seq + 1) * Payload = seq * Payload + Payload BY <1>1, <1>2, Times
  <2>7. fpos' = seq' * Payload BY <1>3, <2>4, <2>5, <2>6
  <2>8. QED BY <1>3, <1>5, <2>1, <2>4, <2>7 DEF Reading
<1>6. QED BY <1>4, <1>5

(* The packet made up at lines 454-495.                                    *)
LEMMA PacketIs ==
    ASSUME Reading
    PROVE  LET p == Data(seq, ReadFrom, PayloadBytes(data_size, seq))
           IN  p \in Packet /\ p \in Sendable /\ p = Stream(data_size)[seq + 1]
<1> DEFINE hdr == Header(PayloadBytes(data_size, seq))
           p == Data(seq, ReadFrom, PayloadBytes(data_size, seq))
<1>1. /\ ReadFrom = seq * Payload /\ ReadFrom \in Nat /\ seq \in Nat
      /\ PayloadBytes(data_size, seq) \in Nat
      BY Reads
<1>2. hdr \in [fixed : Nat, tot_len : Nat, check : Int] /\ validate_ip_checksum(hdr) = 0
      BY <1>1, HeaderIsValid
<1>3. p = [kind |-> "data", seq |-> seq, from |-> ReadFrom, hdr |-> hdr] BY DEF Data
<1>4. p = Stream(data_size)[seq + 1]
  <2>1. PacketsOf(data_size) \in Nat \ {0} /\ seq \in 0 .. PacketsOf(data_size) - 1
        BY WholePackets DEF Reading, seq_max
  <2>2. seq + 1 \in 1 .. PacketsOf(data_size) /\ (seq + 1) - 1 = seq BY <2>1
  <2>3. QED BY <1>1, <2>2 DEF Stream
<1> HIDE DEF hdr
<1>5. p \in DataPackets BY <1>1, <1>2, <1>3 DEF DataPackets
<1>6. p.from = p.seq * Payload /\ validate_ip_checksum(p.hdr) = 0 BY <1>1, <1>2, <1>3
<1> HIDE DEF p
<1>7. p \in Packet BY <1>5 DEF Packet, DataPackets
<1>8. p \in Sendable BY <1>5, <1>6 DEF Sendable
<1>9. QED BY <1>4, <1>7, <1>8 DEF p

-----------------------------------------------------------------------------
(* The steps, and what each is for TxQueue.                                *)

Unmoved == InFlight' = InFlight /\ Pending' = Pending
SameStream == data_size' = data_size /\ seq' = seq

LEMMA QueueSteps ==
    /\ ~Alive /\ Alive' /\ data_size' \in Sizes /\ seq' = 0 /\ Unmoved => Queue!QNext
    /\ Alive /\ Alive' /\ InFlight' = Append(InFlight, Stream(data_size)[seq + 1])
       /\ seq' + 1 = (IF seq + 1 = Len(Stream(data_size)) THEN 1 ELSE (seq + 1) + 1)
       /\ data_size' = data_size /\ Pending' = Pending => Queue!QNext
    /\ (\E h \in HostPkt : Pending' = Append(Pending, Host(h))) /\ InFlight' = InFlight
       /\ (Alive' <=> Alive) /\ SameStream => Queue!QNext
    /\ (\E m \in 1 .. Len(Pending) : /\ InFlight' = InFlight \o SubSeq(Pending, 1, m)
                                     /\ Pending' = SubSeq(Pending, m + 1, Len(Pending)))
       /\ (Alive' <=> Alive) /\ SameStream => Queue!QNext
    /\ (\E d \in 1 .. Len(InFlight) : InFlight' = SubSeq(InFlight, d + 1, Len(InFlight)))
       /\ Pending' = Pending /\ (Alive' <=> Alive) /\ SameStream => Queue!QNext
    /\ Alive /\ ~Alive' /\ (\A i \in 1 .. Len(InFlight) : InFlight[i] \in HostPackets)
       /\ Unmoved /\ SameStream => Queue!QNext
    /\ Unmoved /\ SameStream /\ (Alive' <=> Alive) => UNCHANGED Queue!qvars
<1>1. (Alive' <=> Alive) => (Alive' = Alive) BY DEF Alive
<1>2. Alive \in BOOLEAN /\ Alive' \in BOOLEAN BY DEF Alive
<1> HIDE DEF Alive
<1>3. ASSUME ~Alive, Alive', data_size' \in Sizes, seq' = 0, Unmoved PROVE Queue!QNext
  <2>1. seq' + 1 = 1 BY <1>3
  <2>2. Alive = FALSE /\ Alive' = TRUE BY <1>2, <1>3
  <2>3. Queue!Begin BY <1>3, <2>1, <2>2 DEF Queue!Begin, Unmoved
  <2>4. QED BY <2>3 DEF Queue!QNext
<1>4. ASSUME Alive, Alive', InFlight' = Append(InFlight, Stream(data_size)[seq + 1]),
             seq' + 1 = (IF seq + 1 = Len(Stream(data_size)) THEN 1 ELSE (seq + 1) + 1),
             data_size' = data_size, Pending' = Pending
      PROVE  Queue!QNext
  <2>1. Stream(data_size') = Stream(data_size) BY <1>4
  <2>2. Alive' = Alive BY <1>1, <1>4
  <2>3. Queue!Multicast BY <1>4, <2>1, <2>2 DEF Queue!Multicast
  <2>4. QED BY <2>3 DEF Queue!QNext
<1>5. ASSUME SameStream, Alive' <=> Alive
      PROVE  Alive' = Alive /\ Stream(data_size') = Stream(data_size) /\ seq' + 1 = seq + 1
      BY <1>1, <1>5 DEF SameStream
<1>6. ASSUME \E h \in HostPkt : Pending' = Append(Pending, Host(h)), InFlight' = InFlight,
             Alive' <=> Alive, SameStream
      PROVE  Queue!QNext
  <2>1. Queue!HostSends BY <1>5, <1>6 DEF Queue!HostSends
  <2>2. QED BY <2>1 DEF Queue!QNext
<1>7. ASSUME \E m \in 1 .. Len(Pending) : /\ InFlight' = InFlight \o SubSeq(Pending, 1, m)
                                          /\ Pending' = SubSeq(Pending, m + 1, Len(Pending)),
             Alive' <=> Alive, SameStream
      PROVE  Queue!QNext
  <2>1. Queue!Forward BY <1>5, <1>7 DEF Queue!Forward
  <2>2. QED BY <2>1 DEF Queue!QNext
<1>8. ASSUME \E d \in 1 .. Len(InFlight) : InFlight' = SubSeq(InFlight, d + 1, Len(InFlight)),
             Pending' = Pending, Alive' <=> Alive, SameStream
      PROVE  Queue!QNext
  <2>1. Queue!Transmit BY <1>5, <1>8 DEF Queue!Transmit
  <2>2. QED BY <2>1 DEF Queue!QNext
<1>9. ASSUME Alive, ~Alive', \A i \in 1 .. Len(InFlight) : InFlight[i] \in HostPackets,
             Unmoved, SameStream
      PROVE  Queue!QNext
  <2>1. Stream(data_size') = Stream(data_size) /\ seq' + 1 = seq + 1 BY <1>9 DEF SameStream
  <2>2. Alive' = FALSE BY <1>2, <1>9
  <2>3. Queue!End BY <1>9, <2>1, <2>2 DEF Queue!End, Unmoved, HostPackets
  <2>4. QED BY <2>3 DEF Queue!QNext
<1>10. ASSUME Unmoved, SameStream, Alive' <=> Alive PROVE UNCHANGED Queue!qvars
       BY <1>5, <1>10 DEF Queue!qvars, Unmoved
<1>11. QED BY <1>3, <1>4, <1>6, <1>7, <1>8, <1>9, <1>10

QStep == Queue!QNext \/ UNCHANGED Queue!qvars
Kept == Reading' /\ Batches' /\ Rings' /\ Contents' /\ QStep

(* The rings and the file are as they were.                                *)
LEMMA NothingMoves ==
    ASSUME NInv, UNCHANGED <<txring, hostring, file>>, Alive' <=> Alive
    PROVE  Reading' /\ Rings' /\ Contents' /\ QStep
<1>1. Unmoved BY Same DEF txring, hostring, Unmoved
<1>2. SameStream BY DEF file, SameStream
<1>3. UNCHANGED Queue!qvars BY <1>1, <1>2, QueueSteps
<1>4. Reading' BY DEF NInv, Reading, seq_max, file
<1>5. Rings' BY DEF NInv, Rings, txring, hostring
<1>6. Contents' BY <1>1 DEF NInv, Contents, Unmoved
<1>7. QED BY <1>3, <1>4, <1>5, <1>6 DEF QStep

LEMMA TransmitKept ==
    ASSUME NInv, PInv', NEW d \in 0 .. InNic, Transmit(d), head' = head,
           UNCHANGED <<hostring, file>>, Alive' <=> Alive
    PROVE  Reading' /\ Rings' /\ Contents' /\ QStep
<1>1. Rings'
  <2>1. slot' \in [Slots -> Packet]
    <3>1. \A i \in Slots : (IF Dist(num_slots, tail, i) \in 1 .. d THEN Junk ELSE slot[i]) \in Packet
          BY Named DEF NInv, Rings
    <3>2. QED BY <3>1 DEF Transmit
  <2>2. QED BY <2>1 DEF NInv, Rings, hostring
<1>2. InFlight' = SubSeq(InFlight, d + 1, Len(InFlight)) /\ Pending' = Pending
      BY <1>1, TransmitSeq DEF NInv, PInv
<1>3. InFlight \in Seq(Sendable) /\ Len(InFlight) \in Nat
      /\ \A i \in 1 .. Len(InFlight) : InFlight[i] \in Sendable
  <2>1. InFlight \in Seq(Sendable) BY DEF NInv, Contents
  <2> HIDE DEF Sendable
  <2>2. QED BY <2>1, LenProperties, ElementOfSeq
<1>4. Len(InFlight) = InNic BY FlightIs DEF NInv, PInv
<1>5. InFlight' \in Seq(Sendable)
  <2>1. d + 1 \in Int /\ Len(InFlight) \in Int /\ d \in Nat
    <3>1. InNic \in Nat BY <1>3, <1>4
    <3>2. QED BY <1>3, <3>1
  <2>2. \A i \in d + 1 .. Len(InFlight) : InFlight[i] \in Sendable BY <1>3, <2>1
  <2> HIDE DEF Sendable
  <2>3. QED BY <1>2, <2>1, <2>2, SubSeqProperties
<1>6. Contents' BY <1>2, <1>5 DEF NInv, Contents
<1>7. SameStream BY DEF file, SameStream
<1>8. CASE d = 0
  <2>1. d + 1 = 1 BY <1>8
  <2>2. SubSeq(InFlight, 1, Len(InFlight)) = InFlight
    <3> HIDE DEF Sendable
    <3>1. QED BY <1>3, SubSeqFull
  <2>3. Unmoved BY <1>2, <2>1, <2>2 DEF Unmoved
  <2>4. QED BY <1>1, <1>6, <1>7, <2>3, QueueSteps DEF QStep, NInv, Reading, seq_max, file
<1>9. CASE d # 0
  <2>1. d \in 1 .. Len(InFlight)
    <3>1. InNic \in Nat BY <1>3, <1>4
    <3>2. QED BY <1>4, <1>9, <3>1
  <2>2. Queue!QNext BY <1>2, <1>7, <2>1, QueueSteps
  <2>3. QED BY <1>1, <1>6, <2>2 DEF QStep, NInv, Reading, seq_max, file
<1>10. QED BY <1>8, <1>9

LEMMA LookKept ==
    ASSUME NInv, PInv', LookIdle \/ LookEnded \/ LookSend PROVE Kept
<1> USE DEF txring, hostring, file, mark, found, end
<1>1. pkt_queued \in HSlots BY KernelHas DEF NInv, PInv, HSlots
<1>2. CASE LookIdle
  <2>1. Alive' <=> Alive BY <1>2 DEF LookIdle, Alive
  <2>2. n_multi' \in 0 .. nm_burst BY <1>2, PortAssumption DEF LookIdle
  <2>3. Batches' BY <1>1, <1>2, <2>2 DEF LookIdle, NInv, Batches, Alive
  <2>4. QED BY <1>2, <2>1, <2>3, NothingMoves DEF LookIdle, Kept
<1>3. CASE LookEnded
  <2>1. Alive' /\ Alive BY <1>3 DEF LookEnded, Alive
  <2>2. n_multi' \in 0 .. nm_burst BY <1>3, PortAssumption DEF LookEnded
  <2>3. Batches' BY <1>1, <1>3, <2>1, <2>2 DEF LookEnded, NInv, Batches
  <2>4. QED BY <1>3, <2>1, <2>3, NothingMoves DEF LookEnded, Kept
<1>4. CASE LookSend
  <2>1. Alive' /\ Alive BY <1>4 DEF LookSend, Alive
  <2>2. n_multi' \in 0 .. nm_burst
    <3>1. known => togo > 0 /\ togo \in Int BY <1>4 DEF LookSend, Ended, NInv, PInv, Types
    <3>2. PICK n \in (IF bcd_state' = bcd_state THEN n_multi ELSE 0) .. nm_burst :
              n_multi' = IF known THEN Lesser(n, togo) ELSE n
          BY <1>4 DEF LookSend
    <3>3. n \in 0 .. nm_burst /\ nm_burst \in Nat BY <3>2, PortAssumption DEF NInv, PInv, Types
    <3>4. QED BY <3>1, <3>2, <3>3 DEF Lesser
  <2>3. bcd_state' \in {"DEAD", "INITIATED", "ATTEMPT", "FULLRATE"}
        BY <1>4 DEF LookSend, NInv, Batches
  <2>4. Batches' BY <1>1, <1>4, <2>1, <2>2, <2>3 DEF LookSend, NInv, Batches
  <2>5. QED BY <1>4, <2>1, <2>4, NothingMoves DEF LookSend, Kept
<1>5. QED BY <1>2, <1>3, <1>4

LEMMA PollKept == ASSUME NInv, PInv', Poll PROVE Kept
<1>1. UNCHANGED <<head, hostring, file, bcd_state, n_multi, left, known>> /\ pc = "poll" /\ n_host' = 0
      BY DEF Poll, end
<1>2. Alive' <=> Alive BY <1>1 DEF Alive
<1>3. Reading' /\ Rings' /\ Contents' /\ QStep
  <2>1. CASE UNCHANGED <<tail, slot>>
        BY <1>1, <1>2, <2>1, NothingMoves DEF txring
  <2>2. CASE \E d \in 0 .. InNic : Transmit(d)
        BY <1>1, <1>2, <2>2, TransmitKept
  <2>3. QED BY <2>1, <2>2 DEF Poll
<1>4. /\ pc' \in {"send", "move", "sync"} /\ flip' \in BOOLEAN
      /\ pc' = "send" => n_multi > 0
  <2>1. Turn \in {"send", "move", "sync"} /\ (Turn = "send" => n_multi > 0) BY DEF Turn
  <2>2. flip \in BOOLEAN BY DEF NInv, Batches
  <2>3. CASE pc' = Turn /\ flip' = ~flip BY <2>1, <2>3
  <2>4. CASE pc' = "sync" /\ flip' = flip BY <2>2, <2>4
  <2>5. QED BY <2>3, <2>4 DEF Poll
<1>5. Batches'
  <2>1. 0 \in HSlots BY Sizes2 DEF HSlots
  <2>2. QED BY <1>1, <1>2, <1>4, <2>1 DEF NInv, Batches
<1>6. QED BY <1>3, <1>5 DEF Kept

LEMMA SyncKept == ASSUME NInv, PInv', Sync PROVE Kept
<1>1. UNCHANGED <<head, hostring, file, bcd_state, found, left, known, flip>> /\ pc = "sync" /\ pc' = "check"
      BY DEF Sync, end
<1>2. Alive' <=> Alive BY <1>1 DEF Alive
<1>3. Reading' /\ Rings' /\ Contents' /\ QStep BY <1>1, <1>2, TransmitKept DEF Sync
<1>4. Batches' BY <1>1 DEF NInv, Batches, found
<1>5. QED BY <1>3, <1>4 DEF Kept

LEMMA HostSendsKept == ASSUME NInv, PInv', NEW h \in HostPkt, HostSends(h) PROVE Kept
<1>1. UNCHANGED <<txring, h_head, file, bcd_state, pc, found, left, known, flip>>
      BY DEF HostSends, end
<1>2. Alive' <=> Alive BY <1>1 DEF Alive
<1>3. Rings' BY Named DEF HostSends, NInv, Rings, txring, PInv, Types
<1>4. Pending' = Append(Pending, Host(h)) /\ InFlight' = InFlight
      BY <1>3, HostSendsSeq DEF NInv, PInv
<1>5. Contents'
  <2>1. Pending \in Seq(HostPackets) /\ Host(h) \in HostPackets BY DEF NInv, Contents, HostPackets
  <2>2. Append(Pending, Host(h)) \in Seq(HostPackets)
    <3> HIDE DEF HostPackets
    <3>1. QED BY <2>1, AppendProperties
  <2>3. QED BY <1>4, <2>2 DEF NInv, Contents
<1>6. SameStream BY <1>1 DEF file, SameStream
<1>7. QStep BY <1>2, <1>4, <1>6, QueueSteps DEF QStep
<1>8. Reading' BY <1>1 DEF NInv, Reading, seq_max, file
<1>9. Batches' BY <1>1, <1>2 DEF NInv, Batches, found
<1>10. QED BY <1>3, <1>5, <1>7, <1>8, <1>9 DEF Kept

LEMMA AmKept == ASSUME NInv, PInv', AmBegin \/ AmPacket \/ AmOver PROVE Kept
<1>1. CASE AmBegin
  <2>1. UNCHANGED <<txring, hostring, file, bcd_state, known, flip, n_multi, n_host>> /\ pc = "send"
        /\ left' = Batch /\ pc' = IF Alive THEN "packet" ELSE "sync"
        BY <1>1 DEF AmBegin, end, found
  <2>2. Alive BY <2>1, PortAssumption DEF NInv, Batches
  <2>3. Alive' <=> Alive BY <2>1 DEF Alive
  <2>4. Batches' BY <2>1, <2>2 DEF NInv, Batches
  <2>5. QED BY <2>1, <2>3, <2>4, NothingMoves DEF Kept
<1>2. CASE AmPacket
  <2> DEFINE p == Data(seq, ReadFrom, PayloadBytes(data_size, seq))
  <2>1. UNCHANGED <<tail, hostring, bcd_state, data_size, known, pc, n_host, flip>> /\ pc = "packet"
        /\ head' = Plus(num_slots, head, 1) /\ slot' = [slot EXCEPT ![head] = p]
        /\ left > 0 /\ n_multi' = n_multi - 1
        BY <1>2 DEF AmPacket
  <2>2. Alive /\ left <= nm_ring_space /\ left <= n_multi /\ left \in Nat
        BY <2>1 DEF NInv, PInv, Control, Types
  <2>3. p \in Packet /\ p \in Sendable /\ p = Stream(data_size)[seq + 1] BY PacketIs DEF NInv
  <2> HIDE DEF p
  <2>4. Alive' <=> Alive BY <2>1 DEF Alive
  <2>5. Rings' BY <2>1, <2>3 DEF NInv, Rings, hostring
  <2>6. nm_ring_space > 0 BY <2>1, <2>2, KernelHas DEF NInv, PInv
  <2>7. InFlight' = Append(InFlight, p) /\ Pending' = Pending
        BY <2>1, <2>3, <2>5, <2>6, PutSeq DEF NInv, PInv
  <2>8. Contents'
    <3>1. InFlight \in Seq(Sendable) BY DEF NInv, Contents
    <3>2. Append(InFlight, p) \in Seq(Sendable)
      <4> HIDE DEF Sendable
      <4>1. QED BY <2>3, <3>1, AppendProperties
    <3>3. QED BY <2>7, <3>2 DEF NInv, Contents
  <2>9. Reading' /\ seq' + 1 = IF seq + 1 = seq_max THEN 1 ELSE (seq + 1) + 1
        BY <1>2, ReadsOn DEF NInv
  <2>10. Len(Stream(data_size)) = seq_max
    <3>1. PacketsOf(data_size) \in Nat BY WholePackets DEF NInv, Reading
    <3>2. QED BY <3>1 DEF Stream, seq_max
  <2>11. QStep BY <2>1, <2>2, <2>3, <2>4, <2>7, <2>9, <2>10, QueueSteps DEF QStep
  <2>12. n_multi' \in 0 .. nm_burst
    <3>1. n_multi \in 0 .. nm_burst /\ nm_burst \in Nat BY PortAssumption DEF NInv, Batches
    <3>2. QED BY <2>1, <2>2, <3>1
  <2>13. Batches' BY <2>1, <2>4, <2>12 DEF NInv, Batches
  <2>14. QED BY <2>5, <2>8, <2>9, <2>11, <2>13 DEF Kept
<1>3. CASE AmOver
  <2>1. UNCHANGED <<txring, hostring, file, bcd_state, known, flip, n_multi, n_host, left>>
        /\ pc' = "sync" /\ left = 0
        BY <1>3 DEF AmOver, found
  <2>2. Alive' <=> Alive BY <2>1 DEF Alive
  <2>3. Batches' BY <2>1, <2>2 DEF NInv, Batches
  <2>4. QED BY <2>1, <2>2, <2>3, NothingMoves DEF Kept
<1>4. QED BY <1>1, <1>2, <1>3

LEMMA MoveKept == ASSUME NInv, PInv', Move PROVE Kept
<1>1. UNCHANGED <<tail, h_tail, file, bcd_state, found, left, known, flip>> /\ pc = "move" /\ pc' = "sync"
      /\ Swap(Moved)
      BY DEF Move, end
<1>2. Alive' <=> Alive BY <1>1 DEF Alive
<1>3. Moved \in 0 .. num_slots - 1 /\ Moved \in 0 .. host_slots - 1
  <2>1. nm_ring_space \in 0 .. num_slots - 1 /\ pkt_queued \in 0 .. host_slots - 1
        BY KernelHas DEF NInv, PInv
  <2>2. QED BY <2>1, Sizes2, PortAssumption DEF Moved, Lesser
<1>4. Rings'
  <2>1. ASSUME NEW i \in Slots, Dist(num_slots, head, i) < Moved
        PROVE  h_slot[Plus(host_slots, h_head, Dist(num_slots, head, i))] \in Packet
    <3> DEFINE k == Dist(num_slots, head, i)
    <3>1. k \in 0 .. num_slots - 1 BY Sizes2, Ways DEF NInv, PInv, Types, Slots
    <3>2. k \in 0 .. host_slots - 1 BY <1>3, <2>1, <3>1, Sizes2
    <3> HIDE DEF k
    <3>3. Plus(host_slots, h_head, k) \in HSlots BY <3>2, Sizes2, Ways DEF NInv, PInv, Types, HSlots
    <3>4. QED BY <3>3 DEF k, NInv, Rings
  <2>2. slot' \in [Slots -> Packet]
    <3>1. slot' = [i \in Slots |->
              IF Dist(num_slots, head, i) < Moved
              THEN h_slot[Plus(host_slots, h_head, Dist(num_slots, head, i))] ELSE slot[i]]
          BY <1>1 DEF Swap
    <3>2. \A i \in Slots : slot[i] \in Packet BY DEF NInv, Rings
    <3> HIDE DEF Packet
    <3>3. QED BY <2>1, <3>1, <3>2
  <2>3. h_slot' \in [HSlots -> Packet]
    <3>1. h_slot' = [j \in HSlots |-> IF Dist(host_slots, h_head, j) < Moved THEN Junk ELSE h_slot[j]]
          BY <1>1 DEF Swap
    <3>2. \A j \in HSlots : h_slot[j] \in Packet BY DEF NInv, Rings
    <3> HIDE DEF Packet
    <3>3. QED BY <3>1, <3>2, Named
  <2>4. QED BY <2>2, <2>3 DEF Rings
<1>5. /\ Moved \in 0 .. Len(Pending) /\ Len(Pending) \in Nat
      /\ InFlight' = InFlight \o SubSeq(Pending, 1, Moved)
      /\ Pending' = SubSeq(Pending, Moved + 1, Len(Pending))
      BY <1>4, MoveSeq DEF NInv, PInv
<1> DEFINE m == Moved
<1>6. InFlight \in Seq(Sendable) /\ Pending \in Seq(HostPackets) BY DEF NInv, Contents
<1>7. \A i \in 1 .. Len(Pending) : Pending[i] \in HostPackets
  <2> HIDE DEF HostPackets
  <2>1. QED BY <1>6, ElementOfSeq
<1> HIDE DEF m
<1>8. m \in Nat /\ m <= Len(Pending) /\ m \in Int /\ 1 \in Int BY <1>5 DEF m
<1>9. SubSeq(Pending, 1, m) \in Seq(HostPackets) /\ SubSeq(Pending, 1, m) \in Seq(Sendable)
  <2>1. \A i \in 1 .. m : Pending[i] \in HostPackets BY <1>5, <1>7, <1>8
  <2>2. SubSeq(Pending, 1, m) \in Seq(HostPackets)
    <3> HIDE DEF HostPackets
    <3>1. QED BY <1>8, <2>1, SubSeqProperties
  <2>3. HostPackets \subseteq Sendable BY DEF Sendable
  <2> HIDE DEF HostPackets, Sendable
  <2>4. QED BY <2>2, <2>3, SeqMonotonic
<1>10. SubSeq(Pending, m + 1, Len(Pending)) \in Seq(HostPackets)
  <2>1. m + 1 \in Int /\ Len(Pending) \in Int BY <1>5, <1>8
  <2>2. \A i \in m + 1 .. Len(Pending) : Pending[i] \in HostPackets BY <1>5, <1>7, <1>8
  <2> HIDE DEF HostPackets
  <2>3. QED BY <2>1, <2>2, SubSeqProperties
<1>11. Contents'
  <2>1. InFlight \o SubSeq(Pending, 1, m) \in Seq(Sendable)
    <3> HIDE DEF Sendable
    <3>1. QED BY <1>6, <1>9, ConcatProperties
  <2>2. QED BY <1>5, <1>10, <2>1 DEF Contents, m
<1>12. SameStream BY <1>1 DEF file, SameStream
<1>13. QStep
  <2>1. CASE m = 0
    <3>1. SubSeq(Pending, 1, m) = <<>> BY <1>8, <2>1, SubSeqEmpty
    <3>2. SubSeq(Pending, m + 1, Len(Pending)) = Pending
      <4>1. m + 1 = 1 BY <2>1
      <4> HIDE DEF HostPackets
      <4>2. SubSeq(Pending, 1, Len(Pending)) = Pending BY <1>6, SubSeqFull
      <4>3. QED BY <4>1, <4>2
    <3>3. InFlight \o <<>> = InFlight
      <4> HIDE DEF Sendable
      <4>1. QED BY <1>6, ConcatEmptySeq
    <3>4. Unmoved BY <1>5, <3>1, <3>2, <3>3 DEF Unmoved, m
    <3>5. QED BY <1>2, <1>12, <3>4, QueueSteps DEF QStep
  <2>2. CASE m # 0
    <3>1. m \in 1 .. Len(Pending) BY <1>5, <1>8, <2>2
    <3>2. InFlight' = InFlight \o SubSeq(Pending, 1, m)
          /\ Pending' = SubSeq(Pending, m + 1, Len(Pending))
          BY <1>5 DEF m
    <3>3. QED BY <1>2, <1>12, <3>1, <3>2, QueueSteps DEF QStep
  <2>3. QED BY <2>1, <2>2
<1>14. Reading' BY <1>1 DEF NInv, Reading, seq_max, file
<1>15. Batches' BY <1>1, <1>2 DEF NInv, Batches, found
<1>16. QED BY <1>4, <1>11, <1>13, <1>14, <1>15 DEF Kept

(* Everything has left when the path is given up.                          *)
LEMMA CheckKept == ASSUME NInv, PInv', Check PROVE Kept
<1>1. UNCHANGED <<txring, hostring, file, found, left, known, flip>> /\ pc = "check" /\ pc' = "look"
      BY DEF Check, end
<1>2. Unmoved BY <1>1, Same DEF txring, hostring, Unmoved
<1>3. SameStream BY <1>1 DEF file, SameStream
<1>4. bcd_state' = bcd_state \/ (bcd_state' = "DEAD" /\ need_release)
      BY DEF Check
<1>5. Batches' BY <1>1, <1>4 DEF NInv, Batches, found
<1>6. CASE Alive' <=> Alive BY <1>1, <1>5, <1>6, NothingMoves DEF Kept
<1>7. CASE ~(Alive' <=> Alive)
  <2>1. Alive /\ ~Alive' BY <1>4, <1>7 DEF Alive
  <2>2. ASSUME NEW i \in 1 .. Len(InFlight) PROVE InFlight[i] \in HostPackets
    <3>1. InFlight[i] \in Sendable
      <4>1. InFlight \in Seq(Sendable) BY DEF NInv, Contents
      <4> HIDE DEF Sendable
      <4>2. QED BY <4>1, ElementOfSeq
    <3>2. InFlight[i].kind # "data"
      <4>1. (PInv => DeadHasLeft)' BY LeftWhenDead, PTL
      <4>2. \A j \in 1 .. InNic' : InFlight'[j].kind # "data"
            BY <2>1, <4>1 DEF DeadHasLeft
      <4>3. InNic' = InNic BY <1>1 DEF InNic, nm_ring_space, txring
      <4>4. Len(InFlight) = InNic BY FlightIs DEF NInv, PInv
      <4>5. InFlight' = InFlight BY <1>2 DEF Unmoved
      <4>6. QED BY <4>2, <4>3, <4>4, <4>5
    <3>3. QED BY <3>1, <3>2 DEF Sendable, DataPackets
  <2>3. QStep BY <1>2, <1>3, <2>1, <2>2, QueueSteps DEF QStep
  <2>4. Reading' BY <1>1 DEF NInv, Reading, seq_max, file
  <2>5. Rings' BY <1>1 DEF NInv, Rings, txring, hostring
  <2>6. Contents' BY <1>2 DEF NInv, Contents, Unmoved
  <2>7. QED BY <1>5, <2>3, <2>4, <2>5, <2>6 DEF Kept
<1>8. QED BY <1>6, <1>7

LEMMA OthersKept ==
    ASSUME NInv, PInv', Activate \/ (\E n \in 0 .. MaxToGo : EndKnown(n)) PROVE Kept
<1>1. CASE Activate
  <2>1. UNCHANGED <<txring, hostring, pc, found, left, flip>> /\ ~Alive /\ Alive' /\ data_size' \in Sizes
        /\ seq' = 0 /\ fpos' = 0 /\ known' = FALSE /\ bcd_state' = "INITIATED"
        BY <1>1 DEF Activate, Alive
  <2>2. Unmoved BY <2>1, Same DEF txring, hostring, Unmoved
  <2>3. QStep BY <2>1, <2>2, QueueSteps DEF QStep
  <2>4. Reading'
    <3>1. seq_max' \in Nat \ {0} BY <2>1, WholePackets DEF seq_max
    <3>2. 0 * Payload = 0 BY PortAssumption
    <3>3. 0 \in 0 .. seq_max' - 1 BY <3>1 DEF seq_max
    <3>4. QED BY <2>1, <3>2, <3>3 DEF Reading
  <2>5. Rings' BY <2>1 DEF NInv, Rings, txring, hostring
  <2>6. Contents' BY <2>2 DEF NInv, Contents, Unmoved
  <2>7. Batches' BY <2>1 DEF NInv, Batches, found
  <2>8. QED BY <2>3, <2>4, <2>5, <2>6, <2>7 DEF Kept
<1>2. CASE \E n \in 0 .. MaxToGo : EndKnown(n)
  <2>1. UNCHANGED <<txring, hostring, file, bcd_state, pc, found, left, flip>> /\ known' = TRUE
        BY <1>2 DEF EndKnown
  <2>2. Alive' <=> Alive BY <2>1 DEF Alive
  <2>3. Batches' BY <2>1, <2>2 DEF NInv, Batches, found
  <2>4. QED BY <2>1, <2>2, <2>3, NothingMoves DEF Kept
<1>3. QED BY <1>1, <1>2

LEMMA NextKept == ASSUME NInv, PInv', [Next]_vars PROVE Kept
<1>1. CASE Next
      BY <1>1, LookKept, HostSendsKept, PollKept, AmKept, MoveKept, SyncKept, CheckKept, OthersKept
         DEF Next, Netmap
<1>2. CASE UNCHANGED vars
  <2>1. UNCHANGED <<txring, hostring, file, bcd_state, pc, found, left, flip, known>>
        BY <1>2 DEF vars, end
  <2>2. Alive' <=> Alive BY <2>1 DEF Alive
  <2>3. Batches' BY <2>1, <2>2 DEF NInv, Batches, found
  <2>4. QED BY <2>1, <2>2, <2>3, NothingMoves DEF Kept
<1>3. QED BY <1>1, <1>2

LEMMA InitNInv == Init => NInv /\ Queue!QInit
<1> SUFFICES ASSUME Init PROVE NInv /\ Queue!QInit OBVIOUS
<1>1. PInv BY InitPInv
<1>2. Rings BY Named DEF Init, Rings
<1>3. InNic = 0 /\ pkt_queued = 0 BY Sizes2 DEF Init, InNic, nm_ring_space, pkt_queued, Dist
<1>4. InFlight = <<>> /\ Pending = <<>>
  <2>1. /\ InFlight \in Seq(Packet) /\ Len(InFlight) = 0
        /\ Pending \in Seq(Packet) /\ Len(Pending) = 0
        BY <1>1, <1>2, <1>3, FlightIs, PendingIs DEF PInv
  <2> HIDE DEF Packet
  <2>2. QED BY <2>1, EmptySeq
<1>5. Contents BY <1>4 DEF Contents
<1>6. Reading
  <2>1. seq_max \in Nat \ {0} BY WholePackets DEF Init, seq_max
  <2>2. 0 * Payload = 0 BY PortAssumption
  <2>3. QED BY <2>1, <2>2 DEF Init, Reading
<1>7. Batches
  <2>1. 0 \in HSlots /\ 0 \in 0 .. nm_burst BY Sizes2, PortAssumption DEF HSlots
  <2>2. QED BY <2>1 DEF Init, Batches, Alive
<1>8. Queue!QInit BY <1>4 DEF Init, Queue!QInit, Alive
<1>9. QED BY <1>1, <1>2, <1>5, <1>6, <1>7, <1>8 DEF NInv

-----------------------------------------------------------------------------
(* The results about packets.                                              *)

(* The invariant, with what the rings hold.                                *)
THEOREM RingsInvariant == Spec => []NInv
<1>1. NInv /\ [Next]_vars => NInv' BY NextPInv, NextKept DEF NInv, Kept
<1>2. QED BY <1>1, InitNInv, PTL DEF Spec

(* Types: no index leaves its ring, whatever the burst and the sizes       *)
(* (thread_data.c:366-453).                                                *)
THEOREM TypeCorrect == Spec => []TypeOK
<1>1. NInv => TypeOK
  <2> SUFFICES ASSUME NInv PROVE TypeOK OBVIOUS
  <2>1. slot \in [Slots -> Packet] /\ h_slot \in [HSlots -> Packet] BY DEF NInv, Rings
  <2>2. seq \in Nat /\ fpos \in Nat
    <3>1. seq \in Nat /\ seq * Payload \in Nat BY Reads DEF NInv
    <3>2. data_size \in Nat BY WholePackets DEF NInv, Reading
    <3>3. QED BY <3>1, <3>2 DEF NInv, Reading
  <2>3. left \in 0 .. nm_burst /\ left <= n_multi
    <3>1. n_multi \in 0 .. nm_burst /\ nm_burst \in Nat BY PortAssumption DEF NInv, Batches
    <3>2. left \in Nat /\ (left = 0 \/ left <= n_multi) BY DEF NInv, PInv, Types, Control, Batches
    <3>3. QED BY <3>1, <3>2
  <2>4. QED BY <2>1, <2>2, <2>3 DEF NInv, PInv, Types, Reading, Batches, TypeOK
<1>2. QED BY <1>1, RingsInvariant, PTL

(* Packets of a multicast carry the bytes their number says, with a header *)
(* the check of checksum.c:35 accepts (thread_data.c:454-495).             *)
THEOREM PacketsAreRight == Spec => []OwnBytes
<1>1. NInv => OwnBytes
  <2> SUFFICES ASSUME NInv, NEW i \in 1 .. InNic, InFlight[i].kind = "data"
               PROVE  /\ InFlight[i].from = InFlight[i].seq * Payload
                      /\ validate_ip_checksum(InFlight[i].hdr) = 0
      BY DEF OwnBytes
  <2>1. Len(InFlight) = InNic BY FlightIs DEF NInv, PInv
  <2>2. InFlight[i] \in Sendable
    <3>1. InFlight \in Seq(Sendable) BY DEF NInv, Contents
    <3> HIDE DEF Sendable
    <3>2. QED BY <2>1, <3>1, ElementOfSeq
  <2>3. InFlight[i] \notin HostPackets BY Kinds DEF HostPackets
  <2>4. QED BY <2>2, <2>3 DEF Sendable
<1>2. QED BY <1>1, RingsInvariant, PTL

(* The rings' indices, as the thread moves them, make the queue of TxQueue *)
(* (thread_data.c:18-31, 337-353, 443-510, 602-667).                       *)
THEOREM QueueImplemented == Spec => QueueSpec
<1>1. NInv /\ [Next]_vars => [Queue!QNext]_(Queue!qvars)
      BY NextPInv, NextKept DEF NInv, Kept, QStep
<1>2. QED BY <1>1, InitNInv, RingsInvariant, PTL DEF Spec, QueueSpec, Queue!QSpec
=============================================================================
