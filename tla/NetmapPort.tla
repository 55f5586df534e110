----------------------------- MODULE NetmapPort -----------------------------
(***************************************************************************)
(* The netmap thread's way to the NIC (thread_data.c): one loop that looks *)
(* for work, polls, puts packets of the active multicast or of the host    *)
(* into the NIC's transmit ring, hands the ring to the NIC and finds out   *)
(* from the ring's indices alone whether the last packet of the multicast  *)
(* has left.  Of a ring, the slots from head to tail belong to the thread, *)
(* the others to the kernel, which is external.  The way back, from the    *)
(* NIC, is RecverState's; when a multicast may end is MulticastSend's      *)
(* matter, here its end becomes known at any time.                         *)
(***************************************************************************)
EXTENDS Integers, Sequences

CONSTANTS
    Sizes,          \* the sizes data may have, in bytes
    Payload,        \* data_payload_len (config)
    HostPkt,        \* packets of the host's own network stack
    num_slots,      \* slots of the NIC's transmit ring
    host_slots,     \* slots of the host stack's receive ring
    nm_burst,       \* packets moved at a time (config)
    MaxToGo,        \* bound: packets to the end when it becomes known
    Word            \* 2^16, the range of a word in a checksum

ASSUME PortAssumption ==
    /\ Sizes \subseteq Nat \ {0} /\ Payload \in Nat \ {0}
    /\ num_slots \in Nat /\ num_slots >= 2 /\ host_slots \in Nat /\ host_slots >= 2
    /\ nm_burst \in Nat \ {0} /\ MaxToGo \in Nat /\ Word \in Nat /\ Word > 1

VARIABLES
    head, tail,     \* the NIC's ring (head is also cur) ...
    slot,           \* ... and the packets in its slots
    h_head, h_tail, \* the host's ring: what is from head to tail waits ...
    h_slot,         \* ... and the packets in its slots
    bcd_state,      \* bcd_state of the active multicast, DEAD if none
    data_size,      \* its data_size
    seq,            \* its seq_cur % seq_max
    fpos,           \* the position of its file fd
    known, togo,    \* n_init = n_first_seq, and then seq_end - seq_cur
    last,           \* is_tv_last_data & 0x10
    pc,             \* the thread: where it is
    n_multi, n_host,\* what it found when it looked
    flip,           \* move_flip
    left,           \* packets it still puts into the ring
    need_release,   \* need_release_path
    am_head, am_tail\* am_txring_head, am_txring_tail_last

txring == <<head, tail, slot>>
hostring == <<h_head, h_tail, h_slot>>
file == <<data_size, seq, fpos>>
end == <<known, togo, last>>
found == <<n_multi, n_host>>
mark == <<need_release, am_head, am_tail>>
vars == <<txring, hostring, bcd_state, file, end, pc, found, flip, left, mark>>

-----------------------------------------------------------------------------
(* Rings of n slots: the way from a to b, and the slot k after a.          *)
Dist(n, a, b) == IF b >= a THEN b - a ELSE b + n - a
Plus(n, a, k) == IF a + k < n THEN a + k ELSE a + k - n
Lesser(a, b) == IF a < b THEN a ELSE b

Slots == 0 .. num_slots - 1
HSlots == 0 .. host_slots - 1
nm_ring_space == Dist(num_slots, head, tail)
InNic == num_slots - 1 - nm_ring_space      \* packets the kernel has
pkt_queued == Dist(host_slots, h_head, h_tail)

-----------------------------------------------------------------------------
(* Packets.                                                                *)

(* The sum of the words of a header, carries added back, inverted.         *)
Fold[s \in Nat] == IF s < Word THEN s ELSE Fold[(s % Word) + (s \div Word)]
compute_checksum(hdr) == Word - 1 - Fold[hdr.fixed + hdr.tot_len + hdr.check]

compute_ip_checksum(hdr) ==
    [hdr EXCEPT !.check = compute_checksum([hdr EXCEPT !.check = 0])]
validate_ip_checksum(hdr) == compute_checksum(hdr)

(* createBcdState (866-873): packets in the data, bytes in the last one.   *)
PacketsOf(size) == size \div Payload + IF size % Payload = 0 THEN 0 ELSE 1
byte_payload_min(size) == IF size % Payload = 0 THEN Payload ELSE size % Payload
seq_max == PacketsOf(data_size)

(* One payload each, the rest in the last one; with the metadata in packet *)
(* zero (one unit).                                                        *)
DataBytes(size, s) == IF s + 1 = PacketsOf(size) THEN byte_payload_min(size) ELSE Payload
PayloadBytes(size, s) == DataBytes(size, s) + IF s = 0 THEN 1 ELSE 0

(* A plausible slip: the file is not read again from the start.           *)
ReadFromEnd == fpos

(* Where fread reads: at the end of the file it returns nothing, and the   *)
(* file is read again from the start.                                      *)
ReadFrom == IF fpos = data_size THEN 0 ELSE fpos

(* What every header of a multicast starts from.                          *)
initIPHeader == [fixed |-> 1, tot_len |-> 0, check |-> 0]

(* A plausible slip: the length is filled in after the checksum.           *)
HeaderLate(bytes) ==
    [compute_ip_checksum(initIPHeader) EXCEPT !.tot_len = bytes]

(* 470-472: the length is filled in, then the checksum taken.              *)
Header(bytes) == compute_ip_checksum([initIPHeader EXCEPT !.tot_len = bytes])

Junk == [kind |-> "junk"]                   \* of no more interest
Host(h) == [kind |-> "host", name |-> h]
Data(s, from, bytes) == [kind |-> "data", seq |-> s, from |-> from, hdr |-> Header(bytes)]

-----------------------------------------------------------------------------
Init ==
    /\ head = 0 /\ tail = num_slots - 1 /\ slot = [i \in Slots |-> Junk]
    /\ h_head = 0 /\ h_tail = 0 /\ h_slot = [i \in HSlots |-> Junk]
    /\ bcd_state = "DEAD" /\ data_size \in Sizes /\ seq = 0 /\ fpos = 0
    /\ known = FALSE /\ togo = 0 /\ last = FALSE
    /\ pc = "look" /\ n_multi = 0 /\ n_host = 0 /\ flip = FALSE /\ left = 0
    /\ need_release = FALSE /\ am_head = 0 /\ am_tail = 0

Alive == bcd_state # "DEAD"
Ended == known /\ togo <= 0

(* The last packet is in the ring, in the slot before head (384-391,       *)
(* 502-509).                                                               *)
MarkLast ==
    /\ last' = TRUE /\ need_release' = TRUE
    /\ am_head' = Dist(num_slots, 1, head) /\ am_tail' = tail

-----------------------------------------------------------------------------
(* The thread looks for work: am_n_pkt_queued (366-422) and pkt_queued.    *)

LookIdle ==
    /\ pc = "look" /\ pc' = "poll" /\ ~Alive
    /\ n_multi' = 0 /\ n_host' = pkt_queued
    /\ UNCHANGED <<txring, hostring, bcd_state, file, end, flip, left, mark>>

(* Everything is sent; maybe it was before the end was known.              *)
LookEnded ==
    /\ pc = "look" /\ pc' = "poll" /\ Alive /\ (last \/ Ended)
    /\ n_multi' = 0 /\ n_host' = pkt_queued
    /\ bcd_state' = "FULLRATE"
    /\ IF last THEN UNCHANGED <<last, mark>> ELSE MarkLast
    /\ UNCHANGED <<txring, hostring, file, known, togo, flip, left>>

(* As much as the rate limit allows, which what was not sent last time     *)
(* adds to; a new rate (984-992) starts it anew.  Full rate may come with  *)
(* any report, and comes with the last one.                                *)
LookSend ==
    /\ pc = "look" /\ pc' = "poll" /\ Alive /\ ~last /\ ~Ended
    /\ \/ bcd_state' = "FULLRATE"
       \/ ~known /\ bcd_state' = IF bcd_state = "INITIATED" THEN "ATTEMPT" ELSE bcd_state
    /\ \E n \in (IF bcd_state' = bcd_state THEN n_multi ELSE 0) .. nm_burst :
           n_multi' = IF known THEN Lesser(n, togo) ELSE n
    /\ n_host' = pkt_queued
    /\ UNCHANGED <<txring, hostring, file, end, flip, left, mark>>

-----------------------------------------------------------------------------
(* The kernel: tail moves, and the host's ring fills, only while the       *)
(* thread is in a system call.                                             *)

(* d more packets have been sent.                                          *)
Transmit(d) ==
    /\ tail' = Plus(num_slots, tail, d)
    /\ slot' = [i \in Slots |-> IF Dist(num_slots, tail, i) \in 1 .. d THEN Junk ELSE slot[i]]

(* The host's stack has a packet for the network; poll was asked for it,   *)
(* POLLIN, only if there was none (609-613).                               *)
HostSends(h) ==
    /\ pc = "poll" /\ n_host = 0 /\ pkt_queued < host_slots - 1
    /\ h_slot' = [h_slot EXCEPT ![h_tail] = Host(h)]
    /\ h_tail' = Plus(host_slots, h_tail, 1)
    /\ UNCHANGED <<txring, h_head, bcd_state, file, end, pc, found, flip, left, mark>>

-----------------------------------------------------------------------------
(* The thread polls and moves packets.                                     *)

(* Plausible slips: one of the two always goes first.                      *)
TurnMulticast == IF n_multi > 0 THEN "send" ELSE IF n_host > 0 THEN "move" ELSE "sync"
TurnHost == IF n_host > 0 THEN "move" ELSE IF n_multi > 0 THEN "send" ELSE "sync"

(* Whose turn it is (628-633).                                             *)
Turn ==
    IF n_multi > 0 /\ (flip \/ n_host = 0) THEN "send"
    ELSE IF n_host > 0 THEN "move" ELSE "sync"

(* 602-626: POLLOUT is asked for if there is something for the NIC; only a *)
(* full ring is then looked at anew.                                       *)
Poll ==
    /\ pc = "poll"
    /\ LET asked == n_host > 0 \/ Alive
       IN  /\ IF asked /\ nm_ring_space = 0
              THEN \E d \in 0 .. InNic : Transmit(d)
              ELSE UNCHANGED <<tail, slot>>
           /\ IF asked /\ tail' # head
              THEN pc' = Turn /\ flip' = ~flip
              ELSE pc' = "sync" /\ flip' = flip
    /\ n_host' = 0                          \* not used any more
    /\ UNCHANGED <<head, hostring, bcd_state, file, end, n_multi, left, mark>>

(* A plausible slip: as many as there is room for.                         *)
BatchFull == nm_ring_space

(* How many packets are put into the ring at once (443-453).               *)
Batch == Lesser(n_multi, nm_ring_space)

(* am_move: nothing is done for a multicast that is over.                  *)
AmBegin ==
    /\ pc = "send"
    /\ left' = Batch
    /\ pc' = IF Alive THEN "packet" ELSE "sync"
    /\ UNCHANGED <<txring, hostring, bcd_state, file, end, found, flip, mark>>

(* 454-495: a packet is made up in the slot at head.                       *)
AmPacket ==
    /\ pc = "packet" /\ left > 0
    /\ slot' = [slot EXCEPT ![head] = Data(seq, ReadFrom, PayloadBytes(data_size, seq))]
    /\ fpos' = ReadFrom + DataBytes(data_size, seq)
    /\ seq' = (seq + 1) % seq_max
    /\ head' = Plus(num_slots, head, 1)
    /\ togo' = IF known THEN togo - 1 ELSE togo
    /\ left' = left - 1 /\ n_multi' = n_multi - 1
    /\ UNCHANGED <<tail, hostring, bcd_state, data_size, known, last, pc, n_host, flip, mark>>

(* 502-510: was it the last one?  The marks taken at what might have been  *)
(* the last one (497-501) are never used.                                  *)
AmOver ==
    /\ pc = "packet" /\ left = 0
    /\ pc' = "sync"
    /\ IF Ended /\ ~last THEN MarkLast ELSE UNCHANGED <<last, mark>>
    /\ UNCHANGED <<txring, hostring, bcd_state, file, known, togo, found, flip, left>>

(* How many packets of the host are moved at once (18-31).                 *)
Moved == Lesser(nm_burst, Lesser(pkt_queued, nm_ring_space))

(* A plausible slip: the host's ring is read one slot too far.             *)
SwapNext(m) ==
    /\ slot' = [i \in Slots |->
           LET k == Dist(num_slots, head, i)
           IN  IF k < m THEN h_slot[Plus(host_slots, h_head, (k + 1) % host_slots)] ELSE slot[i]]
    /\ h_slot' = [j \in HSlots |-> IF Dist(host_slots, h_head, j) < m THEN Junk ELSE h_slot[j]]

(* The packets change their place with the buffers they are in (337-353).  *)
Swap(m) ==
    /\ slot' = [i \in Slots |->
           LET k == Dist(num_slots, head, i)
           IN  IF k < m THEN h_slot[Plus(host_slots, h_head, k)] ELSE slot[i]]
    /\ h_slot' = [j \in HSlots |-> IF Dist(host_slots, h_head, j) < m THEN Junk ELSE h_slot[j]]

(* move, and process_rings from the host's ring to the NIC's.              *)
Move ==
    /\ pc = "move"
    /\ Swap(Moved)
    /\ head' = Plus(num_slots, head, Moved)
    /\ h_head' = Plus(host_slots, h_head, Moved)
    /\ pc' = "sync"
    /\ UNCHANGED <<tail, h_tail, bcd_state, file, end, found, flip, left, mark>>

-----------------------------------------------------------------------------
(* The NIC gets what is in the ring; has the last packet left it?          *)

(* ioctl(NIOCTXSYNC), 650.                                                 *)
Sync ==
    /\ pc = "sync" /\ pc' = "check"
    /\ \E d \in 0 .. InNic : Transmit(d)
    /\ UNCHANGED <<head, hostring, bcd_state, file, end, found, flip, left, mark>>

(* Plausible slips: a tail that has not moved is no way at all; once round *)
(* the ring is too far.                                                    *)
PassedStill ==
    Dist(num_slots, am_head, tail) + Dist(num_slots, tail, am_tail) <= num_slots
PassedNever ==
    LET dist_ht == Dist(num_slots, am_head, tail)
        dist_tt == IF am_tail > tail THEN am_tail - tail ELSE am_tail + num_slots - tail
    IN  dist_ht + dist_tt < num_slots

(* 655-657: has tail come by the last packet since am_tail?                *)
Passed ==
    LET dist_ht == Dist(num_slots, am_head, tail)
        dist_tt == IF am_tail > tail THEN am_tail - tail ELSE am_tail + num_slots - tail
    IN  dist_ht + dist_tt <= num_slots

(* 652-667.  That there is an active multicast is ReleaseAssert of         *)
(* PathService.                                                            *)
Check ==
    /\ pc = "check" /\ pc' = "look"
    /\ IF need_release /\ Passed
       THEN /\ bcd_state' = "DEAD" /\ need_release' = FALSE
            /\ am_head' = 0 /\ am_tail' = 0     \* not used any more
       ELSE /\ UNCHANGED <<bcd_state, need_release, am_head>>
            /\ am_tail' = IF need_release THEN tail ELSE am_tail
    /\ UNCHANGED <<txring, hostring, file, end, found, flip, left>>

Netmap == \/ LookIdle \/ LookEnded \/ LookSend \/ Poll
          \/ AmBegin \/ AmPacket \/ AmOver \/ Move \/ Sync \/ Check

-----------------------------------------------------------------------------
(* The other threads.                                                      *)

(* The path is granted to another broadcast, whose MulticastState is as    *)
(* createBcdState left it.                                                 *)
Activate ==
    /\ ~Alive
    /\ bcd_state' = "INITIATED" /\ data_size' \in Sizes /\ seq' = 0 /\ fpos' = 0
    /\ known' = FALSE /\ togo' = 0 /\ last' = FALSE
    /\ UNCHANGED <<txring, hostring, pc, found, flip, left, mark>>

(* The last receiver has reported its first packet: n more are to be sent. *)
EndKnown(n) ==
    /\ Alive /\ bcd_state # "INITIATED" /\ ~known
    /\ known' = TRUE /\ togo' = n
    /\ UNCHANGED <<txring, hostring, bcd_state, file, last, pc, found, flip, left, mark>>

Next == \/ Netmap \/ Activate
        \/ \E h \in HostPkt : HostSends(h)
        \/ \E n \in 0 .. MaxToGo : EndKnown(n)

Spec == Init /\ [][Next]_vars

(* The thread runs, the NIC sends what it has, and the longer nothing has  *)
(* been sent the more the rate limit allows.                               *)
FairSpec ==
    /\ Spec /\ WF_vars(Netmap)
    /\ SF_vars(Sync /\ tail' # tail)
    /\ SF_vars(LookSend /\ n_multi' > n_multi)

-----------------------------------------------------------------------------
(* Properties.                                                             *)

Packet == {Junk} \union {Host(h) : h \in HostPkt}
          \union [kind : {"data"}, seq : Nat, from : Nat, hdr : [fixed : Nat, tot_len : Nat, check : Int]]

TypeOK ==
    /\ head \in Slots /\ tail \in Slots /\ slot \in [Slots -> Packet]
    /\ h_head \in HSlots /\ h_tail \in HSlots /\ h_slot \in [HSlots -> Packet]
    /\ bcd_state \in {"DEAD", "INITIATED", "ATTEMPT", "FULLRATE"}
    /\ data_size \in Sizes /\ seq \in Nat /\ fpos \in Nat
    /\ known \in BOOLEAN /\ togo \in Int /\ last \in BOOLEAN
    /\ pc \in {"look", "poll", "send", "packet", "move", "sync", "check"}
    /\ n_multi \in 0 .. nm_burst /\ n_host \in HSlots /\ flip \in BOOLEAN
    /\ left \in 0 .. nm_burst /\ left <= n_multi
    /\ need_release \in BOOLEAN /\ am_head \in Slots /\ am_tail \in Slots

(* The packets in the NIC, oldest first, and those of the host that wait.  *)
InFlight == [i \in 1 .. InNic |-> slot[Plus(num_slots, tail, i)]]
Pending == [i \in 1 .. pkt_queued |-> h_slot[Plus(host_slots, h_head, i - 1)]]

(* The path is given up only when nothing of the multicast is left in the  *)
(* NIC: two distances between indices (thread_data.c:655-657) tell, no     *)
(* matter what of the host has followed or how far the NIC has got.        *)
DeadHasLeft == ~Alive => \A i \in 1 .. InNic : InFlight[i].kind # "data"

(* Every packet carries the part of the file its number says, however      *)
(* often the file has been read through and whatever its size, and its     *)
(* header a checksum the receivers' check (checksum.c:35) would accept.    *)
OwnBytes ==
    \A i \in 1 .. InNic : LET p == InFlight[i] IN
        p.kind = "data" => p.from = p.seq * Payload /\ validate_ip_checksum(p.hdr) = 0

(* The indices make a queue: TxQueue.                                      *)
Stream(size) ==
    LET n == PacketsOf(size)
    IN  [i \in 1 .. n |-> Data(i - 1, (i - 1) * Payload, PayloadBytes(size, i - 1))]

Queue == INSTANCE TxQueue WITH
    Streams <- {Stream(n) : n \in Sizes}, HostPackets <- {Host(h) : h \in HostPkt},
    queue <- InFlight, pending <- Pending,
    stream <- Stream(data_size), next <- seq + 1, alive <- Alive

QueueSpec == Queue!QSpec

(* A multicast whose end is known gives up the path, whether or not the    *)
(* host goes on sending (the comment at thread_data.c:384).                *)
MulticastEnds == known ~> ~Alive

(* At least it does unless packets of the host went in behind the last one *)
(* of the multicast (see MulticastEnds).                                   *)
QuietEnds == known ~> (~Alive \/ (need_release /\ head # Plus(num_slots, am_head, 1)))

(* A packet of the host gets into the NIC, however long the multicast.     *)
HostServed == \A i \in HSlots : (h_head = i /\ pkt_queued > 0) ~> h_head # i
=============================================================================
