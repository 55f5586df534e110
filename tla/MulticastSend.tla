--------------------------- MODULE MulticastSend ---------------------------
(***************************************************************************)
(* One transfer of one broadcast on the sending agent, after the path has  *)
(* been granted: the netmap thread (thread_data.c) puts the packets of the *)
(* cyclic stream into the NIC ring, the send thread (thread_send.c) reads  *)
(* what the receivers report and decides where the stream may end.  The    *)
(* two share the MulticastState; neither takes a lock, so every read of    *)
(* seq_cur, seq_end or n_first_seq that the other may interfere with is a  *)
(* step of its own.                                                        *)
(*                                                                         *)
(* A position is a packet of the endless stream; position p carries packet *)
(* p % seq_max.  Receivers are external; their side is RecverState.  What a *)
(* receiver has lost is asked for with MSG_PATCH_REQ, see PatchTuples.     *)
(***************************************************************************)
EXTENDS Integers, Sequences, FiniteSets, Skiplist

CONSTANTS
    Recver,         \* the receivers of the push
    Mortal,         \* those that may end before the transfer does
    Sizes,          \* the values seq_max may have, packets in the data
    Burst,          \* nm_burst
    MaxPos,         \* bound: the stream pauses here until its end is known
    FirstFullrate,  \* first_first_seq_fullrate (config)
    SEQNUM_MAX      \* seq_end as long as the end is not known

ASSUME SendAssumption ==
    /\ IsFiniteSet(Recver) /\ Recver # {} /\ Mortal \subseteq Recver
    /\ Sizes \subseteq Nat \ {0} /\ Sizes # {} /\ Burst \in Nat \ {0} /\ MaxPos \in Nat \ {0}
    /\ FirstFullrate \in BOOLEAN
    /\ SEQNUM_MAX \in Nat
    /\ \A n \in Sizes : SEQNUM_MAX > MaxPos + Burst + 3 * n

VARIABLES
    seq_max,        \* packets in the data
    bcd_state,      \* BcdState of the MulticastState
    seq_cur,        \* next position to send
    seq_end,        \* where the stream ends, SEQNUM_MAX while unknown
    seq_end_max,    \* the largest end of a receiver so far
    n_first_seq,    \* MSG_FIRST_SEQs counted
    n_all_done,     \* receivers known to have all the data
    last,           \* is_tv_last_data & 0x10
    nm_pc, nm_left, \* netmap thread: where it is, packets left to move
    st_pc, st_r,    \* send thread: where it is, whose report it handles
    st_more,        \* ... and the outcome of its first read of seq_cur
    seqEnd,         \* SenderState.seqEnd, NoEnd before it is known
    pq,             \* sender_end_seq_pq_p
    arr,            \* sender_end_seq_arr_p from idx_start to idx_end
    has_all_done,   \* SenderState.has_all_done
    fast_done,      \* MSG_FAST_DONE sent to the receiver
    all_sent,       \* MSG_C_SEND2I_SEQ_ALLs written to the service thread
    up,             \* TCP, each receiver to this agent
    first,          \* external: position of the first packet each received
    dead            \* external: receivers that have ended

stream == <<seq_max, bcd_state, seq_cur, last, nm_pc, nm_left>>
ends == <<seq_end, seq_end_max, seqEnd, pq, arr>>
counts == <<n_first_seq, n_all_done, has_all_done, all_sent>>
st == <<st_pc, st_r, st_more>>
net == <<up, first, fast_done, dead>>
vars == <<stream, ends, counts, st, net>>

NoEnd == -1
NInit == Cardinality(Recver)
AllFirst == n_first_seq = NInit

(* A push has been accepted (multicastState_reset) and granted.            *)
Init ==
    /\ seq_max \in Sizes
    /\ bcd_state = "INITIATED" /\ seq_cur = 0 /\ last = FALSE
    /\ nm_pc = "queued" /\ nm_left = 0
    /\ seq_end = SEQNUM_MAX /\ seq_end_max = 0
    /\ seqEnd = [r \in Recver |-> NoEnd] /\ pq = <<>> /\ arr = <<>>
    /\ n_first_seq = 0 /\ n_all_done = 0 /\ all_sent = 0
    /\ has_all_done = [r \in Recver |-> FALSE]
    /\ st_pc = "idle" /\ st_r \in Recver /\ st_more = FALSE
    /\ up = [r \in Recver |-> <<>>] /\ first = [r \in Recver |-> NoEnd]
    /\ fast_done = [r \in Recver |-> FALSE] /\ dead = {}

-----------------------------------------------------------------------------
(* The netmap thread: one pass of am_n_pkt_queued and am_process_rings.    *)

(* 371-382: the upgrades of the rate.  With FirstFullrate one report may   *)
(* do, if it comes from the right rack.                                    *)
NmUpgrade ==
    /\ nm_pc = "queued" /\ bcd_state # "DEAD"
    /\ nm_pc' = "ended"
    /\ LET s == IF bcd_state = "INITIATED" THEN "ATTEMPT" ELSE bcd_state
       IN  bcd_state' \in IF AllFirst THEN {"FULLRATE"}
                          ELSE IF FirstFullrate /\ n_first_seq > 0 THEN {s, "FULLRATE"}
                          ELSE {s}
    /\ UNCHANGED <<seq_max, seq_cur, last, nm_left, ends, counts, st, net>>

(* 384-395: the end has been reached, now or before.                       *)
NmEnded ==
    /\ nm_pc = "ended"
    /\ LET end == bcd_state = "FULLRATE" /\ seq_cur >= seq_end /\ AllFirst
       IN  /\ last' = (last \/ end)
           /\ nm_pc' = IF last' THEN "check" ELSE "limit"
    /\ UNCHANGED <<seq_max, bcd_state, seq_cur, nm_left, ends, counts, st, net>>

(* 397-416: what the rate limit allows, but not beyond a known end.  Up to *)
(* a burst is sent, if the ring has room (629, 452-455).                   *)
NmLimit ==
    /\ nm_pc = "limit"
    /\ \E n \in 0 .. Burst :
        LET m == IF seq_end # SEQNUM_MAX /\ seq_end - seq_cur < n THEN seq_end - seq_cur ELSE n
        IN  /\ seq_end = SEQNUM_MAX => seq_cur + n <= MaxPos
            /\ nm_left' = m
            /\ nm_pc' = IF m = 0 THEN "check" ELSE "move"
    /\ UNCHANGED <<seq_max, bcd_state, seq_cur, last, ends, counts, st, net>>

(* A plausible slip: one packet more than was counted.                     *)
NmPacketOneMore ==
    /\ nm_pc = "move" /\ nm_left >= 0
    /\ seq_cur' = seq_cur + 1 /\ nm_left' = nm_left - 1
    /\ UNCHANGED <<seq_max, bcd_state, last, nm_pc, ends, counts, st, net>>

(* 458-493: one packet enters the ring.                                    *)
NmPacket ==
    /\ nm_pc = "move" /\ nm_left > 0
    /\ seq_cur' = seq_cur + 1 /\ nm_left' = nm_left - 1
    /\ UNCHANGED <<seq_max, bcd_state, last, nm_pc, ends, counts, st, net>>

(* 500-509: was the last packet among them?                                *)
NmMark ==
    /\ nm_pc = "move" /\ nm_left <= 0
    /\ last' = (last \/ (seq_cur >= seq_end /\ AllFirst))
    /\ nm_pc' = "check" /\ nm_left' = 0
    /\ UNCHANGED <<seq_max, bcd_state, seq_cur, ends, counts, st, net>>

(* 652-667: the NIC has sent the last packet, or there is none yet or it   *)
(* has not left the ring.                                                  *)
NmDead ==
    /\ nm_pc = "check" /\ last
    /\ bcd_state' = "DEAD" /\ nm_pc' = "queued"
    /\ UNCHANGED <<seq_max, seq_cur, last, nm_left, ends, counts, st, net>>

NmAgain ==
    /\ nm_pc = "check"
    /\ nm_pc' = "queued"
    /\ UNCHANGED <<seq_max, bcd_state, seq_cur, last, nm_left, ends, counts, st, net>>

Netmap == NmUpgrade \/ NmEnded \/ NmLimit \/ NmPacket \/ NmMark \/ NmDead \/ NmAgain

-----------------------------------------------------------------------------
(* The send thread.                                                        *)

FromRecver(r, type) == st_pc = "idle" /\ up[r] # <<>> /\ Head(up[r]).type = type
Received(r) == up' = [up EXCEPT ![r] = Tail(@)]

(* MSG_FIRST_SEQ (286-332): the report is counted; data of one packet is   *)
(* complete with it.                                                       *)
StFirst(r) ==
    /\ FromRecver(r, "FIRST")
    /\ n_first_seq' = n_first_seq + 1
    /\ IF seq_max = 1
       THEN /\ n_all_done' = n_all_done + 1
            /\ all_sent' = IF n_all_done + 1 = NInit THEN all_sent + 1 ELSE all_sent
       ELSE UNCHANGED <<n_all_done, all_sent>>
    /\ st_pc' = "compare" /\ st_r' = r
    /\ UNCHANGED <<stream, ends, has_all_done, st_more, net>>

(* multicastState_updateSeqEnd reads seq_cur to see whether the packet is  *)
(* still to come in this round (1000) ...                                  *)
StCompare ==
    /\ st_pc = "compare"
    /\ st_more' = (Head(up[st_r]).seq < seq_cur % seq_max)
    /\ st_pc' = "round"
    /\ UNCHANGED <<stream, ends, counts, st_r, net>>

(* A plausible slip: the end is always in the round being sent.            *)
StRoundSame ==
    /\ st_pc = "round"
    /\ seqEnd' = [seqEnd EXCEPT ![st_r] = (seq_cur \div seq_max) * seq_max + Head(up[st_r]).seq]
    /\ pq' \in Inserted(pq, st_r)
    /\ st_pc' = "end"
    /\ UNCHANGED <<stream, seq_end, seq_end_max, arr, counts, st_r, st_more, net>>

(* ... and again for the number of the round (1001-1007); the receiver is  *)
(* queued for its MSG_FAST_DONE (1009-1013).                               *)
StRound ==
    /\ st_pc = "round"
    /\ LET round == seq_cur \div seq_max + IF st_more THEN 1 ELSE 0
       IN  seqEnd' = [seqEnd EXCEPT ![st_r] = round * seq_max + Head(up[st_r]).seq]
    /\ pq' \in Inserted(pq, st_r)
    /\ st_pc' = "end"
    /\ UNCHANGED <<stream, seq_end, seq_end_max, arr, counts, st_r, st_more, net>>

(* A plausible slip: the end is taken before its maximum is updated.       *)
StEndStale ==
    /\ st_pc = "end"
    /\ seq_end_max' = IF seqEnd[st_r] > seq_end_max THEN seqEnd[st_r] ELSE seq_end_max
    /\ seq_end' = IF AllFirst THEN seq_end_max ELSE seq_end
    /\ st_pc' = "idle"
    /\ Received(st_r)
    /\ UNCHANGED <<stream, seqEnd, pq, arr, counts, st_r, st_more, first, fast_done, dead>>

(* 1016-1027: with the last report the end of the stream is known.         *)
StEnd ==
    /\ st_pc = "end"
    /\ seq_end_max' = IF seqEnd[st_r] > seq_end_max THEN seqEnd[st_r] ELSE seq_end_max
    /\ seq_end' = IF AllFirst THEN seq_end_max' ELSE seq_end
    /\ st_pc' = "idle"
    /\ Received(st_r)
    /\ UNCHANGED <<stream, seqEnd, pq, arr, counts, st_r, st_more, first, fast_done, dead>>

(* The same slip in the other handler.                                     *)
StAllDoneEarly(r) ==
    /\ FromRecver(r, "ALL")
    /\ n_all_done' = n_all_done + 1
    /\ has_all_done' = [has_all_done EXCEPT ![r] = TRUE]
    /\ all_sent' = IF n_all_done' + 1 = NInit THEN all_sent + 1 ELSE all_sent
    /\ Received(r)
    /\ UNCHANGED <<stream, ends, n_first_seq, st, first, fast_done, dead>>

(* MSG_ALL_DONE (338-372).                                                 *)
StAllDone(r) ==
    /\ FromRecver(r, "ALL")
    /\ n_all_done' = n_all_done + 1
    /\ has_all_done' = [has_all_done EXCEPT ![r] = TRUE]
    /\ all_sent' = IF n_all_done + 1 = NInit THEN all_sent + 1 ELSE all_sent
    /\ Received(r)
    /\ UNCHANGED <<stream, ends, n_first_seq, st, first, fast_done, dead>>

(* A plausible slip: the end must have been passed, not reached.           *)
StPopPassed ==
    /\ st_pc = "idle" /\ pq # <<>> /\ seq_cur > seqEnd[Head(pq)]
    /\ arr' = Append(arr, Head(pq)) /\ pq' = Tail(pq)
    /\ UNCHANGED <<stream, seq_end, seq_end_max, seqEnd, counts, st, net>>

(* 98-112: a receiver whose end has been sent leaves the queue; an end not *)
(* yet reached at its head keeps those behind it waiting.                  *)
StPop ==
    /\ st_pc = "idle" /\ pq # <<>> /\ seq_cur >= seqEnd[Head(pq)]
    /\ arr' = Append(arr, Head(pq)) /\ pq' = Tail(pq)
    /\ UNCHANGED <<stream, seq_end, seq_end_max, seqEnd, counts, st, net>>

(* 113-131: once the multicast is dead and a second has passed, it is told *)
(* so unless it is known to be done.                                       *)
StFastDone ==
    /\ st_pc = "idle" /\ bcd_state = "DEAD" /\ arr # <<>>
    /\ fast_done' = [fast_done EXCEPT ![Head(arr)] = ~has_all_done[Head(arr)]]
    /\ arr' = Tail(arr)
    /\ UNCHANGED <<stream, seq_end, seq_end_max, seqEnd, pq, counts, st, up, first, dead>>

Send == \/ \E r \in Recver : StFirst(r) \/ StAllDone(r)
        \/ StCompare \/ StRound \/ StEnd \/ StPop \/ StFastDone

-----------------------------------------------------------------------------
(* The receivers.  Any packet sent may be the first to arrive.             *)
RecverFirst(r) ==
    /\ first[r] = NoEnd /\ r \notin dead
    /\ \E p \in 0 .. (seq_cur - 1) :
          /\ first' = [first EXCEPT ![r] = p]
          /\ up' = [up EXCEPT ![r] = Append(@, [type |-> "FIRST", seq |-> p % seq_max])]
    /\ UNCHANGED <<stream, ends, counts, st, fast_done, dead>>

RecverReported(r) == has_all_done[r] \/ \E i \in 1 .. Len(up[r]) : up[r][i].type = "ALL"

(* A receiver of more than one packet is complete when the stream has come *)
(* round or MSG_FAST_DONE told it what it misses.                          *)
RecverAll(r) ==
    /\ seq_max > 1 /\ first[r] # NoEnd /\ ~RecverReported(r) /\ r \notin dead
    /\ seq_cur >= first[r] + seq_max \/ fast_done[r]
    /\ up' = [up EXCEPT ![r] = Append(@, [type |-> "ALL"])]
    /\ UNCHANGED <<stream, ends, counts, st, first, fast_done, dead>>

(* One ends: what it reported last may be lost.  Its connection is closed  *)
(* and leaves ssockList (thread_send.c:443-458), its SenderState stays.    *)
RecverDies(r) ==
    /\ r \in Mortal \ dead /\ dead' = dead \union {r}
    /\ \E k \in 0 .. Len(up[r]) :
          /\ st_pc # "idle" /\ st_r = r => k > 0
          /\ up' = [up EXCEPT ![r] = SubSeq(@, 1, k)]
    /\ UNCHANGED <<stream, ends, counts, st, first, fast_done>>

(* Everything has been sent, reported and acknowledged.                    *)
Over ==
    /\ bcd_state = "DEAD" /\ pq = <<>> /\ arr = <<>> /\ st_pc = "idle"
    /\ \A r \in Recver : up[r] = <<>> /\ (seq_max > 1 => r \in dead \/ has_all_done[r])

Stop == Over /\ UNCHANGED vars

Next == Netmap \/ Send \/ Stop \/ \E r \in Recver : RecverFirst(r) \/ RecverAll(r) \/ RecverDies(r)

Spec == Init /\ [][Next]_vars

(* The threads run, some packet reaches every receiver of a stream that    *)
(* goes on, the rate limit lets packets out, the NIC empties its ring.  A  *)
(* receiver completes its data only if it is told what it has missed.      *)
FairSpec ==
    /\ Spec
    /\ WF_vars(Netmap) /\ WF_vars(Send)
    /\ SF_vars(NmLimit /\ nm_left' > 0) /\ SF_vars(NmDead)
    /\ \A r \in Recver : WF_vars(RecverFirst(r)) /\ WF_vars(fast_done[r] /\ RecverAll(r))

-----------------------------------------------------------------------------
(* Properties.                                                             *)

TypeOK ==
    /\ bcd_state \in {"DEAD", "INITIATED", "ATTEMPT", "FULLRATE"}
    /\ seq_max \in Sizes /\ seq_cur \in Nat /\ seq_end \in Nat /\ seq_end_max \in Nat
    /\ n_first_seq \in 0 .. NInit /\ n_all_done \in 0 .. NInit
    /\ last \in BOOLEAN /\ st_more \in BOOLEAN /\ all_sent \in Nat
    /\ nm_pc \in {"queued", "ended", "limit", "move", "check"}
    /\ nm_left \in Int /\ nm_left <= Burst /\ (nm_left < 0 => seq_end # SEQNUM_MAX)
    /\ st_pc \in {"idle", "compare", "round", "end"} /\ st_r \in Recver
    /\ seqEnd \in [Recver -> Nat \union {NoEnd}] /\ first \in [Recver -> Nat \union {NoEnd}]
    /\ pq \in Seq(Recver) /\ arr \in Seq(Recver)
    /\ has_all_done \in [Recver -> BOOLEAN] /\ fast_done \in [Recver -> BOOLEAN]
    /\ dead \subseteq Mortal

(* However stale the reads of seq_cur were, the end computed for a         *)
(* receiver (hero.c:1000-1007) gives it a whole round from the first       *)
(* packet it got.                                                          *)
WholeRound ==
    \A r \in Recver : seqEnd[r] # NoEnd =>
        seqEnd[r] >= first[r] + seq_max /\ (seqEnd[r] - first[r]) % seq_max = 0

(* The stream ends, and a receiver is told that it has, only when every    *)
(* receiver's end has been sent: counting a report (thread_send.c:331)     *)
(* before its end is known cannot cut anyone short.                        *)
NobodyCutShort ==
    last \/ (\E r \in Recver : fast_done[r]) =>
        \A r \in Recver : seqEnd[r] # NoEnd /\ seqEnd[r] <= seq_cur

(* The receivers that have been given all the data.                        *)
Complete(r) ==
    /\ first[r] # NoEnd
    /\ seq_max = 1 \/ seq_cur >= first[r] + seq_max \/ fast_done[r]

(* The client of the sender is told once that everybody has the data, and  *)
(* only when everybody does (thread_send.c:309-318, 357-366).              *)
AllSentIsTrue ==
    all_sent > 0 => all_sent = 1 /\ \A r \in Recver : Complete(r)

(* The multicast ends, every receiver that needs it gets MSG_FAST_DONE and *)
(* everybody who still can reports completion: a receiver that ends after  *)
(* its first report holds nobody up.  One that ends before it does, since  *)
(* the multicast goes on until all have reported (thread_send.c:443).      *)
Silent(r) == r \in dead /\ seqEnd[r] = NoEnd /\ up[r] = <<>>
TransferEnds == <>(Over \/ \E r \in Recver : Silent(r))
=============================================================================
