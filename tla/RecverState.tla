---------------------------- MODULE RecverState ----------------------------
(***************************************************************************)
(* One receiving agent and one broadcast: the RecverState of hero.h and    *)
(* the two threads that write it without a mutex.                          *)
(*                                                                         *)
(*   netmap thread    process_rings (thread_data.c): accepts packets of    *)
(*                    the cyclic multicast stream, writes them to the file *)
(*                    at the position of fd_p, and reports through the n2c *)
(*                    pipe                                                 *)
(*   recv thread      thread_recv.c: turns the reports into messages to    *)
(*                    the sender, writes the patches the sender returns,   *)
(*                    closes the fast path on MSG_FAST_DONE                *)
(*                                                                         *)
(* A step of a thread is what it does between two points at which the      *)
(* other can tell the difference: taking the lock, accepting a packet,     *)
(* the last-packet check, reporting and unlocking; storing a patch and     *)
(* counting it, the all-received check, the two waits for the lock.        *)
(*                                                                         *)
(* The environment is the sender and the two networks: packets may be      *)
(* lost but are not reordered (one switch path), the control connection    *)
(* is TCP.  File contents are abstracted to the offset each packet was     *)
(* written at.                                                             *)
(***************************************************************************)
EXTENDS Integers, Sequences, FiniteSets, PatchTuples

CONSTANTS
    Payload,      \* byte_payload, bytes in every packet but the last
    Sizes,        \* the data sizes a broadcast may have
    Rounds,       \* bound: whole rounds of the data the stream may run for
    NicRing,      \* bound: packets waiting in the NIC ring of this node
    Word,         \* 2^32: the width of the code's unsigned and int values
    StoreDelay    \* may the netmap thread's store to the lock become visible
                  \* after its load of is_fastpath?  (neither is atomic)

ASSUME RecverAssumption ==
    /\ Payload \in Nat \ {0}
    /\ Sizes \subseteq Nat \ {0}
    /\ Rounds \in Nat \ {0}
    /\ NicRing \in Nat \ {0}
    /\ Word \in Nat \ {0}
    /\ StoreDelay \in BOOLEAN
    /\ SEQNUM_MAX \in Nat
    /\ \A z \in Sizes : z < SEQNUM_MAX

(* A value assigned to an int, which is signed.                            *)
Int32(x) == LET w == x % Word IN IF 2 * w < Word THEN w ELSE w - Word

VARIABLES
    dataSize,     \* size of the file the master broadcasts
    recv,         \* the RecverState (hero.h)
    nm,           \* the netmap thread: pc and the locals of process_rings
    rc,           \* pc of the recv thread
    nic,          \* packets in the NIC ring
    n2c,          \* the n2c pipe
    c2i,          \* what was written to the c2i pipe
    up,           \* TCP, this node to the sender
    patches,      \* PATCH_DATA packets under way to this node, in order
    snd,          \* the sender: position, seqEnd, FAST_DONE, has_all_done
    requested,    \* history: the packets this node has asked for
    crash         \* why the process ended, "no" while it runs

vars == <<dataSize, recv, nm, rc, nic, n2c, c2i, up, patches, snd, requested, crash>>

NoSeq == -1
Unwritten == -1

(* seq_max, the number of packets, and the bytes in packet s.              *)
NSeq == (dataSize + Payload - 1) \div Payload
PayloadMin == IF dataSize % Payload = 0 THEN Payload ELSE dataSize % Payload
PktLen(s) == IF s = NSeq - 1 THEN PayloadMin ELSE Payload
SeqNums == 0 .. (NSeq - 1)

-----------------------------------------------------------------------------
(* Functions of hero.c on a RecverState r.                                 *)

(* createRecverState: nothing received, files at their beginning.          *)
NewRecver ==
    [lock |-> FALSE, is_fastpath |-> FALSE, is_finished |-> FALSE,
     is_seq_fst |-> FALSE, seq_fst |-> 0, seq_lst |-> 0, seq_tail |-> 0,
     is_seq_zero |-> FALSE, seq_max |-> 0, tail_len |-> 0,
     start |-> -1, jump |-> -1, tell |-> 0, num_fast |-> 0, num_slow |-> 0,
     file |-> [s \in SeqNums |-> Unwritten], buf |-> [s \in SeqNums |-> Unwritten]]

(* A plausible slip: the count compared with the last sequence number.     *)
HasGottenAllDataOffByOne(r) == r.num_fast + r.num_slow >= r.seq_max - 1

(* recverState_hasGottenAllData                                            *)
HasGottenAllData(r) == r.num_fast + r.num_slow = r.seq_max

(* recverState_updateBcdMetadata.  The guard is the early return on a      *)
(* second zero packet; the buffer exists once the stream has wrapped.  Its *)
(* length is an int, and a negative one means no buffer; the product that  *)
(* gives the start is unsigned.                                            *)
UpdateBcdMetadata(r) ==
    LET len   == Int32((NSeq - r.seq_tail - 2) * Payload + PayloadMin)
        tail  == IF r.seq_tail > 0 /\ len > 0 THEN len ELSE 0
        begin == (dataSize - ((Payload * r.seq_fst) % Word) - tail) % dataSize
    IN  IF r.is_seq_zero THEN r
        ELSE [r EXCEPT !.seq_max = NSeq, !.tail_len = tail,
                       !.start = IF r.start < 0 THEN begin ELSE r.start,
                       !.jump = dataSize - tail, !.is_seq_zero = TRUE]

(* getFilePosition                                                         *)
GetFilePosition(r, s) ==
    IF s < r.seq_fst THEN r.start + s * Payload
    ELSE IF r.seq_tail > 0 /\ s > r.seq_tail THEN s * Payload
    ELSE (s - r.seq_fst) * Payload

(* The end of the file on disk: extendFile only moves the position.        *)
FileEnd(r) ==
    LET ends == {r.file[s] + PktLen(s) : s \in {t \in SeqNums : r.file[t] # Unwritten}}
    IN  IF ends = {} THEN 0 ELSE CHOOSE e \in ends : \A f \in ends : f <= e

(* A plausible slip: the jump position keeps the value of its last setter. *)
FinishRecvStaleJump(r) ==
    LET end == FileEnd(r)
    IN  [r EXCEPT !.is_finished = TRUE,
                  !.file = [s \in SeqNums |-> IF r.tail_len > 0 /\ r.buf[s] # Unwritten
                                              THEN end + r.buf[s] ELSE r.file[s]]]

(* recverState_finishRecv: the tail buffer goes behind the end of the file *)
FinishRecv(r) ==
    LET end == FileEnd(r)
    IN  [r EXCEPT !.jump = end, !.is_finished = TRUE,
                  !.file = [s \in SeqNums |-> IF r.tail_len > 0 /\ r.buf[s] # Unwritten
                                              THEN end + r.buf[s] ELSE r.file[s]]]
-----------------------------------------------------------------------------
(* The decision process_rings takes on packet s.  r is the RecverState     *)
(* after the first-packet block (148-154).                                 *)

GotFirst(r, s) ==
    IF r.is_seq_fst THEN r
    ELSE [r EXCEPT !.is_seq_fst = TRUE, !.seq_fst = s,
                   !.seq_lst = IF s = 0 THEN SEQNUM_MAX ELSE s - 1]

(* m is r after the metadata of a zero packet has been applied to it.      *)
Branch(r, m, s) ==
    CASE s # 0 /\ s - r.seq_lst = 1                                 -> "next"
      [] s = 0 /\ ~r.is_seq_zero
               /\ r.seq_lst \in {m.seq_max - 1, SEQNUM_MAX}         -> "zero"
      [] s = 0 /\ ~r.is_seq_zero
               /\ r.seq_lst # m.seq_max - 1 /\ r.seq_lst # SEQNUM_MAX
               /\ r.seq_lst > r.seq_fst /\ r.seq_fst # 0            -> "zero_loss"
      [] s # 0 /\ s > r.seq_lst + 1
               /\ \/ r.seq_fst > r.seq_lst /\ r.seq_fst > s
                  \/ r.seq_lst >= r.seq_fst                         -> "forward"
      [] s # 0 /\ s <= r.seq_lst
               /\ s < r.seq_fst /\ r.seq_fst < r.seq_lst            -> "wrap"
      [] OTHER                                                      -> "error"

(* A plausible slip: the gap before a zero packet one full packet longer.  *)
GapTooLong(r, b, s) ==
    CASE b = "zero_loss" -> (NSeq - r.seq_lst - 1) * Payload + PayloadMin
      [] b = "forward"   -> (s - r.seq_lst - 1) * Payload
      [] b = "wrap"      -> s * Payload
      [] OTHER           -> 0

(* Bytes the file position is moved over before the packet is written.     *)
Gap(r, b, s) ==
    CASE b = "zero_loss" -> (NSeq - r.seq_lst - 2) * Payload + PayloadMin
      [] b = "forward"   -> (s - r.seq_lst - 1) * Payload
      [] b = "wrap"      -> s * Payload
      [] OTHER           -> 0

(* A plausible slip: the end of the tuple taken for inclusive.             *)
JumpTooShort(r, b, s) ==
    CASE b = "zero_loss"            -> <<r.seq_lst + 1, NSeq - 1>>
      [] b \in {"forward", "wrap"}  -> <<r.seq_lst + 1, s>>
      [] OTHER                      -> <<>>

(* The loss reported for the packet: the tuple of MSG_N2C_SEQ_JUMP.        *)
Jump(r, b, s) ==
    CASE b = "zero_loss"            -> <<r.seq_lst + 1, NSeq>>
      [] b \in {"forward", "wrap"}  -> <<r.seq_lst + 1, s>>
      [] OTHER                      -> <<>>

(* seq_tail and fileMetadata.start are set when the stream wraps and the   *)
(* zero packet is among the lost ones.                                     *)
Wrapped(r, b) ==
    IF b = "wrap" THEN [r EXCEPT !.seq_tail = r.seq_lst, !.start = r.tell] ELSE r

(* A plausible slip: a refused packet is counted.                          *)
AcceptedCountsRefused(r, b, s) ==
    LET o == r.tell + Gap(r, b, s)
    IN  IF b = "error" THEN [r EXCEPT !.num_fast = @ + 1]
        ELSE [Wrapped(r, b) EXCEPT !.file[s] = o, !.tell = o + PktLen(s),
                                   !.num_fast = @ + 1, !.seq_lst = s]

Accepted(r, b, s) ==
    LET o == r.tell + Gap(r, b, s)
    IN  IF b = "error" THEN r
        ELSE [Wrapped(r, b) EXCEPT !.file[s] = o, !.tell = o + PktLen(s),
                                   !.num_fast = @ + 1, !.seq_lst = s]

(* The packets of the request <<stt, end>> once the sender has resolved it *)
SeqsOf(stt, end, seqEnd) ==
    LET q == PatchSeqs(stt, end, seqEnd, NSeq) IN {q[i] : i \in 1 .. Len(q)}

IsLast(r, s) == \/ r.seq_fst # 0 /\ s + 1 = r.seq_fst
                \/ r.seq_fst = 0 /\ s + 1 = r.seq_max
-----------------------------------------------------------------------------
NmIdle == [pc |-> "idle", seq |-> NoSeq, first |-> FALSE,
           zero |-> FALSE, all |-> FALSE, jump |-> <<>>]

Init ==
    /\ dataSize \in Sizes
    /\ recv = NewRecver
    /\ nm = NmIdle
    /\ rc = "idle"
    /\ n2c = <<>> /\ c2i = <<>> /\ up = <<>> /\ patches = <<>>
    /\ \E p \in SeqNums :
          /\ nic = <<p>>
          /\ snd = [seq_cur |-> p + 1, seqEnd |-> NoSeq, fast_done |-> "no", all_done |-> 0]
    /\ requested = {}
    /\ crash = "no"

Running == crash = "no"

-----------------------------------------------------------------------------
(* The sender and the networks.                                            *)

(* am_process_rings puts the next packet on the wire: it is lost, or       *)
(* reaches the NIC ring unless that is full.  The stream runs at least to  *)
(* the receiver's seqEnd; other receivers may keep it running longer, up   *)
(* to the bound.  Packets lost before the first one received are left out: *)
(* Init starts with that one in the NIC ring.                              *)
Transmit ==
    /\ Running /\ snd.fast_done = "no"
    /\ (snd.seq_cur < Rounds * NSeq \/ snd.seq_cur < snd.seqEnd)
    /\ \/ Len(nic) < NicRing /\ nic' = Append(nic, snd.seq_cur % NSeq)
       \/ nic' = nic
    /\ snd' = [snd EXCEPT !.seq_cur = @ + 1]
    /\ UNCHANGED <<dataSize, recv, nm, rc, n2c, c2i, up, patches, requested, crash>>

(* MSG_FIRST_SEQ: multicastState_updateSeqEnd takes the next position not  *)
(* below seq_cur that carries the receiver's first packet.                 *)
SenderFirstSeq ==
    /\ Running /\ up # <<>> /\ Head(up).type = "FIRST_SEQ"
    /\ LET f == Head(up).seq
           cur == snd.seq_cur
           round == IF f >= cur % NSeq THEN cur \div NSeq ELSE cur \div NSeq + 1
       IN  snd' = [snd EXCEPT !.seqEnd = round * NSeq + f,
                              !.all_done = IF NSeq = 1 THEN @ + 1 ELSE @]
    /\ up' = Tail(up)
    /\ UNCHANGED <<dataSize, recv, nm, rc, nic, n2c, c2i, patches, requested, crash>>

SenderPatchReq ==
    /\ Running /\ up # <<>> /\ Head(up).type = "PATCH_REQ"
    /\ patches' = patches \o PatchSeqs(Head(up).stt, Head(up).end, snd.seqEnd, NSeq)
    /\ up' = Tail(up)
    /\ UNCHANGED <<dataSize, recv, nm, rc, nic, n2c, c2i, snd, requested, crash>>

SenderAllDone ==
    /\ Running /\ up # <<>> /\ Head(up).type = "ALL_DONE"
    /\ snd' = [snd EXCEPT !.all_done = @ + 1]
    /\ up' = Tail(up)
    /\ UNCHANGED <<dataSize, recv, nm, rc, nic, n2c, c2i, patches, requested, crash>>

(* thread_send.c 98-131: MSG_FAST_DONE to a receiver whose seqEnd has been *)
(* transmitted, unless its has_all_done is set (never for one packet).     *)
SenderFastDone ==
    /\ Running /\ snd.fast_done = "no"
    /\ snd.seqEnd # NoSeq /\ snd.seq_cur >= snd.seqEnd
    /\ (NSeq = 1 \/ snd.all_done = 0)
    /\ snd' = [snd EXCEPT !.fast_done = "sent"]
    /\ UNCHANGED <<dataSize, recv, nm, rc, nic, n2c, c2i, up, patches, requested, crash>>

Sender == Transmit \/ SenderFirstSeq \/ SenderPatchReq \/ SenderAllDone \/ SenderFastDone

-----------------------------------------------------------------------------
(* The netmap thread.                                                      *)

(* A packet is taken from the ring and the lock set (137).  The first one  *)
(* creates the RecverState and opens the fast path (94-133).  With         *)
(* StoreDelay the lock is not seen set before is_fastpath has been read.   *)
NetmapTake ==
    /\ Running /\ nm.pc = "idle" /\ nic # <<>>
    /\ nm' = [NmIdle EXCEPT !.pc = "test", !.seq = Head(nic)]
    /\ recv' = [recv EXCEPT !.lock = ~StoreDelay, !.is_fastpath = @ \/ ~recv.is_seq_fst]
    /\ nic' = Tail(nic)
    /\ UNCHANGED <<dataSize, rc, n2c, c2i, up, patches, snd, requested, crash>>

(* With is_fastpath off the packet is dropped (138, 329-331).              *)
NetmapTest ==
    /\ Running /\ nm.pc = "test"
    /\ nm' = IF recv.is_fastpath THEN [nm EXCEPT !.pc = "accept"] ELSE NmIdle
    /\ recv' = IF recv.is_fastpath THEN recv ELSE [recv EXCEPT !.lock = FALSE]
    /\ UNCHANGED <<dataSize, rc, nic, n2c, c2i, up, patches, snd, requested, crash>>

(* The two assertions of the wrap branch (234-235).                        *)
WrapAssert(r) ==
    IF r.seq_tail # 0 THEN "seq_tail" ELSE IF r.start # -1 THEN "start" ELSE "no"

(* The packet is written, skipped over to, or refused (148-280).           *)
NetmapAccept ==
    /\ Running /\ nm.pc = "accept"
    /\ LET s == nm.seq
           r == GotFirst(recv, s)
           m == IF s = 0 THEN UpdateBcdMetadata(r) ELSE r
           b == Branch(r, m, s)
           j == Jump(r, b, s)
       IN  IF b = "wrap" /\ WrapAssert(r) # "no"
           THEN /\ crash' = WrapAssert(r)
                /\ UNCHANGED <<recv, nm, requested>>
           ELSE /\ recv' = [Accepted(m, b, s) EXCEPT !.lock = TRUE]
                /\ nm' = [nm EXCEPT !.pc = "last", !.first = ~recv.is_seq_fst,
                                   !.zero = b \in {"zero", "zero_loss"}, !.jump = j]
                /\ requested' = requested \union
                       (IF j = <<>> THEN {} ELSE SeqsOf(j[1], j[2], r.seq_fst))
                /\ crash' = crash
    /\ UNCHANGED <<dataSize, rc, nic, n2c, c2i, up, patches, snd>>

(* The last packet of the round (282-290), whether or not it was accepted: *)
(* the fast path ends and the position is recorded -- ftell of a file the  *)
(* recv thread has closed kills the process.                               *)
NetmapLast ==
    /\ Running /\ nm.pc = "last"
    /\ LET last == IsLast(recv, nm.seq)
           all  == last /\ HasGottenAllData(recv)
       IN  IF last /\ recv.is_finished
           THEN crash' = "finished" /\ UNCHANGED <<recv, nm>>
           ELSE /\ recv' = IF last
                           THEN [recv EXCEPT !.is_fastpath = FALSE, !.jump = recv.tell]
                           ELSE recv
                /\ nm' = [nm EXCEPT !.pc = IF all THEN "finish" ELSE "notify", !.all = all]
                /\ crash' = crash
    /\ UNCHANGED <<dataSize, rc, nic, n2c, c2i, up, patches, snd, requested>>

(* recverState_finishRecv by a thread that found the data complete.  When  *)
(* the other one got there in between, the two calls overlap on the same   *)
(* FILEs and the same buffer: undefined, the process dies or goes on.      *)
Finish ==
    IF ~recv.is_finished
    THEN recv' = FinishRecv(recv) /\ crash' = crash
    ELSE recv' = recv /\ crash' \in {"no", "finished"}

NetmapFinish ==
    /\ Running /\ nm.pc = "finish"
    /\ Finish
    /\ nm' = [nm EXCEPT !.pc = "notify"]
    /\ UNCHANGED <<dataSize, rc, nic, n2c, c2i, up, patches, snd, requested>>

(* One write to the n2c pipe carries all reports of the packet, in this    *)
(* order (296-328); then the lock is released (331).                       *)
Reports ==
    (IF nm.first THEN <<[type |-> "FIRST", seq |-> nm.seq]>> ELSE <<>>)
    \o (IF nm.zero /\ recv.seq_max > 1 THEN <<[type |-> "ZERO"]>> ELSE <<>>)
    \o (IF nm.all /\ recv.seq_max > 1 THEN <<[type |-> "ALL"]>> ELSE <<>>)
    \o (IF nm.jump # <<>>
        THEN <<[type |-> "JUMP", stt |-> nm.jump[1], end |-> nm.jump[2]]>> ELSE <<>>)

NetmapNotify ==
    /\ Running /\ nm.pc = "notify"
    /\ n2c' = n2c \o Reports
    /\ nm' = NmIdle
    /\ recv' = [recv EXCEPT !.lock = FALSE]
    /\ UNCHANGED <<dataSize, rc, nic, c2i, up, patches, snd, requested, crash>>

Netmap == \/ NetmapTake \/ NetmapTest \/ NetmapAccept
          \/ NetmapLast \/ NetmapFinish \/ NetmapNotify

-----------------------------------------------------------------------------
(* The recv thread.                                                        *)

FromPipe(type) == Running /\ rc = "idle" /\ n2c # <<>> /\ Head(n2c).type = type

(* MSG_N2C_SEQ_FIRST (267-286).                                            *)
RecvFirst ==
    /\ FromPipe("FIRST")
    /\ up' = Append(up, [type |-> "FIRST_SEQ", seq |-> Head(n2c).seq])
    /\ c2i' = IF recv.seq_max = 1 THEN Append(c2i, "SEQ_ALL") ELSE c2i
    /\ n2c' = Tail(n2c)
    /\ UNCHANGED <<dataSize, recv, nm, rc, nic, patches, snd, requested, crash>>

(* MSG_N2C_SEQ_ZERO with seq_zero_notify set (287-300).                    *)
RecvZero ==
    /\ FromPipe("ZERO")
    /\ c2i' = Append(c2i, "SEQ_ZERO")
    /\ n2c' = Tail(n2c)
    /\ UNCHANGED <<dataSize, recv, nm, rc, nic, up, patches, snd, requested, crash>>

(* MSG_N2C_SEQ_ALL (301-318).                                              *)
RecvAll ==
    /\ FromPipe("ALL")
    /\ c2i' = Append(c2i, "SEQ_ALL")
    /\ up' = Append(up, [type |-> "ALL_DONE"])
    /\ n2c' = Tail(n2c)
    /\ UNCHANGED <<dataSize, recv, nm, rc, nic, patches, snd, requested, crash>>

(* MSG_N2C_SEQ_JUMP (319-328).                                             *)
RecvJump ==
    /\ FromPipe("JUMP")
    /\ up' = Append(up, [type |-> "PATCH_REQ", stt |-> Head(n2c).stt, end |-> Head(n2c).end])
    /\ n2c' = Tail(n2c)
    /\ UNCHANGED <<dataSize, recv, nm, rc, nic, c2i, patches, snd, requested, crash>>

(* MSG_PATCH_DATA (115-167): into the tail buffer, dropped, or into the    *)
(* file.  The buffer must reach as far as the packet (131; the offset is   *)
(* an unsigned product), and a zero packet must leave a start (144).       *)
RecvPatch ==
    /\ Running /\ rc = "idle" /\ patches # <<>>
    /\ patches' = Tail(patches)
    /\ LET s == Head(patches)
           m == IF s = 0 THEN UpdateBcdMetadata(recv) ELSE recv
           o == ((s - recv.seq_tail - 1) * Payload) % Word
       IN  IF recv.seq_tail > 0 /\ s > recv.seq_tail
           THEN IF o + PktLen(s) > recv.tail_len
                THEN crash' = "tail_buffer" /\ UNCHANGED <<recv, rc>>
                ELSE /\ recv' = [recv EXCEPT !.buf[s] = o, !.num_slow = @ + 1]
                     /\ rc' = "patched" /\ crash' = crash
           ELSE IF s = recv.seq_fst
           THEN UNCHANGED <<recv, rc, crash>>
           ELSE IF s = 0 /\ m.start < 0
           THEN crash' = "no_start" /\ UNCHANGED <<recv, rc>>
           ELSE /\ recv' = [m EXCEPT !.file[s] = GetFilePosition(m, s), !.num_slow = @ + 1]
                /\ rc' = "patched" /\ crash' = crash
    /\ UNCHANGED <<dataSize, nm, nic, n2c, c2i, up, snd, requested>>

(* The all-received check (169); a file already closed cannot be finished. *)
RecvPatched ==
    /\ Running /\ rc = "patched"
    /\ rc' = IF HasGottenAllData(recv) THEN "finish" ELSE "idle"
    /\ crash' = IF HasGottenAllData(recv) /\ recv.is_finished THEN "finished" ELSE crash
    /\ UNCHANGED <<dataSize, recv, nm, nic, n2c, c2i, up, patches, snd, requested>>

(* The file is finished, the client and the sender are told (170-183).     *)
RecvFinish ==
    /\ Running /\ rc = "finish"
    /\ Finish
    /\ rc' = "idle"
    /\ c2i' = Append(c2i, "SEQ_ALL")
    /\ up' = Append(up, [type |-> "ALL_DONE"])
    /\ UNCHANGED <<dataSize, nm, nic, n2c, patches, snd, requested>>

(* A plausible slip: no wait for the packet being processed.               *)
LockIgnored == TRUE

(* Both waits of MSG_FAST_DONE end when the lock is seen free (187, 196).  *)
LockFree == ~recv.lock

(* MSG_FAST_DONE (185-220): wait until no packet is being processed ...    *)
RecvFastDone ==
    /\ Running /\ rc = "idle" /\ snd.fast_done = "sent" /\ LockFree
    /\ snd' = [snd EXCEPT !.fast_done = "read"]
    /\ rc' = "fast_done"
    /\ UNCHANGED <<dataSize, recv, nm, nic, n2c, c2i, up, patches, requested, crash>>

(* ... ignore it when the data is complete, else close the fast path ...   *)
RecvStopFastPath ==
    /\ Running /\ rc = "fast_done"
    /\ rc' = IF recv.is_finished THEN "idle" ELSE "stopped"
    /\ recv' = IF recv.is_finished THEN recv ELSE [recv EXCEPT !.is_fastpath = FALSE]
    /\ UNCHANGED <<dataSize, nm, nic, n2c, c2i, up, patches, snd, requested, crash>>

(* Plausible slips: the request starts at the last packet received; nothing *)
(* is requested while the zero packet has not arrived.                     *)
MissingFromLast(r) ==
    IF ~r.is_seq_zero THEN <<r.seq_lst, SEQ2WARDTHEEND>>
    ELSE IF (r.seq_lst + 1) % r.seq_max # r.seq_fst THEN <<r.seq_lst, r.seq_fst>>
    ELSE <<>>
MissingAfterZeroOnly(r) ==
    IF r.is_seq_zero /\ (r.seq_lst + 1) % r.seq_max # r.seq_fst
    THEN <<r.seq_lst + 1, r.seq_fst>> ELSE <<>>

(* ... wait again, and ask for everything after the last accepted packet.  *)
Missing(r) ==
    IF ~r.is_seq_zero THEN <<r.seq_lst + 1, SEQ2WARDTHEEND>>
    ELSE IF (r.seq_lst + 1) % r.seq_max # r.seq_fst THEN <<r.seq_lst + 1, r.seq_fst>>
    ELSE <<>>

RecvRequestRest ==
    /\ Running /\ rc = "stopped" /\ LockFree
    /\ rc' = "idle"
    /\ LET pt == Missing(recv)
       IN  IF pt = <<>> THEN UNCHANGED <<up, requested>>
           ELSE /\ up' = Append(up, [type |-> "PATCH_REQ", stt |-> pt[1], end |-> pt[2]])
                /\ requested' = requested \union SeqsOf(pt[1], pt[2], recv.seq_fst)
    /\ UNCHANGED <<dataSize, recv, nm, nic, n2c, c2i, patches, snd, crash>>

Recv == \/ RecvFirst \/ RecvZero \/ RecvAll \/ RecvJump
        \/ RecvPatch \/ RecvPatched \/ RecvFinish
        \/ RecvFastDone \/ RecvStopFastPath \/ RecvRequestRest

-----------------------------------------------------------------------------
(* The broadcast is over for this node, or the process is gone.            *)
Over == \/ crash # "no"
        \/ /\ recv.is_finished /\ nm.pc = "idle" /\ rc = "idle"
           /\ nic = <<>> /\ n2c = <<>> /\ up = <<>>

Stop == Over /\ UNCHANGED vars

Next == Sender \/ Netmap \/ Recv \/ Stop

Spec == Init /\ [][Next]_vars

(* Each thread keeps running and so does the sender; the bounded stream    *)
(* ends.                                                                   *)
FairSpec == Spec /\ WF_vars(Sender) /\ WF_vars(Netmap) /\ WF_vars(Recv)

-----------------------------------------------------------------------------
(* Properties.                                                             *)

Written(r) == {s \in DOMAIN r.file : r.file[s] # Unwritten \/ r.buf[s] # Unwritten}

(* The packets the stream has gone past, from the first one received.      *)
Span(r) == IF r.seq_lst >= r.seq_fst THEN r.seq_fst .. r.seq_lst
           ELSE (0 .. r.seq_lst) \union (r.seq_fst .. (NSeq - 1))

(* The recv thread has asked for the rest of the data.                     *)
RestRequested == snd.fast_done = "read" /\ rc \notin {"fast_done", "stopped"}

TypeOK ==
    /\ dataSize \in Sizes
    /\ recv.seq_fst \in SeqNums /\ recv.seq_tail \in SeqNums
    /\ recv.seq_lst \in SeqNums \union {0}
    /\ recv.seq_max \in {0, NSeq} /\ recv.is_seq_zero = (recv.seq_max = NSeq)
    /\ recv.tail_len \in 0 .. dataSize
    /\ recv.num_fast \in 0 .. NSeq /\ recv.num_slow \in 0 .. NSeq
    /\ \A s \in SeqNums : /\ recv.file[s] \in -1 .. dataSize - 1
                         /\ recv.buf[s] \in -1 .. dataSize - 1
    /\ nm.pc \in {"idle", "test", "accept", "last", "finish", "notify"}
    /\ rc \in {"idle", "patched", "finish", "fast_done", "stopped"}
    /\ snd.fast_done \in {"no", "sent", "read"}
    /\ requested \subseteq SeqNums
    /\ crash \in {"no", "seq_tail", "start", "tail_buffer", "no_start", "finished"}

(* Every packet the stream has gone past was either written or asked for,  *)
(* and after MSG_FAST_DONE every packet of the data: no loss is forgotten. *)
EveryLossRequested ==
    recv.is_seq_fst =>
        Written(recv) \union requested = IF RestRequested THEN SeqNums ELSE Span(recv)

(* No packet is counted twice, on one path or on both: the sum compared    *)
(* with seq_max (hero.c:324) is the number of different packets written.   *)
CountsAreExact ==
    /\ recv.num_fast = Cardinality(Written(recv) \ requested)
    /\ recv.num_slow = Cardinality(Written(recv) \intersect requested)

(* Where a client finds byte l of the data when it reads the file in the   *)
(* order hero.h:104 gives: [start, jump), then [0, start), then            *)
(* [jump, end].                                                            *)
ReadAt(r, l) ==
    LET front == r.jump - r.start
    IN  IF l < front THEN r.start + l
        ELSE IF l - front < r.start THEN l - front
        ELSE r.jump + (l - front - r.start)

(* A finished file, read in that order, is the data.                       *)
FileReadOrder ==
    recv.is_finished =>
        \A s \in SeqNums : \A i \in 0 .. (PktLen(s) - 1) :
            ReadAt(recv, s * Payload + i) = recv.file[s] + i

(* The client and the sender hear that the data is complete only when the  *)
(* file holds all of it.                                                   *)
CompletionIsTrue ==
    snd.all_done > 0 \/ (\E i \in 1 .. Len(c2i) : c2i[i] = "SEQ_ALL") =>
        recv.is_finished /\ \A s \in SeqNums : recv.file[s] # Unwritten

(* A patch never lands outside the tail buffer, never precedes the zero    *)
(* packet it depends on, and the stream wraps at most once over a loss.    *)
PatchesAreReady == crash \notin {"tail_buffer", "no_start", "seq_tail"}

(* After the second wait (196-198) the fast path accepts nothing more, so  *)
(* the request covers exactly what is missing.                             *)
FastPathStaysClosed ==
    [][RestRequested => recv'.num_fast = recv.num_fast]_vars

(* A node that received one packet finishes the data.                      *)
Finishes == <>(recv.is_finished \/ crash # "no")

(* thread_data.c:235 asserts that the start of the file is unknown when    *)
(* the stream wraps.                                                       *)
StartUnknownAtWrap == crash # "start"

(* thread_send.c:341 asserts that a receiver reports MSG_ALL_DONE once.    *)
AllDoneOnce == snd.all_done <= 1
=============================================================================
