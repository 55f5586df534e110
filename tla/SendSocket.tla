----------------------------- MODULE SendSocket -----------------------------
(***************************************************************************)
(* The control connections of a sending agent: the send thread             *)
(* (thread_send.c) serves every receiver through a ring of patch tuples, a *)
(* bounded send queue and the message it has sent in part; notices take a  *)
(* ring of commands common to all.  The receiving agent cuts the bytes it  *)
(* reads into messages again (thread_recv.c; the other threads read the    *)
(* same way).                                                              *)
(*                                                                         *)
(* A byte stands for a piece of a message, <<message, index>>.  A request  *)
(* is given as the ring elements it becomes, see PatchTuples.              *)
(***************************************************************************)
EXTENDS PatchTuples, FiniteSets

CONSTANTS
    Sock,           \* receivers connected (ssockList)
    Flaky,          \* those that may stop reading, or die
    Requests,       \* of each receiver: the ring elements a request may become
    Capacity,       \* APR_QUEUE_CAPACITY
    Half, Reserve,  \* APR_QUEUE_CAPACITY / 2 and APR_QUEUE_CAPACITY - 100
    MSG_HDRLEN, PatchLen,  \* length of a header, of a MSG_PATCH_DATA
    SockBuf,        \* bytes TCP takes before a receiver reads
    RECVBUF_LEN,    \* the receive buffer
    MaxReq,         \* bound: requests in all
    MaxPull, MaxTell  \* bounds: pulls of each receiver, FAST_DONEs for it

ASSUME SocketAssumption ==
    /\ IsFiniteSet(Sock) /\ Flaky \subseteq Sock
    /\ \A s \in Sock : \A q \in Requests[s] :
          q \in Seq(Nat \X Nat) /\ \A i \in 1 .. Len(q) : q[i][1] <= q[i][2]
    /\ Capacity \in Nat \ {0} /\ Half \in 1 .. Capacity - 1 /\ Reserve \in 1 .. Capacity
    /\ MSG_HDRLEN \in Nat \ {0} /\ PatchLen \in Nat /\ PatchLen > MSG_HDRLEN
    /\ SockBuf \in Nat \ {0} /\ RECVBUF_LEN \in Nat /\ RECVBUF_LEN >= PatchLen
    /\ MaxReq \in Nat /\ MaxPull \in [Sock -> Nat] /\ MaxTell \in [Sock -> Nat]

VARIABLES
    pc, todo,       \* send thread: what it does, sockets it still has to visit
    within,         \* ... and whether it is inside a patch tuple
    write_set,      \* sockets select is asked to write to
    list,           \* ssockList
    ringCmd,        \* ringCmd, oldest command first
    ringPatch,      \* SendSocketState.ringPatchTuple, oldest element first
    sendQueue,      \* SendSocketState.sendQueue_p
    remain,         \* remainMsgToken_p: <<>>, or a message and its byte_sent
    wire,           \* external: bytes TCP has taken and not delivered
    open,           \* external: the receiver is there
    recv_buf,       \* receiver's FdState.recv_buf
    expect,         \* ... recv_expect_byte, 0 for BYTE_MAX (no header yet)
    n_req, n_pull, n_tell,  \* requests and pulls made, FAST_DONEs created
    crash           \* why the agent ended, "no" while it runs

thread == <<pc, todo, within, write_set, list>>
queues == <<ringCmd, ringPatch, sendQueue, remain>>
recver == <<recv_buf, expect>>
inputs == <<n_req, n_pull, n_tell>>
vars == <<thread, queues, wire, open, recver, inputs, crash>>

FAST_DONE == [type |-> "FAST_DONE", seq |-> 0]
PULL_REJECT == [type |-> "PULL_REJECT", seq |-> 0]
Patch(n) == [type |-> "PATCH_DATA", seq |-> n]
MsgLen(m) == IF m.type = "PATCH_DATA" THEN PatchLen ELSE MSG_HDRLEN
Bytes(m, from, to) == [i \in 1 .. (to - from + 1) |-> <<m, from + i - 1>>]

Lesser(a, b) == IF a < b THEN a ELSE b
Running == crash = "no"
At == CHOOSE s \in todo : TRUE
Visiting(where) == Running /\ pc = where /\ todo # {}
Visited == todo' = todo \ {At}
Onward == pc' = IF todo' = {} THEN "command" ELSE "send"   \* the next socket, or another round

Init ==
    /\ pc = "command" /\ todo = {} /\ within = FALSE /\ write_set = {} /\ list = Sock
    /\ ringCmd = <<>> /\ ringPatch = [s \in Sock |-> <<>>]
    /\ sendQueue = [s \in Sock |-> <<>>] /\ remain = [s \in Sock |-> <<>>]
    /\ wire = [s \in Sock |-> <<>>] /\ open = [s \in Sock |-> TRUE]
    /\ recv_buf = [s \in Sock |-> <<>>] /\ expect = [s \in Sock |-> 0]
    /\ n_req = 0 /\ n_pull = [s \in Sock |-> 0] /\ n_tell = [s \in Sock |-> 0]
    /\ crash = "no"

-----------------------------------------------------------------------------
(* Commands.                                                               *)

(* A broadcast has ended for a receiver: a MSG_FAST_DONE is created for    *)
(* the command ring (113-126).                                             *)
SsTell(s) ==
    /\ Running /\ pc = "command" /\ n_tell[s] < MaxTell[s]
    /\ n_tell' = [n_tell EXCEPT ![s] = @ + 1]
    /\ ringCmd' = Append(ringCmd, s)
    /\ UNCHANGED <<thread, ringPatch, sendQueue, remain, wire, open, recver, n_req, n_pull, crash>>

HeadBlocked == ringCmd # <<>> /\ Len(sendQueue[Head(ringCmd)]) >= Capacity

(* 136-150: the oldest command goes to the queue of its receiver; if that  *)
(* is full, all commands wait.                                             *)
SsCommand ==
    /\ Running /\ pc = "command" /\ ringCmd # <<>> /\ ~HeadBlocked
    /\ sendQueue' = [sendQueue EXCEPT ![Head(ringCmd)] = Append(@, FAST_DONE)]
    /\ ringCmd' = Tail(ringCmd)
    /\ UNCHANGED <<thread, ringPatch, remain, wire, open, recver, inputs, crash>>

SsCommandsOver ==
    /\ Running /\ pc = "command"
    /\ ringCmd = <<>> \/ HeadBlocked
    /\ pc' = "patch" /\ todo' = list /\ write_set' = {}
    /\ UNCHANGED <<within, list, queues, wire, open, recver, inputs, crash>>

-----------------------------------------------------------------------------
(* processPatchTuple for every socket (hero.c:1044-1110).                  *)

(* A plausible slip: no limit for messages without priority.               *)
PtAcceptsAlways(s) == Len(sendQueue[s]) < Capacity

(* insertMsg2SendQ refuses them when the queue is more than half full      *)
(* (hero.c:284).                                                           *)
PtAccepts(s) == Len(sendQueue[s]) <= Half

(* A request that wraps to position 0 has a first part without packets.    *)
NoPackets(s) == ringPatch[s][1][1] = ringPatch[s][1][2]

(* The tuple after its first packet has been queued; gone if that was all. *)
Advanced(ring) ==
    IF ring[1][1] + 1 = ring[1][2] THEN Tail(ring)
    ELSE [ring EXCEPT ![1] = <<ring[1][1] + 1, ring[1][2]>>]

(* Packets are queued one by one (1072-1099); a new tuple is taken up only *)
(* if the queue is short enough (1052), the next packet of one even then.  *)
PtInsert ==
    /\ Visiting("patch") /\ ringPatch[At] # <<>>
    /\ within \/ Len(sendQueue[At]) < Reserve
    /\ ~NoPackets(At) /\ PtAccepts(At)
    /\ sendQueue' = [sendQueue EXCEPT ![At] = Append(@, Patch(ringPatch[At][1][1]))]
    /\ ringPatch' = [ringPatch EXCEPT ![At] = Advanced(@)]
    /\ within' = (Len(ringPatch'[At]) = Len(ringPatch[At]))
    /\ UNCHANGED <<pc, todo, write_set, list, ringCmd, remain, wire, open, recver, inputs, crash>>

(* A plausible slip: the loop of the tuple is left without its end.        *)
PtRefusedInside ==
    /\ Visiting("patch") /\ ringPatch[At] # <<>>
    /\ within \/ Len(sendQueue[At]) < Reserve
    /\ ~NoPackets(At) /\ ~PtAccepts(At)
    /\ within' = TRUE /\ Visited /\ write_set' = write_set \union {At}
    /\ UNCHANGED <<pc, list, queues, wire, open, recver, inputs, crash>>

(* The packet is refused: the rest of the tuple stays for the next round.  *)
PtRefused ==
    /\ Visiting("patch") /\ ringPatch[At] # <<>>
    /\ within \/ Len(sendQueue[At]) < Reserve
    /\ ~NoPackets(At) /\ ~PtAccepts(At)
    /\ within' = FALSE /\ Visited /\ write_set' = write_set \union {At}
    /\ UNCHANGED <<pc, list, queues, wire, open, recver, inputs, crash>>

(* A tuple without packets is removed as if it had been sent (1101-1103).  *)
PtEmpty ==
    /\ Visiting("patch") /\ ringPatch[At] # <<>>
    /\ ~within /\ Len(sendQueue[At]) < Reserve
    /\ NoPackets(At)
    /\ ringPatch' = [ringPatch EXCEPT ![At] = Tail(@)]
    /\ UNCHANGED <<thread, ringCmd, sendQueue, remain, wire, open, recver, inputs, crash>>

(* A plausible slip: the loop over the ring does not look at the queue.    *)
PtOverWaits ==
    /\ Visiting("patch") /\ ~within
    /\ ringPatch[At] = <<>>
    /\ Visited
    /\ write_set' = IF sendQueue[At] # <<>> THEN write_set \union {At} ELSE write_set
    /\ UNCHANGED <<pc, within, list, queues, wire, open, recver, inputs, crash>>

(* Nothing more for this socket; select is asked whether it can be written *)
(* to if its queue is not empty (166-169).                                 *)
PtOver ==
    /\ Visiting("patch") /\ ~within
    /\ ringPatch[At] = <<>> \/ Len(sendQueue[At]) >= Reserve
    /\ Visited
    /\ write_set' = IF sendQueue[At] # <<>> THEN write_set \union {At} ELSE write_set
    /\ UNCHANGED <<pc, within, list, queues, wire, open, recver, inputs, crash>>

-----------------------------------------------------------------------------
(* select, then every socket is written to and read from.                  *)

Room(s) == SockBuf - Len(wire[s])

(* 179: a socket can be written to when TCP takes bytes, or to find out    *)
(* that the other end is gone.                                             *)
SsSelect ==
    /\ Running /\ pc = "patch" /\ todo = {}
    /\ write_set' = {s \in write_set : Room(s) > 0 \/ ~open[s]}
    /\ todo' = list /\ Onward
    /\ UNCHANGED <<within, list, queues, wire, open, recver, inputs, crash>>

(* The message sendMsg goes on with: what remains, or the head of the      *)
(* queue.                                                                  *)
Token(s) == IF remain[s] # <<>> THEN remain[s][1] ELSE [msg |-> Head(sendQueue[s]), sent |-> 0]
HasToken(s) == remain[s] # <<>> \/ sendQueue[s] # <<>>
Popped == sendQueue' = IF remain[At] # <<>> THEN sendQueue ELSE [sendQueue EXCEPT ![At] = Tail(@)]

(* A plausible slip: a message sent in part is sent again from the start.  *)
SmSendRestarts ==
    /\ Visiting("send") /\ At \in write_set /\ HasToken(At) /\ open[At]
    /\ LET t == Token(At)
           n == Lesser(MsgLen(t.msg) - t.sent, Room(At))
       IN  /\ wire' = [wire EXCEPT ![At] = @ \o Bytes(t.msg, t.sent + 1, t.sent + n)]
           /\ IF t.sent + n = MsgLen(t.msg)
              THEN remain' = [remain EXCEPT ![At] = <<>>] /\ pc' = pc
              ELSE remain' = [remain EXCEPT ![At] = <<[t EXCEPT !.sent = 0]>>] /\ pc' = "recv"
    /\ Popped
    /\ UNCHANGED <<todo, within, write_set, list, ringCmd, ringPatch, open, recver, inputs, crash>>

(* One pass of the loop of sendMsg (hero.c:499-553).  TCP takes what it    *)
(* has room for; a message sent in part ends the loop.                     *)
SmSend ==
    /\ Visiting("send") /\ At \in write_set /\ HasToken(At) /\ open[At]
    /\ LET t == Token(At)
           n == Lesser(MsgLen(t.msg) - t.sent, Room(At))
       IN  /\ wire' = [wire EXCEPT ![At] = @ \o Bytes(t.msg, t.sent + 1, t.sent + n)]
           /\ IF t.sent + n = MsgLen(t.msg)
              THEN remain' = [remain EXCEPT ![At] = <<>>] /\ pc' = pc
              ELSE remain' = [remain EXCEPT ![At] = <<[t EXCEPT !.sent = @ + n]>>] /\ pc' = "recv"
    /\ Popped
    /\ UNCHANGED <<todo, within, write_set, list, ringCmd, ringPatch, open, recver, inputs, crash>>

(* The other end is gone: TCP takes the bytes for nothing, or it knows     *)
(* already and the process gets SIGPIPE, which nobody handles.             *)
SmReset ==
    /\ Visiting("send") /\ At \in write_set /\ HasToken(At) /\ ~open[At]
    /\ Popped
    /\ remain' = [remain EXCEPT ![At] = <<>>]
    /\ crash' \in {"no", "sigpipe"}
    /\ UNCHANGED <<thread, ringCmd, ringPatch, wire, open, recver, inputs>>

SmOver ==
    /\ Visiting("send") /\ (At \in write_set => ~HasToken(At))
    /\ pc' = "recv"
    /\ UNCHANGED <<todo, within, write_set, list, queues, wire, open, recver, inputs, crash>>

(* MSG_PATCH_REQ (374-424): the request goes to the ring.                  *)
RcRequest ==
    /\ Visiting("recv") /\ n_req < MaxReq
    /\ n_req' = n_req + 1
    /\ \E q \in Requests[At] : ringPatch' = [ringPatch EXCEPT ![At] = @ \o q]
    /\ Visited /\ Onward
    /\ UNCHANGED <<within, write_set, list, ringCmd, sendQueue, remain, wire, open, recver, n_pull, n_tell, crash>>

(* MSG_PULL of a receiver that is not in the push (256-267): rejected at   *)
(* once; a full queue ends the process.                                    *)
RcPull ==
    /\ Visiting("recv") /\ n_pull[At] < MaxPull[At]
    /\ n_pull' = [n_pull EXCEPT ![At] = @ + 1]
    /\ IF Len(sendQueue[At]) < Capacity
       THEN sendQueue' = [sendQueue EXCEPT ![At] = Append(@, PULL_REJECT)] /\ crash' = crash
       ELSE sendQueue' = sendQueue /\ crash' = "abort"
    /\ Visited /\ Onward
    /\ UNCHANGED <<within, write_set, list, ringCmd, ringPatch, remain, wire, open, recver, n_req, n_tell>>

(* 443-446: the receiver is gone, the socket leaves the list.              *)
RcClosed ==
    /\ Visiting("recv") /\ ~open[At]
    /\ list' = list \ {At}
    /\ Visited /\ Onward
    /\ UNCHANGED <<within, write_set, queues, wire, open, recver, inputs, crash>>

RcNothing ==
    /\ Visiting("recv")
    /\ Visited /\ Onward
    /\ UNCHANGED <<within, write_set, list, queues, wire, open, recver, inputs, crash>>

Agent == \/ SsCommand \/ SsCommandsOver \/ PtInsert \/ PtRefused \/ PtEmpty \/ PtOver
         \/ SsSelect \/ SmSend \/ SmReset \/ SmOver
         \/ RcRequest \/ RcPull \/ RcClosed \/ RcNothing

-----------------------------------------------------------------------------
(* The receiving agent.                                                    *)

(* A plausible slip: the length in a header taken for that of the payload. *)
LengthsSum(old, buf) ==
    CASE old # 0 -> {old}
      [] old = 0 /\ Len(buf) < MSG_HDRLEN -> {0}
      [] OTHER -> IF buf[1][2] = 1 THEN {MSG_HDRLEN + MsgLen(buf[1][1])} ELSE 1 .. RECVBUF_LEN

(* recv_expect_byte when buf is looked at (85-97): the length in the       *)
(* header, once there is one; bytes that are not a header may say anything.*)
Lengths(old, buf) ==
    CASE old # 0 -> {old}
      [] old = 0 /\ Len(buf) < MSG_HDRLEN -> {0}
      [] OTHER -> IF buf[1][2] = 1 THEN {MsgLen(buf[1][1])} ELSE 1 .. RECVBUF_LEN

HasMessage(s) == expect[s] # 0 /\ Len(recv_buf[s]) >= expect[s]

(* 75-78: with nothing complete in the buffer, read what there is and the  *)
(* buffer holds.  With a full buffer the read returns 0 and the connection *)
(* is taken for closed (353-356).                                          *)
RvRead(s) ==
    /\ open[s] /\ ~HasMessage(s) /\ wire[s] # <<>>
    /\ LET n == Lesser(Len(wire[s]), RECVBUF_LEN - Len(recv_buf[s]))
       IN  /\ recv_buf' = [recv_buf EXCEPT ![s] = @ \o SubSeq(wire[s], 1, n)]
           /\ wire' = [wire EXCEPT ![s] = SubSeq(@, n + 1, Len(@))]
           /\ open' = [open EXCEPT ![s] = n > 0]
    /\ \E len \in Lengths(expect[s], recv_buf'[s]) : expect' = [expect EXCEPT ![s] = len]
    /\ UNCHANGED <<thread, queues, inputs, crash>>

(* A complete message is processed and dropped (100-352); the rest of the  *)
(* buffer is looked at again.                                              *)
RvMessage(s) ==
    /\ open[s] /\ HasMessage(s)
    /\ recv_buf' = [recv_buf EXCEPT ![s] = SubSeq(@, expect[s] + 1, Len(@))]
    /\ \E len \in Lengths(0, recv_buf'[s]) : expect' = [expect EXCEPT ![s] = len]
    /\ UNCHANGED <<thread, queues, wire, open, inputs, crash>>

(* A receiver dies; what was on its way is lost.                           *)
RvDies(s) ==
    /\ s \in Flaky /\ open[s]
    /\ open' = [open EXCEPT ![s] = FALSE]
    /\ wire' = [wire EXCEPT ![s] = <<>>]
    /\ recv_buf' = [recv_buf EXCEPT ![s] = <<>>] /\ expect' = [expect EXCEPT ![s] = 0]
    /\ UNCHANGED <<thread, queues, inputs, crash>>

Reader(s) == RvRead(s) \/ RvMessage(s)

Next == Agent \/ \E s \in Sock : SsTell(s) \/ Reader(s) \/ RvDies(s)

Spec == Init /\ [][Next]_vars

(* The agent runs and so do the receivers that are not flaky.              *)
FairSpec == Spec /\ WF_vars(Agent) /\ \A s \in Sock \ Flaky : WF_vars(Reader(s))

-----------------------------------------------------------------------------
(* Properties.                                                             *)

Notice == {"FAST_DONE", "PULL_REJECT"}
Msg == [type : Notice \union {"PATCH_DATA"}, seq : Nat]
Byte == Msg \X Nat

Types ==
    /\ pc \in {"command", "patch", "send", "recv"} /\ todo \subseteq Sock
    /\ within \in BOOLEAN /\ (within => pc = "patch" /\ todo # {} /\ ringPatch[At] # <<>>)
    /\ write_set \subseteq Sock /\ list \subseteq Sock
    /\ ringCmd \in Seq(Sock) /\ ringPatch \in [Sock -> Seq(Nat \X Nat)]
    /\ sendQueue \in [Sock -> Seq(Msg)]
    /\ remain \in [Sock -> Seq([msg : Msg, sent : Nat])]
    /\ wire \in [Sock -> Seq(Byte)] /\ recv_buf \in [Sock -> Seq(Byte)]
    /\ open \in [Sock -> BOOLEAN] /\ expect \in [Sock -> Nat]
    /\ n_req \in Nat /\ n_pull \in [Sock -> Nat] /\ n_tell \in [Sock -> Nat]
    /\ crash \in {"no", "sigpipe", "abort"}

WithinCapacities ==
    \A s \in Sock :
        /\ Len(sendQueue[s]) <= Capacity
        /\ Len(remain[s]) <= 1
        /\ Len(wire[s]) <= SockBuf
        /\ Len(recv_buf[s]) <= RECVBUF_LEN

TypeOK == Types /\ WithinCapacities

(* A receive buffer that is parsed after every read always has room for    *)
(* the rest of a message: no receiver takes a full buffer for a closed     *)
(* connection (thread_recv.c:354).                                         *)
StaysConnected == \A s \in Sock \ Flaky : open[s]

(* Patches leave room in the queue (hero.c:284, 1051) for the messages     *)
(* whose loss is fatal: when the agent aborts for a full queue             *)
(* (thread_send.c:262), the patches in it are among its first Half + 1     *)
(* messages and all the others, at least Capacity - Half - 1, are pulls    *)
(* and notices the receiver has not taken.                                 *)
FullOfNotices(s) ==
    /\ Len(sendQueue[s]) = Capacity
    /\ \A i \in (Half + 2) .. Capacity : sendQueue[s][i].type \in Notice
PriorityFits == crash = "abort" => \E s \in Sock : FullOfNotices(s)

(* The connection delivers what PatchDelivery promises: whatever is in the *)
(* buffer, on the wire, sent in part, queued or in the ring is still owed. *)
(* Gather puts together what parts gives for each element of a sequence.   *)
Gather(seq, parts) ==
    LET f[i \in 0 .. Len(seq)] == IF i = 0 THEN <<>> ELSE f[i - 1] \o parts[seq[i]]
    IN  f[Len(seq)]
EndOf == [b \in Byte |-> IF b[2] = MsgLen(b[1]) THEN <<b[1]>> ELSE <<>>]
PatchIn == [m \in Msg |-> IF m.type = "PATCH_DATA" THEN <<m.seq>> ELSE <<>>]
PacketsOf == [e \in Nat \X Nat |-> Interval(e[1], e[2])]

Messages(bytes) == Gather(bytes, EndOf)
Patches(msgs) == Gather(msgs, PatchIn)
Packets(ring) == Gather(ring, PacketsOf)

Pending(s) ==
    Messages(recv_buf[s]) \o Messages(wire[s])
        \o [i \in DOMAIN remain[s] |-> remain[s][i].msg] \o sendQueue[s]

CountOf(seq, x) == Cardinality({i \in DOMAIN seq : seq[i] = x})
Due(s) ==
    LET pending == Pending(s)
    IN  IF ~open[s] THEN [owed |-> <<>>, notices |-> [k \in Notice |-> 0]]
        ELSE [owed |-> Patches(pending) \o Packets(ringPatch[s]),
              notices |-> [k \in Notice |->
                  CountOf(pending, [type |-> k, seq |-> 0])
                  + IF k = "FAST_DONE" THEN CountOf(ringCmd, s) ELSE 0]]

Delivery == INSTANCE PatchDelivery WITH
    Answers <- {Packets(q) : q \in UNION {Requests[s] : s \in Sock}},
    link <- [s \in Sock |-> Due(s)]

DeliverySpec == Delivery!DSpec

(* A receiver that reads gets its patches and notices out of the ring and  *)
(* the queue, even when another one has stopped reading or has died.  Not  *)
(* so its notices in ringCmd: they get there unless the command before all *)
(* others is for a flaky receiver whose queue is full.  As long as that    *)
(* one does not read, and for ever if it has died, nobody is told anything *)
(* more (thread_send.c:139-145).                                           *)
HeldUp == HeadBlocked /\ Head(ringCmd) \in Flaky
Waiting(s) == ringPatch[s] # <<>> \/ sendQueue[s] # <<>>
OthersAreServed ==
    \A s \in Sock \ Flaky :
        /\ Waiting(s) ~> (~Waiting(s) \/ ~Running)
        /\ CountOf(ringCmd, s) > 0 ~> (CountOf(ringCmd, s) = 0 \/ ~Running \/ HeldUp)

(* "see if we can now do some previously unsuccessful writes"              *)
(* (thread_send.c:211): a message sent in part is sent to its end.         *)
RestIsSent ==
    \A s \in Sock \ Flaky : remain[s] # <<>> ~> (remain[s] = <<>> \/ ~Running)
=============================================================================
