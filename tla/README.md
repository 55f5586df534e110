# Verification of republic_agent

republic_agent multicasts broadcast data of Spark applications over a network
path that a controller grants to one sender at a time. One agent process runs
on every node. This directory holds TLA+ models of its protocol and its
threads, the TLC configurations that check them, and proofs for TLAPS. All
source paths below are relative to `src/protocol/src/`.

## 1. The system

An agent has four threads (the netmap thread sends, receives and forwards the
host's packets in one loop). They share their state (hash tables, lists and the
structures of `hero.h`) without any lock; two of them signal each other with
plain variables, the others through pipes.

| component | state | operations | talks to |
|---|---|---|---|
| netmap thread, receiving (`thread_data.c: process_rings`) | `RecverState`: first, last and tail sequence number, two packet counters, file positions | accept or refuse each packet of the cyclic stream, note losses, detect the last packet | receive thread through the pipe n2c |
| receive thread (`thread_recv.c`) | one `FdState` for each master's agent, `RecverState` | store patches, ask for lost packets, close the fast path on FAST_DONE, report completion | sender over TCP, service thread through c2i |
| netmap thread, sending (`thread_data.c: am_*`, `thread_netmap`) | `MulticastState`: position, end of the stream, `bcd_state` | send at the permitted rate, move from ATTEMPT to FULLRATE, mark the last packet, declare the multicast dead | shares `MulticastState` with the send thread and `activeMulticast_p` with the service thread |
| netmap thread, ports (`thread_data.c: move, process_rings, thread_netmap`, `netmap_util.c`) | indices of the NIC's and of the host's rings, whose turn it is, where the last packet was put | poll, fill the transmit ring with the multicast's packets or the host's, hand it to the NIC, tell from the ring's indices that the last packet has left | NIC, host's network stack |
| connections to the masters (`rsockList`, `dll.c`) | a doubly linked list of `FdState`s that three threads use without a lock | connect, search, walk through for `select`, take out what is closed | service, receive and netmap thread |
| send thread (`thread_send.c`) | one `SendSocketState` per receiver: patch ring, send queue, message sent in part; the `SenderState`s and their priority queue; `ringCmd` | count first reports and completions, extend the end of the stream, turn patch requests into patch data, tell receivers that the stream has passed them | receivers over TCP, service thread through c_send2i |
| service thread (`thread_service.c`) | local sockets, `AppState`s, `queuePush_p`, `activeMulticast_p` | INT, READ, DEL, WRT and PSH requests; ask for and give back the path | executors over Unix sockets, controller by RPC |
| controller | external | grant, postpone, refuse a path; take it back | service thread |

A broadcast goes through these steps. The master writes a file and pushes it
(WRT_REQ, PSH_REQ). The push waits for the path; once it is granted the
netmap thread sends the packets round and round, `0 .. seq_max - 1`. A receiver
starts with whatever packet it sees first and reports it (FIRST_SEQ); the
sender then knows at which position this receiver has been offered one full
round. What a receiver misses it asks for over TCP (PATCH_REQ, PATCH_DATA),
during the stream for gaps it sees, and after FAST_DONE for the rest. When the
sender has passed the last receiver's end, the multicast is dead and the path is
given back. When the two counters of a receiver reach `seq_max` it reports
ALL_DONE and answers its executors' READ_REQs.

What is hard here: two threads writing one `RecverState`; reads of `seq_cur`,
`seq_end` and `n_first_seq` that go stale; an end of the stream that moves
while the stream approaches it; a file written in an order that depends on
which packets were lost; bounded queues shared by slow and fast receivers;
partial reads and writes; calls to a controller that fail; receivers and masters
that end; a linked list changed by one thread under another's hands; ring
indices that must tell "has left" from "has not moved"; clients that come
and go while messages about their application are under way.

What makes each part correct:

- *receiver*: every packet that was lost is asked for, none is counted twice, the
  file read in the announced order is the data, completion is truthful and
  reached;
- *path*: one transfer at a time, only under a grant, given back once; every
  push is served;
- *stream*: each receiver is offered a whole round, nobody's end is missed,
  every receiver is released;
- *ports*: packets leave in the order they were put in, the path is given up
  only when none of the multicast is left in the NIC, the host is not starved;
- *masters' connections*: no thread meets a broken node, each master has one
  connection, whoever looks for it finds it, what is queued there is sent;
- *connections to receivers*: patches arrive once and in order, no message is torn,
  patches leave room in the queue for messages that must not fail, a slow
  receiver does not keep the others' patches back;
- *local clients*: every reader is answered, the file is there for as long as it
  is needed and not longer.

## 2. Modules

| module | models | checked by |
|---|---|---|
| `PatchTuples` | how a patch request becomes elements of the patch ring (`thread_send.c:374-424`, `hero.c:1044-1110`) | used by the next and by `SendSocket` |
| `RecverState` | a receiving agent: `RecverState` with its two threads; sender and networks as environment | `recv`, `recv_start`, `recv_twice` |
| `Skiplist` | insertion under a comparison that never says "equal" (`hero.c:818-824`) | used by the next two |
| `PathLease` | what the path is for: a lease with one holder and an empty wire when it is returned | refined by `PathService` |
| `PathService` | `queuePush_p`, controller, `activeMulticast_p`, the packets of a multicast on the wire | `path` |
| `MulticastSend` | one transfer at its sender: netmap and send thread, receivers that may end | `send` |
| `TxQueue` | what the way to the NIC promises: a queue fed by a cyclic stream and by the host, over when the stream has left | refined by `NetmapPort` |
| `NetmapPort` | the loop of the netmap thread: polling, turns, both rings with their indices, packets with position and checksum | `port`, `port_end` |
| `ConnTable` | what the connections to the masters are: one for each, kept until its agent ends | refined by `MasterConns` |
| `MasterConns` | `rsockList`, store by store, as the service, receive and netmap thread use it | `conns` |
| `PatchDelivery` | what a control connection promises: patches in order of the requests, notices once | refined by `SendSocket` |
| `SendSocket` | send thread's connections: command ring, patch ring, send queue, partial writes, framing at the reader | `chan`, `chan_rest` |
| `LocalClients` | the service thread's clients and the messages it gets from the other threads | `app`, `app_own` |
| `PathService_proofs`, `MulticastSend_proofs`, `NetmapPort_proofs`, `LocalClients_proofs`, `RecverState_proofs`, `SendSocket_proofs`, `MasterConns_proofs` | theorems about the module of that name | TLAPS |
| `RecverFile_proofs` | theorems about the file `RecverState` writes | TLAPS |

The modules meet where one thread's state ends: `RecverState` reports with the
messages that `MulticastSend` counts and `SendSocket` carries; `MulticastSend`
decides when a multicast is dead and `PathService` what follows;
`NetmapPort` says when the last packet has left, which `MulticastSend` and
`PathService` take as a step of its own (`NmDead`, the empty ring);
`MasterConns` gives a broadcast the connection `RecverState` reports through;
`LocalClients` sees of a transfer only its `SEQ_ZERO` and `SEQ_ALL`.

`MC*` modules give the instances. Each variable has the name of the field it
stands for, and its declaration says so; each action names the lines it stands
for, and `PROJECT.json` maps every definition. An operator preceded by a
remark "a plausible slip" or "mutant" is a changed form of the definition after
it, kept to show that a property notices that change; no specification uses it.

### Grain of steps

A step is what a thread does between two points at which another thread can
tell the difference.

- `RecverState`: taking the lock and testing `is_fastpath` are steps of their
  own, and so are accepting a packet, the test for the last packet, the finish
  and the report. An accepted packet and its metadata are one step. File
  contents are the offset at which each packet was written. In the run
  `recv_twice` both threads see the data complete; the damage of a second
  overlapping `recverState_finishRecv` (two `fclose` of one FILE) is not followed
  further.
- `PathService`: sequence numbers are left out. A multicast is done when every
  receiver has reported. `connect_controller` is set. Postponing pushes `tv_push`
  one second ahead: `due` is cleared and `Tick` sets it again. Whether the first
  report or the first one of another rack causes FULLRATE is left open. A
  refusal (DENY) falls through to POSTPONE in the code and is the same step.
  An emptied ring is recognised or overlooked (`NmCheck`), as the comparison of
  `thread_data.c:655-657` may do either; which one it is, `NetmapPort` says.
  A broadcast may be pushed again, at any time. What this does to its `seq_end`
  is left out with the other sequence numbers; its receivers, states and flags
  are kept.
- `MulticastSend`: each read of `seq_cur` by the send thread is a step. The one
  second after which FAST_DONE follows is an arbitrary delay. One push.
  A receiver that ends (`RecverDies`) loses any end of what it has reported and
  reports nothing more; the agent drops its socket and keeps its `SenderState`.
- `NetmapPort`: a system call (`poll`, `ioctl`) is a step in which the NIC may send
  any part of what it has; the host's stack puts packets into its ring while
  `poll` waits. A packet put into the ring is a step; so is what `move` swaps.
  An IP header is its length and its checksum, the other words one number; a
  payload is the place in the file it was read from. The rate limit is an
  arbitrary number, and the end of the stream becomes known at any time.
- `MasterConns`: a step is one store to a pointer of the list, or one node of a
  search; the first loop of the receive thread is one step, for the reason
  given there. Nodes are numbered as they are allocated and not used twice.
  `clash` records that the receive thread changes the list while the service
  thread is at it, or takes out a connection somebody else is using or has
  kept: what follows is undefined in the code, the model ends there, and the
  properties claim nothing after it. That such a clash can happen is a hazard of
  the code (`dll.c:133`, `thread_recv.c:355`), not something the model excludes.
  A write to a connection whose agent has ended may raise SIGPIPE and end the
  process (`RvWrite`).
- `SendSocket`: a byte is a message with an index, so that a torn or misplaced
  byte is seen. Padding is always zero in the code and is left out. A receiver's
  request is given as the ring elements it becomes; one that wraps to position 0
  becomes an element without packets and another one (`thread_send.c:400-413`),
  and the empty one is removed by a step of its own (`PtEmpty`). The receiver
  parses one message per step. A broadcast that ends for a receiver makes one
  FAST_DONE (`SsTell`); there are several broadcasts, so there may be several
  for one receiver.
- `LocalClients`: a request and its reply are one step, since the client waits for
  it; only READ may be answered later. WRT_REQ and PSH_REQ are two requests with
  an assertion each; a broadcast may be pushed again. A trashed connection is
  freed at any later time (`Delete`), whatever the pipes hold, as
  `thread_service.c:717-724` looks at the elapsed time only. One broadcast per
  application. The order of the messages in c2i is left open, because some pass
  the pipe n2c first and some do not. That another node pushes to this one is
  known from the start: such a push after a refused PULL is not modelled, nor a
  second READ on a connection that waits.
- `RecverState`: an `int` is signed and as wide as the unsigned values (`Int32`,
  `Word`): the length of the tail at `hero.c:155` may come out negative, and
  then there is no buffer.

### Environment and fairness

- A receiver may end during a transfer (`send`), a master's agent while its
  receivers are connected (`conns`), a reader of the send thread's messages at any
  time (`chan`). The agent under study runs on.
- The fast network may lose packets and does not reorder them; TCP loses
  nothing. The NIC sends what is in its ring.
- Weak fairness for each thread (a thread that can take a step takes one: the
  threads poll with a timeout and never block on each other, except in the
  busy waits that are modelled as guards), for receivers that are alive, and for
  time passing.
- Strong fairness where a thread finds something only if it looks at the right
  moment and looks for ever: the controller's grant among repeated
  postponements, the netmap thread's finding the rate limit to permit a
  packet, the ring empty or the last packet to mark. For the controller this is
  an assumption about a program outside the repository: it does not postpone
  the same push for ever.
- `NetmapPort`: the NIC does not refuse for ever to send what it has, and the
  rate limit, which grows with the time nothing was sent, does not refuse for
  ever. `MasterConns`: a socket selected for writing again and again is
  writable at some time, as the master's agent reads.
- `MulticastSend`: a packet of a stream that goes on reaches every receiver that
  lives, and a receiver that was told what it misses completes.
- `RecverState!Finishes` takes TCP to deliver every message. The run
  `chan_rest` shows when the agent itself holds one back.
- `LocalClients` owes clients nothing beyond that; the clients keep to a
  contract (`MayRead`, `MayWrite`, `MayDelete`, `MayLeave`: write once and push
  what was written, read after the master wrote, delete when all have joined and
  the transfer has ended, leave when all have deleted) that the code relies on
  without checking it. `Delete` is not tied to the pipes: the delay
  `FDSTATE_DELETE_TIMEOUT` may be too short, and the properties say what then
  happens (`OnlyOverdueEnds`).

## 3. Runs

| run | question | bounds | result |
|---|---|---|---|
| `recv` | Does a receiver recover from every pattern of losses, at every interleaving of its threads? | data of 1, 2, 4 and 5 packets, the last one short or full; two rounds of the stream; one packet in the NIC's ring | holds, 307,000 states |
| `recv_start` | Is `start` unknown at a wrap, as asserted? | one size, three rounds | violated |
| `recv_twice` | Is ALL_DONE sent once, as asserted? | one size | violated |
| `path` | One transfer at a time, ended when served, every push served, the path used like a lease? | three broadcasts, three pushes in all and up to two of one broadcast, two receivers for each push, calls may fail, an emptied ring may be overlooked | holds, 128,000 states |
| `send` | Is every receiver offered a whole round and released, even if one ends? | two receivers, one of which may end; one, two, three packets; the stream pauses at position 4 until its end is known | holds, 647,000 states |
| `chan` | Does one slow or dead receiver harm the other, do patches come once and in order, do priority messages fit? | two receivers, one unreliable; a queue of 3, half of which is 1; one request in all, the unreliable one's wraps to position 0 and is longer than half the queue, the other's wraps beyond; one pull and two FAST_DONEs for the unreliable one, one for the other | holds, 279,000 states |
| `chan_rest` | Is a partial message finished? | one receiver | violated |
| `app` | Are all readers answered, does the file live exactly as long as needed? | one application, a master and three executors, master here or elsewhere, pushed or not, early notification or not, pushes repeated | holds, 10,100 states |
| `app_own` | Is a client put under its own application? | two applications, three executors | violated |
| `port` | Do packets leave in order and with their own bytes, is the multicast dead only when it has left, is the host served? | rings of three and two slots, bursts of two, data of one and two packets, one kind of host packet, end known up to two packets ahead | holds, 109,000 states |
| `port_end` | Does a multicast whose end is known end? | the same | violated |
| `conns` | Does the list survive three threads, is every master connected and sent what is queued? | two masters, one of whose agents may end, two applications, two clients that join, five nodes | holds, 281,000 states |

Why the bounds are enough. *Data size*: five packets of two bytes leave room
for a first packet in the middle, a gap before and after it, a wrap with and
without packet zero, and a tail of more than one packet; a single packet and
two packets are the branches the code treats apart. *Rounds*: a receiver stops
after one round from its first packet, so the second is enough to lose the end
of the first. *Receivers*: the end of the stream compares two ends; a third
receiver repeats one of these comparisons. *Queue*: the capacities 200, 100 and
100 of the code are scaled to 3, 1 and 1. Patches stop at `Half + 1 = 2`
messages, so that one notice or pull more fills the queue. The unreliable
receiver gets three messages with priority: a pull may meet a full queue, and
when it stops reading or dies with its queue full, its second command stays at
the head of `ringCmd`, with the other's behind it. *Pushes*: with three, a broadcast can
be pushed again while it waits, while it is active, between its mark and its end,
and after it, each with another broadcast waiting.
*Rings*: with three slots tail can stand still, come
round exactly once, stop before, at and behind the last packet, and packets of
the host fit before and behind it; the proof covers every size. *Nodes*: two pipes
and three connections, so that a removed one has a neighbour on each side, is
the last, or is the only one; a connection made anew after its master has
ended takes the last node, where the model stops. *Checksums*: words are 2 bits
wide, so that a carry is added back, which may carry again.

Deadlock checking is off where a process may stop for good: a transfer that
has ended, an agent that has crashed, clients that have all left. A
thread that waits for ever violates the liveness property of the same run.

### What the violated runs show

1. `recv_start` (`thread_data.c:235`): a packet zero that is then refused has set
   `fileMetadata.start`; the next wrap fails an assertion.
2. `recv_twice` (`thread_send.c:341`): the last fast packet and the last patch
   are counted, then both threads find the sum complete; the sender gets two
   ALL_DONEs and fails an assertion.
3. `chan_rest` (`thread_send.c:167, 211`): a socket is selected for writing only
   while its queue is not empty, so the unsent rest of the last message waits
   for the next message. `thread_recv.c:49` and `thread_service.c:101` have the
   same condition.
4. `app_own` (`thread_service.c:561-568`): a client that joins an existing
   application is filed under the application created last.
5. `port_end` (`thread_data.c:655-657`): the tail that goes exactly once round
   the ring between two looks is taken for one that has not moved; unless other
   packets follow, the multicast is never dead and the path never given back.
   `QuietEnds` of the passing run says that nothing else keeps it alive except
   the host's packets behind the last one, the same comparison's other side.

Further weaknesses that the models show when a constant is changed; no run is
kept for them, the hazards in `PROJECT.json` give the lines:

- `RecverState` with `Word = 4` or `8`: a signed length of 32 bits loses the tail
  of 2 GiB and more (`hero.c:155`), a product of 32 bits gives a wrong start of
  the file for data beyond 4 GiB (`hero.c:173`); `FileReadOrder` is violated.
- `RecverState` with `StoreDelay = TRUE`: without a barrier the netmap thread may
  read `is_fastpath` before its lock is visible, and accept a packet that is then
  asked for again (`FastPathStaysClosed`, `CountsAreExact`).
- `PathService`: a second push of a broadcast finds the flags of the first
  (`hero.c:972`), is neither started nor ended and keeps the path. The run has
  such pushes, and `EveryPushServed` excepts them (`Excused`); without that it
  is violated. A push received between the mark of the last packet and the end
  adds receivers that nobody waits for: `EndsWhenServed` is about those of the
  pushes before the mark.
- `PathService`, `NmStamp`: `activeMulticast_p` may be cleared between lines 659
  and 660 of `thread_data.c`, and the process then follows NULL. The model has
  this end; no property excludes it.
- `PathService` as it is run, with calls that fail: a failed call counts as a
  grant, and a failed unpush leaves the path reserved. The lease is therefore
  claimed as long as agent and controller agree on who has it (`Agreed`).
- `MulticastSend`: a receiver that ends before its first report keeps the
  multicast going for ever (`thread_send.c:443`); `TransferEnds` excepts exactly
  this (`Silent`).
- `SendSocket`: FAST_DONEs leave `ringCmd` in the order they were made, and the
  first waits for room in its receiver's queue (`thread_send.c:139-145`). While
  that receiver does not read, no other one is told anything. When it has died
  it stays so for ever: its socket is taken off the list, so that nothing
  empties its queue, but its commands stay (`"TODO: delete ssock"`,
  `thread_send.c:445`). `OthersAreServed` therefore claims that the others get
  their patches and queued notices, and leave `ringCmd` unless its head is held
  up so (`HeldUp`); without this exception the run `chan` violates it.
- `SendSocket`, `MasterConns`: SIGPIPE ends the agent when a peer dies
  (`hero.c:519`); what is claimed ends there.
- `MasterConns` without its `clash`: a connection made while another is taken
  out is lost or hangs on freed memory, and a broadcast keeps a pointer to a
  connection that has been freed (`Survives`, `TableSpec`).
- `LocalClients` with `Orderly = FALSE`: a file removed under a reader, a file
  never removed, a pointer never assigned, and a reader of an application
  whose AppState was deleted and is found again in `hashApp`, who waits for
  ever (`FileKept`, `LastDeleteRemoves`, `OnlyOverdueEnds`, `EveryReadAnswered`).
- `LocalClients` as it is run: a report that is in the pipe when a client hangs
  up and is still there when the last connection is freed is logged to closed
  statistics (`crash = "stats"`). `OnlyOverdueEnds` says that this is the only
  way the process ends while the clients keep to the contract.

## 4. Proofs

Each theorem holds for every value of the constants that satisfies the module's
assumption, and under what the table adds. The runs check the same properties,
and the inductive invariants were checked with TLC before they were proved.

| module | theorem | says |
|---|---|---|
| `PathService_proofs` | `TypeCorrect` | `Spec => []TypeOK` |
| | `OneLiveMulticast` | `Spec => []OneLive`: at most one multicast is alive and it is the active one or about to be |
| | `AssertionHolds` | `Spec => []ReleaseAssert`: the assertion at `thread_data.c:658` cannot fail |
| | `EndsAfterItsOwn` | `Spec => EndsWhenServed`: the multicast that a release ends is the one whose last packet was marked and has left, with all receivers known at the mark served, pushes of others and second pushes included |
| | `LeaseImplemented` | `Spec => LeaseSpec`: the agent's use of the path refines `PathLease`, calls that fail included |
| `MulticastSend_proofs` | `TypeCorrect` | `Spec => []TypeOK`; the counts of reports never exceed the receivers |
| | `EveryEndIsAWholeRound` | `Spec => []WholeRound`: two stale reads of `seq_cur` still give each receiver a whole number of rounds |
| | `NobodyIsCutShort` | `Spec => []NobodyCutShort`: no last packet and no FAST_DONE before everybody's end |
| | `ToldOnceAndTruly` | `Spec => []AllSentIsTrue`: the client is told once, and truly, that all have the data |
| `NetmapPort_proofs` | `NothingIsLeftBehind` | `Spec => []DeadHasLeft`: a dead multicast has no packet in the NIC, for rings of any size |
| | `PacketsAreRight` | `Spec => []OwnBytes`: each packet has its own bytes and a valid checksum, whatever the size of the data and the width of a word |
| | `QueueImplemented` | `Spec => QueueSpec`: rings, indices and batches refine the queue of `TxQueue` |
| | `TypeCorrect` | `Spec => []TypeOK`: no index leaves its ring |
| `LocalClients_proofs` | `TypeCorrect`, `FileIsKept`, `LastRemoves` | `Spec => []TypeOK`, `[]FileKept`, `[]LastDeleteRemoves` for one application (`OneOrderlyApp`) with any number of clients that keep to the contract |
| | `EndsOnlyOverdue` | `Spec => []OnlyOverdueEnds`, likewise: whenever connections are freed, only a report that was late by the whole timeout can end the process |
| `RecverState_proofs` | `LossesAreRequested` | `Spec => []EveryLossRequested`: no loss is forgotten, whatever is lost of data up to 2 GiB and however the two threads interleave |
| | `PacketsCountOnce` | `Spec => []CountsAreExact`: the two counters that no lock protects count each packet once |
| | `PatchesFindTheirPlace` | `Spec => []PatchesAreReady`: none of the assertions on the order of patches can fail, for data up to 2 GiB |
| | `CompletionIsReached` | `Spec => []CompletionIsTrue`: completion is reported only when every packet is in the file |
| | `RestIsAskedOnce` | `Spec => FastPathStaysClosed`: after FAST_DONE has been handled no packet is accepted |
| `RecverFile_proofs` | `PacketsLieInPlace` | `Spec => []FInv`: every packet lies where its number says, in the file or in the tail buffer |
| | `FileIsTheData` | `Spec => []FileReadOrder`: a finished file, read in the order of `hero.h:104`, is the data, up to 2 GiB |
| | `RecverTypes` | `Spec => []TypeOK`: counters, lengths and offsets keep their bounds |
| `SendSocket_proofs` | `StreamsAreWhole` | `Spec => []SInv`: every byte on its way lies in a whole message, however TCP cuts it |
| | `ReadersStay` | `Spec => []StaysConnected`: no receiver meets a buffer full of an unfinished message |
| | `PriorityHasRoom` | `Spec => []PriorityFits`: when a message with priority finds no room, all but `Half + 1` of the messages in the queue are notices its receiver has not taken; patches alone never cause `abort()` |
| | `TypeCorrect` | `Spec => []TypeOK`: no send queue exceeds its capacity, no socket its buffer, no reader `RECVBUF_LEN`, and at most one message is sent in part |
| | `DeliveryImplemented` | `Spec => DeliverySpec`: rings, queue, partial writes and bytes refine the connection of `PatchDelivery` |
| `MasterConns_proofs` | `ConnsInvariant` | `Spec => []CInv`: without an overlap the list is whole and every thread's position in it good |
| | `NobodyFalls` | `Spec => []Survives`: nobody meets a node that is half linked, empty or freed, as long as there is no `clash` |
| | `MastersStay` | `Spec => []AppsConnected`: while all agents stay, every application has its connection |
| | `OverlapNeedsAnEnd` | `Spec => [](AllStay => ~clash)`: the threads disturb each other only after an agent has ended |
| | `TableImplemented` | `Spec => TableSpec`: the stores to the list refine the table of `ConnTable` |
| | `TypeCorrect` | `Spec => []TypeOK` |

**PathService.** `OneLive` is not inductive: it does not say when
`activeMulticast_p` may change or when a release may be pending. The inductive
invariant is `TypeOK` with `ThreadsInv`, whose parts say where the service thread
is when nothing is active (`ServiceInv`) and that a pending release belongs to an
active multicast that is in FULLRATE (`ReleaseInv`). The refinement adds
`GrantInv` (the holder of the grant, if agent and controller agree on it, is the
active multicast or the one being activated) and `RingInv` (packets in the ring
are the holder's). `EndsWhenServed` needs that the one flag for a release, which
nothing ties to a multicast, belongs to the active one (`MarkInv`). The order of the skiplist plays no part: `Inserted` is any
position, and only its type is used (`InsertedType`).

**MulticastSend.** That the end of the stream covers everybody cannot be read off
`seq_end` and `last`. The invariant `IInv` says which messages of a receiver are
under way (`Messages`: each thing once, the first packet first), what the send
thread knows of the report it handles (`InHand`: if the first read of `seq_cur`
put the packet in the present round, the round of the second read is later than
that of the first packet), that `n_first_seq` counts exactly the receivers whose
report was taken up, that `seq_end_max` covers every end computed so far and
`seq_end` is that maximum once all have reported (`KnownEnd`), and the same
counting for completion (`KnownDone`). The lemmas before it are about rounds:
`RoundsAfter` shows that the end computed at `hero.c:1000-1007` lies a positive
multiple of `seq_max` after the first packet. Counts are cardinalities; the step
from "all counted" to "everyone" is that of a finite set and a subset as large.

**NetmapPort.** The code knows three indices only: where the last packet was put
(`am_head`), where tail was at the last look (`am_tail`) and where it is now. The
invariant `Marks` says that while the release is pending either nothing of the
multicast is in the NIC's part of the ring or tail has not passed `am_head` since
`am_tail`, and every packet of the multicast lies no further than `am_head`
(`NotYet`). The lemmas `Ways`, `Onward`, `Back` and `Behind` are the arithmetic of
the way round a ring; with them the comparison at line 657 implies, in every
state of the loop, that the last packet has left. The converse fails: `port_end`.

What the rings hold is stated for the sequences they stand for. `TransmitSeq`,
`PutSeq`, `HostSendsSeq` and `MoveSeq` say what each operation on indices and slots
does to `InFlight` and `Pending`; the step simulation of `TxQueue` (`QueueSteps`)
and the invariant `Contents` (only packets of the host and packets with their own
bytes are in flight, only packets of the host wait) both follow from them.
`Reading` says that the file is at the packet to be sent, or at its end when that
is packet zero, which is when `fread` starts again; `Batches` bounds what is moved.
A header is valid because folding a sum gives its remainder modulo `Word - 1`,
from 1 on (`FoldIs`), so that a sum and its complement fold to `Word - 1`. This is an
induction over the sum: were the recursive `Fold` anything else for some sum,
there would be a least such sum (`Least`: the intervals below numbers are finite
sets, among which there is no endless descent).

**LocalClients.** The code compares two numbers, `delete_counter` and the
connections filed under the application. The invariant relates both to sets:
`Conns` (who is filed), `Tables` (an AppState exists from the first client on, is
open until the last one is freed), `Owners` and `Answers` (what a client was told
is so; a report in the pipe has its statistics open or is overdue), `Reported` (no
report on an application is sent once its clients hang up, so that those unread
when a connection is freed were unread when it was trashed; this is why only they
can end the process), and `Deleting` (once anybody has deleted, all have joined and nothing is
written any more; the counter is the number of those who have; the file is there
exactly until it reaches all). The last DEL_REQ is then recognised because a
subset of a finite set with as many members is that set. With two applications
`Conns` is false, which is `app_own`; so `OneOrderlyApp` is assumed and said in
each theorem.

**RecverState.** The theorems assume `~StoreDelay`, a store to the lock that the
other thread sees before it reads the flag; without it TLC violates
`FastPathStaysClosed` and `CountsAreExact` (section 3). They assume `AllFitInt`
too: twice the size of the data is at most `Word` (2^32), so that the `int` of
`hero.c:155` holds every length. A lost tail of more than 2 GiB has no buffer in
the code, and an assertion fails when its patches come. None of the
properties is inductive: "written or asked for" says nothing of what happens to a
request, and a patch that came twice would be counted twice. The invariant `RInv`
adds the way of a request. Its heart is `UnderWay`: what was asked for and is not
written is noted by the netmap thread, in the pipe, sent to the sender or on its
way back, in one of these places only and there once. `Requests` says what
requests look like, so that `PatchSeqsAre` (a request becomes the packets of its
cyclic interval) and the `Join` lemmas (a gap closes the span of the stream up to
the new packet) apply. `ZeroFirst` says that packets that cannot be placed
without packet zero come behind it on every queue; `Shape` relates the fields of
a `RecverState`; `Threads` says who may still accept a packet, by the lock, the
flag and whether the stream is complete; `Finished` carries completion from the
counters to the messages that tell of it. `RInv` takes each of its parts across
each of the actions; the arithmetic is that of division with
remainder (`DivMod`, `WholePackets`).

**The receiver's file.** `Layout` says where each packet lies: those from the
first one at the beginning, those before it from `Begin` on, those after a loss of
the last packets before a wrap in the tail buffer and, once all is there, behind
`End`; and that `start`, `tell` and `jump` are these places. That a finished file
is the data then is the argument that every byte is in one packet (`Extents`)
and the four cases of where that one lies. Here too `AllFitInt` is assumed, which
covers the unsigned product at `hero.c:173`; with a smaller `Word` the property is
false (section 3).

**SendSocket.** A receiver closes its connection when its buffer is full and the
message in it is not complete, so `StaysConnected` depends on every byte before.
`Framing` takes together what the receiver has in `recv_buf`, what TCP holds and
what the sender still has to send of the message in `remain`: in this stream every
byte lies in a whole message (`Whole`), and `expect` is the length in the header
at its beginning. Adding a message (`WholeMore`) and taking the first one away
(`WholeRest`) keep a stream whole; a partial write moves a boundary inside it
(`BytesJoin`). `Filling` says of each
queue that it keeps to its capacity and that what lies behind its first
`Half + 1` messages has priority: patches are refused from there on, and who
takes from the front only moves the others forward. With this a queue that is
full when a pull is rejected is full of notices but for those. `Partial` has
the other capacities, and says that a message sent in part lacks something.

What is due to a receiver is spread over the buffer of its reader, the bytes on
the wire, the message sent in part, the queue and both rings. `Due` puts them
together, and a byte counts as the message it is the last one of. `Gather`
collects what each element contributes; `GatherJoin` and its kin say that it can
be taken apart at any place, so that each step has only to show where the boundary
it moves was (`Change`): bytes that go from one place to the next (`SendDue`,
`ReadDue`), a packet that leaves its tuple for the queue (`InsertDue`), a notice
that leaves `ringCmd` (`CommandDue`), the first message taken by the reader
(`MessageDue`), which by `Whole` is all there and by `BytesAre` one piece.
`RingsOrdered`, that no element ends before it begins, is needed besides `SInv`:
only then is an element gone exactly when its packets are.

**MasterConns.** `Survives` says nothing of why a pointer is good. The invariant
`CInv` says, as long as there has been no `clash`, which nodes are in the list
(`Linked`: allocated, not about to be linked, not taken out), that they are linked
in the order of their allocation (`Forward`), and how far `prev` and `last` may be
behind: one store of the thread that adds or removes a node (`Backward`, `LastIs`).
`Searching` says that a node at which a thread is looking is linked and that no node
before it is the one it looks for, so that who reaches the end may add a node
(`Adding`) without connecting twice. A node added meanwhile would be missed; but
who adds one is alone (`Alone`), because the only threads that do are the two of
`Overlap`. `Pass` says that the receive thread's next node is still linked: only that
thread takes nodes out, and its next one is not the one it takes out. `Kept` is what
makes the receive thread's search succeed while all agents stay: `hashApp` gets an
application after its connection is linked (`Quiet`, hence `OverlapNeedsAnEnd`).
For the refinement the chain of next pointers must be computed. `Climbs` and
`Reaches` show that its places are the linked nodes in order, `ReachesAt` where it
ends; `NewChain` says that a function that follows the new pointers is the new chain,
so that `Connects` and `Leaves` have only to name it: the old one with a node more, or
with the places from the removed node on moved up by one. Statements about all places are
proved by the least place at which they would fail. A chain exists and is unique by
the same argument (`WalkExists`, `WalkUnique`). The assumption that `"pipe"` is neither a
master nor NULL only keeps the three kinds of `conn` apart.

Model-checked only: liveness (`EveryPushServed`, `TransferEnds`,
`Finishes`, `OthersAreServed`, `EveryReadAnswered`, `QuietEnds`, `HostServed`,
`AllSent`), which rests on fairness and is beyond this prover.

## 5. Not modelled

- `main.c`, `global.c`, `sys_util.c`: options, the creation of pipes and threads,
  then waiting. What an option decides is a constant of the model it matters to.
- Opening the NIC (`netmap_util.c`), the way from the NIC to the host's stack and
  the wrong-destination packets on it: device access, and each packet is handed
  on as it is.
- `msg.c` beyond headers and file positions: the layout of messages. The models
  keep the type, the length and what a message says.
- `dll.c` beyond push, remove and the loops over `rsockList`: the other lists have
  one user.
- `gen-c_glib`: generated RPC code; the controller behind it is external.
- In `LocalClients`: a second READ on a connection that waits for the first, and
  data pushed after a PULL for it was refused.
- Two overlapping updates of the metadata by both threads (`hero.c:128`): the update
  is one step. Two overlapping `recverState_finishRecv` are, as a choice between
  the death of the process and none.
- A PULL that overtakes the master's WRT_REQ (`thread_send.c:249`): the send thread
  then loops for ever on one message, and no state follows.
- What follows a `clash` in `MasterConns`: the heap's contents would decide.

## 6. Plan

Done: receiver, path, stream with receivers that end, connections to receivers and
to masters, way to the NIC, local clients; proofs for receiver and its file, path,
stream, connections to receivers and to masters, way to the NIC and local clients.

Next, in this order:

1. `MulticastSend` composed with one `RecverState` per receiver, which replaces
   the environment of either by the other;
2. `MulticastSend` as a refinement of the netmap half of `PathService`;
3. the update of the metadata in the two threads' own steps.
