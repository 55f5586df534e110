---------------------------- MODULE PathService ----------------------------
(***************************************************************************)
(* How a sending agent takes turns on the multicast path: the service      *)
(* thread (thread_service.c) queues pushes, asks the network controller    *)
(* for the path, activates one MulticastState at a time and gives the path *)
(* back; the netmap thread (thread_data.c) sends the active one and        *)
(* declares it dead once the NIC has taken the last packet.  The threads   *)
(* share activeMulticast_p, bcd_state and need_release_path without a lock.*)
(*                                                                         *)
(* Sequence numbers are left to MulticastSend: here a multicast is done    *)
(* when every receiver has reported its first packet.  The controller is   *)
(* external.                                                               *)
(***************************************************************************)
EXTENDS Integers, Sequences, FiniteSets, Skiplist

CONSTANTS
    Bcd,            \* the broadcasts (MulticastStates)
    None,           \* no MulticastState (NULL)
    Fanout,         \* receivers of a push (fan_out_effective)
    MaxPush,        \* bound: pushes of one broadcast
    MaxPushes,      \* bound: pushes of all broadcasts
    FirstFullrate,  \* first_first_seq_fullrate (config)
    CallsFail       \* may the call to the controller fail?

ASSUME PathAssumption ==
    /\ None \notin Bcd
    /\ Fanout \in Nat \ {0} /\ MaxPush \in Nat \ {0} /\ MaxPushes \in Nat
    /\ FirstFullrate \in BOOLEAN /\ CallsFail \in BOOLEAN

VARIABLES
    bcd_state,      \* MulticastState.bcd_state
    reached,        \* the receivers pushed to when packets were last sent;
                    \* 0 as long as n_packet_total is 0
    last,           \* is_tv_last_data & 0x10: the last packet is in the ring
    n_init,         \* receivers pushed to
    n_first,        \* n_first_seq: receivers that reported a first packet
    pushes,         \* MSG_PSH_REQs received
    marked,         \* history: n_init when the last packet was marked, 0 before
    active,         \* activeMulticast_p
    need_release,   \* need_release_path
    queue,          \* queuePush_p
    due,            \* tv_push has passed
    sv_pc, sv_m,    \* service thread: where it is, the request it popped
    nm_pc,          \* netmap thread: where it is
    ring,           \* the multicast with packets in the NIC ring
    overlooked,     \* history: was an emptied ring ever taken for a full one?
    granted,        \* external: what the controller has granted the path to
    crash           \* why the process ended, "no" while it runs

multi == <<bcd_state, reached, last, n_init, n_first, pushes, marked>>
service == <<active, queue, due, sv_pc, sv_m>>
netmap == <<need_release, nm_pc, ring, overlooked>>
vars == <<multi, service, netmap, granted, crash>>

BcdStates == {"DEAD", "INITIATED", "ATTEMPT", "FULLRATE"}
Running == crash = "no"

Init ==
    /\ bcd_state = [b \in Bcd |-> "DEAD"]
    /\ reached = [b \in Bcd |-> 0] /\ last = [b \in Bcd |-> FALSE]
    /\ n_init = [b \in Bcd |-> 0] /\ n_first = [b \in Bcd |-> 0]
    /\ pushes = [b \in Bcd |-> 0] /\ marked = [b \in Bcd |-> 0]
    /\ active = None /\ need_release = FALSE
    /\ queue = <<>> /\ due = [b \in Bcd |-> TRUE]
    /\ sv_pc = "release" /\ sv_m = None
    /\ nm_pc = "queued"
    /\ ring = None /\ overlooked = FALSE /\ granted = {} /\ crash = "no"

-----------------------------------------------------------------------------
(* The service thread.                                                     *)

(* A plausible slip: the path is given back whenever there is an active    *)
(* multicast.                                                              *)
SvReleaseAlive ==
    /\ Running /\ sv_pc = "release"
    /\ IF active # None
       THEN sv_pc' = "clear" /\ granted' = granted \ {active}
       ELSE sv_pc' = "request" /\ granted' = granted
    /\ UNCHANGED <<multi, active, queue, due, sv_m, netmap, crash>>

(* 115-149: a dead active multicast gives its path back.  When the call   *)
(* fails it is not tried again.                                            *)
SvRelease ==
    /\ Running /\ sv_pc = "release"
    /\ IF active # None /\ bcd_state[active] = "DEAD"
       THEN /\ sv_pc' = "clear"
            /\ \/ granted' = granted \ {active}
               \/ CallsFail /\ granted' = granted
       ELSE sv_pc' = "request" /\ granted' = granted
    /\ UNCHANGED <<multi, active, queue, due, sv_m, netmap, crash>>

(* It is no longer active (150).                                           *)
SvClear ==
    /\ Running /\ sv_pc = "clear"
    /\ active' = None
    /\ sv_pc' = "request"
    /\ UNCHANGED <<multi, queue, due, sv_m, netmap, granted, crash>>

(* Plausible slips: a request is taken out while a multicast is active;    *)
(* the request taken out is not kept.                                      *)
SvRequestBusy ==
    /\ Running /\ sv_pc = "request"
    /\ IF queue # <<>> /\ due[Head(queue)]
       THEN sv_pc' = "reply" /\ sv_m' = Head(queue) /\ queue' = Tail(queue)
       ELSE sv_pc' = "select" /\ UNCHANGED <<sv_m, queue>>
    /\ UNCHANGED <<multi, active, due, netmap, granted, crash>>
SvRequestForgets ==
    /\ Running /\ sv_pc = "request"
    /\ IF active = None /\ queue # <<>> /\ due[Head(queue)]
       THEN sv_pc' = "reply" /\ queue' = Tail(queue)
       ELSE sv_pc' = "select" /\ UNCHANGED queue
    /\ UNCHANGED <<multi, active, due, sv_m, netmap, granted, crash>>

(* 156-164: with no active multicast the head of the queue is taken out,   *)
(* if its time has come.                                                   *)
SvRequest ==
    /\ Running /\ sv_pc = "request"
    /\ IF active = None /\ queue # <<>> /\ due[Head(queue)]
       THEN sv_pc' = "reply" /\ sv_m' = Head(queue) /\ queue' = Tail(queue)
       ELSE sv_pc' = "select" /\ UNCHANGED <<sv_m, queue>>
    /\ UNCHANGED <<multi, active, due, netmap, granted, crash>>

(* A plausible slip: a postponed request is not queued again.              *)
SvPostponeDropped ==
    /\ Running /\ sv_pc = "reply"
    /\ due' = [due EXCEPT ![sv_m] = FALSE]
    /\ sv_pc' = "select" /\ sv_m' = None
    /\ UNCHANGED <<multi, active, queue, netmap, granted, crash>>

(* 257-268: denied or postponed (one falls through to the other), the      *)
(* request is tried again a second later.                                  *)
SvPostpone ==
    /\ Running /\ sv_pc = "reply"
    /\ due' = [due EXCEPT ![sv_m] = FALSE]
    /\ queue' \in Inserted(queue, sv_m)
    /\ sv_pc' = "select" /\ sv_m' = None
    /\ UNCHANGED <<multi, active, netmap, granted, crash>>

(* 269-272: the path is granted.                                           *)
SvGrant ==
    /\ Running /\ sv_pc = "reply"
    /\ granted' = granted \union {sv_m}
    /\ bcd_state' = [bcd_state EXCEPT ![sv_m] = "INITIATED"]
    /\ sv_pc' = "activate"
    /\ UNCHANGED <<reached, last, n_init, n_first, pushes, marked, active, queue, due, sv_m, netmap, crash>>

(* 219-224: the call fails; the reply object still holds its initial cmd,  *)
(* which is PUSH.                                                          *)
SvCallFails ==
    /\ Running /\ sv_pc = "reply" /\ CallsFail
    /\ granted' = granted
    /\ bcd_state' = [bcd_state EXCEPT ![sv_m] = "INITIATED"]
    /\ sv_pc' = "activate"
    /\ UNCHANGED <<reached, last, n_init, n_first, pushes, marked, active, queue, due, sv_m, netmap, crash>>

(* 273-274.                                                                *)
SvActivate ==
    /\ Running /\ sv_pc = "activate"
    /\ active' = sv_m
    /\ sv_pc' = "select" /\ sv_m' = None
    /\ UNCHANGED <<multi, queue, due, netmap, granted, crash>>

(* One round of select: nothing, or MSG_PSH_REQ for b (482-523), which     *)
(* adds receivers and queues b at once.                                    *)
SvIdle ==
    /\ Running /\ sv_pc = "select"
    /\ sv_pc' = "release"
    /\ UNCHANGED <<multi, active, queue, due, sv_m, netmap, granted, crash>>

SvPush(b) ==
    /\ Running /\ sv_pc = "select" /\ pushes[b] < MaxPush
    /\ Cardinality(UNION {{c} \X (1 .. pushes[c]) : c \in Bcd}) < MaxPushes
    /\ pushes' = [pushes EXCEPT ![b] = @ + 1]
    /\ n_init' = [n_init EXCEPT ![b] = @ + Fanout]
    /\ due' = [due EXCEPT ![b] = TRUE]
    /\ queue' \in Inserted(queue, b)
    /\ sv_pc' = "release"
    /\ UNCHANGED <<bcd_state, reached, last, n_first, marked, active, sv_m, netmap, granted, crash>>

(* A second passes for a postponed request.                                *)
Tick(b) ==
    /\ Running /\ ~due[b]
    /\ due' = [due EXCEPT ![b] = TRUE]
    /\ UNCHANGED <<multi, active, queue, sv_pc, sv_m, netmap, granted, crash>>

Service == \/ SvRelease \/ SvClear \/ SvRequest \/ SvPostpone \/ SvGrant \/ SvCallFails
           \/ SvActivate \/ SvIdle \/ \E b \in Bcd : SvPush(b)

-----------------------------------------------------------------------------
(* The netmap thread.                                                      *)

AllFirst(b) == n_first[b] = n_init[b]

(* bcd_state after the two upgrades of am_n_pkt_queued (371-382).  With    *)
(* FirstFullrate one first packet is enough, but it may have to come from  *)
(* another rack.                                                           *)
Upgrades(b) ==
    LET s == IF bcd_state[b] = "INITIATED" /\ reached[b] = 0 THEN "ATTEMPT" ELSE bcd_state[b]
    IN  {t \in {s, "FULLRATE"} :
            /\ t # s => s = "ATTEMPT" /\ (AllFirst(b) \/ (FirstFullrate /\ n_first[b] > 0))
            /\ t = "ATTEMPT" => ~AllFirst(b)}

(* The last packet of b is in the ring: 385-391 and 503-509.               *)
MarkLast(b) ==
    /\ last' = [last EXCEPT ![b] = TRUE]
    /\ need_release' = (need_release \/ ~last[b])
    /\ marked' = [marked EXCEPT ![b] = IF last[b] THEN @ ELSE n_init[b]]

(* am_n_pkt_queued(activeMulticast_p), line 593: is there something to     *)
(* send?  Whether seq_cur has reached seq_end is left open.                *)
NmQueued ==
    /\ Running /\ nm_pc = "queued"
    /\ IF active = None \/ bcd_state[active] = "DEAD"
       THEN /\ nm_pc' = "check"
            /\ UNCHANGED <<bcd_state, last, marked, need_release>>
       ELSE \E s \in Upgrades(active) :
            /\ bcd_state' = [bcd_state EXCEPT ![active] = s]
            /\ \/ /\ s = "FULLRATE" /\ AllFirst(active)
                  /\ MarkLast(active)
                  /\ nm_pc' = "check"
               \/ /\ nm_pc' = IF last[active] THEN "check" ELSE "move"
                  /\ UNCHANGED <<last, marked, need_release>>
    /\ UNCHANGED <<reached, n_init, n_first, pushes, service, ring, overlooked, granted, crash>>

(* The rate limit, a full ring or the host's own traffic come first.       *)
NmSkip ==
    /\ Running /\ nm_pc = "move"
    /\ nm_pc' = "check"
    /\ UNCHANGED <<multi, service, need_release, ring, overlooked, granted, crash>>

(* am_move(activeMulticast_p), line 629: packets enter the ring, the last  *)
(* one may be among them when all first packets are reported.              *)
NmMove ==
    /\ Running /\ nm_pc = "move"
    /\ nm_pc' = "check"
    /\ IF active = None \/ bcd_state[active] = "DEAD"
       THEN UNCHANGED <<reached, last, marked, need_release, ring>>
       ELSE /\ reached' = [reached EXCEPT ![active] = n_init[active]]
            /\ ring' = active
            /\ \/ AllFirst(active) /\ MarkLast(active)
               \/ UNCHANGED <<last, marked, need_release>>
    /\ UNCHANGED <<bcd_state, n_init, n_first, pushes, service, overlooked, granted, crash>>

(* The NIC takes the packets out of the ring.                              *)
Drain ==
    /\ Running /\ ring # None
    /\ ring' = None
    /\ UNCHANGED <<multi, service, need_release, nm_pc, overlooked, granted, crash>>

(* The active multicast is declared dead; there must be one (658-659).     *)
DeclareDead ==
    IF active = None
    THEN crash' = "assert" /\ UNCHANGED <<bcd_state, nm_pc>>
    ELSE /\ bcd_state' = [bcd_state EXCEPT ![active] = "DEAD"]
         /\ nm_pc' = "stamp" /\ crash' = crash
Undecided == nm_pc' = "queued" /\ UNCHANGED <<bcd_state, crash>>

(* A plausible slip: dead as soon as the last packet is in the ring.       *)
NmCheckEarly ==
    /\ Running /\ nm_pc = "check"
    /\ IF need_release THEN DeclareDead ELSE Undecided
    /\ UNCHANGED <<reached, last, n_init, n_first, pushes, marked, service, need_release, ring,
                   overlooked, granted>>

(* 652-665: once the ring has passed the last packet, the active multicast *)
(* is declared dead.  The test looks at the tail of the ring, which the    *)
(* host's packets move too: a tail they have carried round looks unmoved   *)
(* (NetmapPort!MulticastEnds), the end is overlooked and looked for again  *)
(* in the next round.                                                      *)
NmCheck ==
    /\ Running /\ nm_pc = "check"
    /\ \/ need_release /\ ring = None /\ DeclareDead /\ overlooked' = overlooked
       \/ need_release /\ ring = None /\ Undecided /\ overlooked' = TRUE
       \/ ~(need_release /\ ring = None) /\ Undecided /\ overlooked' = overlooked
    /\ UNCHANGED <<reached, last, n_init, n_first, pushes, marked, service, need_release, ring,
                   granted>>

(* A plausible slip: the request for release is not withdrawn.             *)
NmStampAgain ==
    /\ Running /\ nm_pc = "stamp"
    /\ IF active = None
       THEN crash' = "null" /\ nm_pc' = nm_pc
       ELSE nm_pc' = "queued" /\ crash' = crash
    /\ UNCHANGED <<multi, service, need_release, ring, overlooked, granted>>

(* 660-662: activeMulticast_p is read again, to record when the transfer   *)
(* ended; then the request for release is withdrawn.                       *)
NmStamp ==
    /\ Running /\ nm_pc = "stamp"
    /\ IF active = None
       THEN crash' = "null" /\ UNCHANGED <<need_release, nm_pc>>
       ELSE need_release' = FALSE /\ nm_pc' = "queued" /\ crash' = crash
    /\ UNCHANGED <<multi, service, ring, overlooked, granted>>

(* A receiver of b reports its first packet; the send thread counts it.    *)
(* The NIC may have sent packets the ring does not yet show as sent.       *)
FirstSeq(b) ==
    /\ Running /\ n_first[b] < reached[b]
    /\ n_first' = [n_first EXCEPT ![b] = @ + 1]
    /\ UNCHANGED <<bcd_state, reached, last, n_init, pushes, marked, service, netmap, granted, crash>>

Netmap == NmQueued \/ NmSkip \/ NmMove \/ NmCheck \/ NmStamp

-----------------------------------------------------------------------------
(* Reading through NULL ends the process.                                  *)
Crashed == ~Running /\ UNCHANGED vars

Next == \/ Service \/ Netmap \/ Drain \/ Crashed
        \/ \E b \in Bcd : Tick(b) \/ FirstSeq(b)

Spec == Init /\ [][Next]_vars

(* Threads and clock keep running, receivers of a cyclic stream report in  *)
(* the end, a controller that is asked again and again grants in the end,  *)
(* the rate limit lets packets out and seq_cur reaches seq_end.            *)
FairSpec ==
    /\ Spec
    /\ WF_vars(Service) /\ WF_vars(Netmap) /\ WF_vars(Drain)
    /\ SF_vars(NmMove) /\ SF_vars(NmMove /\ last' # last)
    /\ \A b \in Bcd : /\ WF_vars(Tick(b)) /\ WF_vars(FirstSeq(b))
                      /\ SF_vars(SvGrant /\ sv_m = b)

-----------------------------------------------------------------------------
(* Properties.                                                             *)

TypeOK ==
    /\ bcd_state \in [Bcd -> BcdStates]
    /\ reached \in [Bcd -> Nat] /\ last \in [Bcd -> BOOLEAN]
    /\ n_init \in [Bcd -> Nat] /\ n_first \in [Bcd -> Nat] /\ pushes \in [Bcd -> Nat]
    /\ marked \in [Bcd -> Nat] /\ overlooked \in BOOLEAN
    /\ active \in Bcd \union {None} /\ ring \in Bcd \union {None}
    /\ need_release \in BOOLEAN
    /\ queue \in Seq(Bcd) /\ due \in [Bcd -> BOOLEAN]
    /\ sv_pc \in {"release", "clear", "request", "reply", "activate", "select"}
    /\ sv_m \in Bcd \union {None} /\ (sv_pc \in {"reply", "activate"} => sv_m # None)
    /\ nm_pc \in {"queued", "move", "check", "stamp"}
    /\ granted \subseteq Bcd
    /\ crash \in {"no", "assert", "null"}

(* At most one multicast is alive, and it is the active one or the one the *)
(* service thread is about to make active: the threads, which share no     *)
(* lock, never start a second transfer beside a running one.               *)
OneLive ==
    \A b \in Bcd : bcd_state[b] # "DEAD" =>
        IF sv_pc = "activate" THEN active = None /\ b = sv_m ELSE b = active

(* The assertion of thread_data.c:658: when the ring has passed the last   *)
(* packet, the multicast it belongs to is still the active one.            *)
ReleaseAssert == crash # "assert"

(* need_release_path is one flag for all multicasts, and the one it ends   *)
(* is whichever is active when the flag is read.  It is the right one: its *)
(* own last packet was marked and has left, and every receiver of a push   *)
(* received before the mark has reported a first packet, and so been given *)
(* an end of its own.  A push received between the mark and the end is not *)
(* covered: its receivers are not waited for, here or in the code.         *)
EndsWhenServed ==
    [][\A b \in Bcd : bcd_state[b] # "DEAD" /\ bcd_state'[b] = "DEAD" =>
           last[b] /\ ring # b /\ marked[b] <= n_first[b]]_vars

(* Who the agent takes for the holder of the path, and whether that is     *)
(* what the controller has granted: not so after a call that failed.       *)
Expected ==
    IF sv_pc = "activate" THEN {sv_m}
    ELSE IF active # None /\ sv_pc # "clear" THEN {active} ELSE {}
Agreed == granted = Expected

(* As long as the two agree the grant is the lease of PathLease: one       *)
(* broadcast holds it, only the holder's packets are in the ring, and it   *)
(* is given back with the ring empty.  A call that fails ends the lease at *)
(* such a moment too, and only there does a new one begin.                 *)
Holder == IF Agreed /\ granted # {} THEN CHOOSE b \in granted : TRUE ELSE None

Lease == INSTANCE PathLease WITH
    holder <- Holder, wire <- IF Agreed THEN ring ELSE None

LeaseSpec == Lease!LSpec

InQueue(b) == \E i \in 1 .. Len(queue) : queue[i] = b

(* What the claim below leaves out: a process that ended; a ring whose end *)
(* was overlooked, perhaps for ever; and a second push of a broadcast, for *)
(* the last packet is marked once only: activated again, it never ends.    *)
Excused == ~Running \/ overlooked \/ \E b \in Bcd : pushes[b] > 1

(* Every push that was accepted is carried out and the path given back.    *)
EveryPushServed ==
    \A b \in Bcd : InQueue(b) ~>
        \/ Excused
        \/ bcd_state[b] = "DEAD" /\ AllFirst(b) /\ active # b /\ ~InQueue(b)
=============================================================================
