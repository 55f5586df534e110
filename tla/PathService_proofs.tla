------------------------ MODULE PathService_proofs ------------------------
(***************************************************************************)
(* Proofs about PathService for any broadcasts, any number of receivers    *)
(* and any number of pushes.                                               *)
(***************************************************************************)
EXTENDS PathService, TLAPS

-----------------------------------------------------------------------------
(* Types.                                                                  *)

(* An insertion keeps a queue of broadcasts a queue of broadcasts.         *)
LEMMA InsertedType ==
    ASSUME NEW q \in Seq(Bcd), NEW b \in Bcd, NEW r \in Inserted(q, b)
    PROVE  r \in Seq(Bcd)
<1>1. PICK k \in 1 .. (Len(q) + 1) :
        r = [i \in 1 .. (Len(q) + 1) |-> IF i < k THEN q[i] ELSE IF i = k THEN b ELSE q[i - 1]]
      BY DEF Inserted
<1>2. Len(q) \in Nat /\ DOMAIN q = 1 .. Len(q) /\ \A i \in 1 .. Len(q) : q[i] \in Bcd
      OBVIOUS
<1>3. ASSUME NEW i \in 1 .. (Len(q) + 1) PROVE r[i] \in Bcd
  <2>1. CASE i < k BY <1>1, <1>2, <2>1
  <2>2. CASE i = k BY <1>1, <2>2
  <2>3. CASE i > k
    <3>1. i - 1 \in 1 .. Len(q) BY <1>2, <2>3
    <3>2. r[i] = q[i - 1] BY <1>1, <2>3
    <3>3. QED BY <1>2, <3>1, <3>2
  <2>4. QED BY <1>2, <2>1, <2>2, <2>3
<1>4. r \in [1 .. (Len(q) + 1) -> Bcd] BY <1>1, <1>3
<1>5. QED BY <1>2, <1>4

(* The number of receivers noted with a mark is a number.                  *)
LEMMA MarkedType ==
    ASSUME NEW b \in Bcd, marked \in [Bcd -> Nat], n_init \in [Bcd -> Nat], MarkLast(b)
    PROVE  marked' \in [Bcd -> Nat]
<1>1. CASE last[b]
  <2>1. marked' = [marked EXCEPT ![b] = marked[b]] BY <1>1 DEF MarkLast
  <2>2. QED BY <2>1
<1>2. CASE ~last[b]
  <2>1. marked' = [marked EXCEPT ![b] = n_init[b]] BY <1>2 DEF MarkLast
  <2>2. QED BY <2>1
<1>3. QED BY <1>1, <1>2

(* Every variable keeps its type, and a request the service thread waits   *)
(* for an answer to is a broadcast.                                        *)
THEOREM TypeCorrect == Spec => []TypeOK
<1>1. Init => TypeOK
  <2> SUFFICES ASSUME Init PROVE TypeOK
      OBVIOUS
  <2>1. queue \in Seq(Bcd) BY DEF Init
  <2>2. /\ last \in [Bcd -> BOOLEAN] /\ due \in [Bcd -> BOOLEAN]
        /\ overlooked \in BOOLEAN
        BY ONLY Zenon, Init DEF Init
  <2>3. /\ bcd_state \in [Bcd -> BcdStates]
        /\ reached \in [Bcd -> Nat] /\ n_init \in [Bcd -> Nat]
        /\ n_first \in [Bcd -> Nat] /\ pushes \in [Bcd -> Nat]
        /\ marked \in [Bcd -> Nat]
        BY DEF Init, BcdStates
  <2>4. QED BY <2>1, <2>2, <2>3 DEF Init, TypeOK
<1>2. TypeOK /\ [Next]_vars => TypeOK'
  <2> SUFFICES ASSUME TypeOK, [Next]_vars PROVE TypeOK'
      OBVIOUS
  <2> USE DEF TypeOK, BcdStates, multi, service, netmap
  <2>1. SvRelease => TypeOK' BY DEF SvRelease
  <2>2. SvClear => TypeOK' BY DEF SvClear
  <2>3. SvRequest => TypeOK'
    <3> SUFFICES ASSUME SvRequest PROVE TypeOK'
        OBVIOUS
    <3>1. CASE active = None /\ queue # <<>> /\ due[Head(queue)]
      <4>1. Head(queue) \in Bcd /\ Tail(queue) \in Seq(Bcd) BY <3>1
      <4>2. sv_pc' = "reply" /\ sv_m' = Head(queue) /\ queue' = Tail(queue)
            BY <3>1 DEF SvRequest
      <4>3. QED BY <4>1, <4>2, PathAssumption DEF SvRequest
    <3>2. CASE ~(active = None /\ queue # <<>> /\ due[Head(queue)])
      <4>1. sv_pc' = "select" /\ sv_m' = sv_m /\ queue' = queue BY <3>2 DEF SvRequest
      <4>2. QED BY <4>1 DEF SvRequest
    <3>3. QED BY <3>1, <3>2
  <2>4. SvPostpone => TypeOK'
    <3> SUFFICES ASSUME SvPostpone PROVE TypeOK'
        OBVIOUS
    <3>1. sv_m \in Bcd BY DEF SvPostpone
    <3>2. queue' \in Seq(Bcd) BY <3>1, InsertedType DEF SvPostpone
    <3>3. QED BY <3>1, <3>2 DEF SvPostpone
  <2>5. SvGrant => TypeOK' BY DEF SvGrant
  <2>6. SvCallFails => TypeOK' BY DEF SvCallFails
  <2>7. SvActivate => TypeOK' BY DEF SvActivate
  <2>8. SvIdle => TypeOK' BY DEF SvIdle
  <2>9. ASSUME NEW b \in Bcd, SvPush(b) PROVE TypeOK'
    <3>1. queue' \in Seq(Bcd) BY <2>9, InsertedType DEF SvPush
    <3>2. pushes' \in [Bcd -> Nat] /\ n_init' \in [Bcd -> Nat] BY <2>9, PathAssumption DEF SvPush
    <3>3. due' \in [Bcd -> BOOLEAN] BY <2>9 DEF SvPush
    <3>4. QED BY <2>9, <3>1, <3>2, <3>3 DEF SvPush
  <2>10. NmQueued => TypeOK'
    <3> SUFFICES ASSUME NmQueued PROVE TypeOK'
        OBVIOUS
    <3>1. bcd_state' \in [Bcd -> BcdStates] BY DEF NmQueued, Upgrades
    <3>2. last' \in [Bcd -> BOOLEAN] /\ need_release' \in BOOLEAN
          BY DEF NmQueued, MarkLast
    <3>3. marked' \in [Bcd -> Nat]
      <4>1. marked' = marked \/ (active \in Bcd /\ MarkLast(active)) BY DEF NmQueued
      <4>2. QED BY <4>1, MarkedType
    <3>4. nm_pc' \in {"queued", "move", "check", "stamp"} BY DEF NmQueued
    <3>5. QED BY <3>1, <3>2, <3>3, <3>4 DEF NmQueued
  <2>11. NmSkip => TypeOK' BY DEF NmSkip
  <2>12. NmMove => TypeOK' BY DEF NmMove, MarkLast
  <2>13. NmCheck => TypeOK' BY DEF NmCheck, DeclareDead, Undecided
  <2>14. NmStamp => TypeOK' BY DEF NmStamp
  <2>15. Drain => TypeOK' BY DEF Drain
  <2>16. ASSUME NEW b \in Bcd, Tick(b) PROVE TypeOK' BY <2>16 DEF Tick
  <2>17. ASSUME NEW b \in Bcd, FirstSeq(b) PROVE TypeOK' BY <2>17 DEF FirstSeq
  <2>18. UNCHANGED vars => TypeOK' BY DEF vars
  <2>19. QED
    <3> HIDE DEF TypeOK
    <3> QED BY <2>1, <2>2, <2>3, <2>4, <2>5, <2>6, <2>7, <2>8, <2>9, <2>10, <2>11, <2>12,
               <2>13, <2>14, <2>15, <2>16, <2>17, <2>18 DEF Next, Service, Netmap, Crashed
<1>3. QED BY <1>1, <1>2, PTL DEF Spec

-----------------------------------------------------------------------------
(* One live multicast.                                                     *)

(* What the two threads know of each other without a lock.  The service    *)
(* thread replaces activeMulticast_p only while it is NULL and clears it   *)
(* only when the multicast is dead; the netmap thread wants the path       *)
(* released only while the active multicast is alive, until it has         *)
(* declared it dead.                                                       *)
ServiceInv ==
    /\ sv_pc \in {"reply", "activate"} => active = None
    /\ sv_pc = "clear" => active # None /\ bcd_state[active] = "DEAD"

ReleaseInv == need_release /\ nm_pc # "stamp" => active # None /\ bcd_state[active] # "DEAD"

ThreadsInv == OneLive /\ ServiceInv /\ ReleaseInv /\ ReleaseAssert

IInv == TypeOK /\ ThreadsInv

LEMMA InductiveInvariant == Spec => []IInv
<1>1. Init => ThreadsInv
      BY DEF Init, ThreadsInv, OneLive, ServiceInv, ReleaseInv, ReleaseAssert
<1>2. TypeOK /\ ThreadsInv /\ [Next]_vars => ThreadsInv'
  <2> SUFFICES ASSUME TypeOK, ThreadsInv, [Next]_vars PROVE ThreadsInv'
      OBVIOUS
  <2>0. /\ bcd_state \in [Bcd -> BcdStates] /\ None \notin Bcd
        /\ active \in Bcd \union {None} /\ sv_m \in Bcd \union {None}
        /\ sv_pc \in {"reply", "activate"} => sv_m # None
        BY PathAssumption DEF TypeOK
  <2> USE <2>0 DEF BcdStates, ThreadsInv, OneLive, ServiceInv, ReleaseInv, ReleaseAssert,
          multi, service, netmap
  <2>1. SvRelease => ThreadsInv' BY DEF SvRelease
  <2>2. SvClear => ThreadsInv' BY DEF SvClear
  <2>3. SvRequest => ThreadsInv' BY DEF SvRequest
  <2>4. SvPostpone => ThreadsInv' BY DEF SvPostpone
  <2>5. SvGrant => ThreadsInv' BY DEF SvGrant
  <2>6. SvCallFails => ThreadsInv' BY DEF SvCallFails
  <2>7. SvActivate => ThreadsInv' BY DEF SvActivate
  <2>8. SvIdle => ThreadsInv' BY DEF SvIdle
  <2>9. ASSUME NEW b \in Bcd, SvPush(b) PROVE ThreadsInv' BY <2>9 DEF SvPush
  <2>10. NmQueued => ThreadsInv' BY DEF NmQueued, Upgrades, MarkLast
  <2>11. NmSkip => ThreadsInv' BY DEF NmSkip
  <2>12. NmMove => ThreadsInv' BY DEF NmMove, MarkLast
  <2>13. NmCheck => ThreadsInv' BY DEF NmCheck, DeclareDead, Undecided
  <2>14. NmStamp => ThreadsInv' BY DEF NmStamp
  <2>15. Drain => ThreadsInv' BY DEF Drain
  <2>16. ASSUME NEW b \in Bcd, Tick(b) PROVE ThreadsInv' BY <2>16 DEF Tick
  <2>17. ASSUME NEW b \in Bcd, FirstSeq(b) PROVE ThreadsInv' BY <2>17 DEF FirstSeq
  <2>18. UNCHANGED vars => ThreadsInv' BY DEF vars
  <2>19. QED
    <3> HIDE DEF ThreadsInv
    <3> QED BY <2>1, <2>2, <2>3, <2>4, <2>5, <2>6, <2>7, <2>8, <2>9, <2>10, <2>11, <2>12,
               <2>13, <2>14, <2>15, <2>16, <2>17, <2>18 DEF Next, Service, Netmap, Crashed
<1>3. QED BY <1>1, <1>2, TypeCorrect, PTL DEF Spec, IInv

(* The service thread and the netmap thread, which share activeMulticast_p *)
(* and bcd_state without a lock, never run two transfers at a time.        *)
THEOREM OneLiveMulticast == Spec => []OneLive
BY InductiveInvariant, PTL DEF IInv, ThreadsInv

(* The assertion of thread_data.c:658 cannot fail, in whatever order the   *)
(* steps of the two threads happen: it is only the lines after it that     *)
(* are not safe.                                                           *)
THEOREM AssertionHolds == Spec => []ReleaseAssert
BY InductiveInvariant, PTL DEF IInv, ThreadsInv

-----------------------------------------------------------------------------
(* A multicast ends after its own last packet.                             *)

(* A standing request for release is the active multicast's; whoever       *)
(* reported a first packet before the mark stays counted.                  *)
MarkInv ==
    /\ need_release /\ nm_pc # "stamp" => last[active]
    /\ \A b \in Bcd : last[b] => marked[b] <= n_first[b]

LEMMA MarkInvariant == Spec => []MarkInv
<1>1. Init => MarkInv
      BY DEF Init, MarkInv
<1>2. IInv /\ MarkInv /\ [Next]_vars => MarkInv'
  <2> SUFFICES ASSUME IInv, MarkInv, [Next]_vars PROVE MarkInv'
      OBVIOUS
  <2>0. /\ bcd_state \in [Bcd -> BcdStates] /\ None \notin Bcd
        /\ active \in Bcd \union {None} /\ sv_m \in Bcd \union {None}
        /\ n_init \in [Bcd -> Nat] /\ n_first \in [Bcd -> Nat] /\ marked \in [Bcd -> Nat]
        /\ last \in [Bcd -> BOOLEAN]
        /\ ServiceInv /\ ReleaseInv
        BY PathAssumption DEF IInv, ThreadsInv, TypeOK
  <2> USE <2>0 DEF BcdStates, ServiceInv, ReleaseInv, MarkInv, multi, service, netmap
  <2>1. SvRelease => MarkInv' BY DEF SvRelease
  <2>2. SvClear => MarkInv' BY DEF SvClear
  <2>3. SvRequest => MarkInv' BY DEF SvRequest
  <2>4. SvPostpone => MarkInv' BY DEF SvPostpone
  <2>5. SvGrant => MarkInv' BY DEF SvGrant
  <2>6. SvCallFails => MarkInv' BY DEF SvCallFails
  <2>7. SvActivate => MarkInv' BY DEF SvActivate
  <2>8. SvIdle => MarkInv' BY DEF SvIdle
  <2>9. ASSUME NEW b \in Bcd, SvPush(b) PROVE MarkInv' BY <2>9 DEF SvPush
  <2>10. ASSUME active \in Bcd, AllFirst(active), MarkLast(active), n_first' = n_first,
                active' = active
         PROVE  MarkInv'
         BY <2>10 DEF MarkLast, AllFirst
  <2>11. NmQueued => MarkInv'
    <3> SUFFICES ASSUME NmQueued PROVE MarkInv'
        OBVIOUS
    <3>1. n_first' = n_first /\ active' = active /\ nm_pc = "queued" BY DEF NmQueued
    <3>2. CASE last' = last /\ marked' = marked /\ need_release' = need_release
          BY <3>1, <3>2
    <3>3. CASE active \in Bcd /\ AllFirst(active) /\ MarkLast(active)
          BY <3>1, <3>3, <2>10
    <3>4. QED BY <3>2, <3>3 DEF NmQueued
  <2>12. NmMove => MarkInv'
    <3> SUFFICES ASSUME NmMove PROVE MarkInv'
        OBVIOUS
    <3>1. n_first' = n_first /\ active' = active /\ nm_pc = "move" BY DEF NmMove
    <3>2. CASE last' = last /\ marked' = marked /\ need_release' = need_release
          BY <3>1, <3>2
    <3>3. CASE active \in Bcd /\ AllFirst(active) /\ MarkLast(active)
          BY <3>1, <3>3, <2>10
    <3>4. QED BY <3>2, <3>3 DEF NmMove
  <2>13. NmSkip => MarkInv' BY DEF NmSkip
  <2>14. NmCheck => MarkInv' BY DEF NmCheck, DeclareDead, Undecided
  <2>15. NmStamp => MarkInv' BY DEF NmStamp
  <2>16. Drain => MarkInv' BY DEF Drain
  <2>17. ASSUME NEW b \in Bcd, Tick(b) PROVE MarkInv' BY <2>17 DEF Tick
  <2>18. ASSUME NEW b \in Bcd, FirstSeq(b) PROVE MarkInv' BY <2>18 DEF FirstSeq
  <2>19. UNCHANGED vars => MarkInv' BY DEF vars
  <2>20. QED
    <3> HIDE DEF MarkInv
    <3> QED BY <2>1, <2>2, <2>3, <2>4, <2>5, <2>6, <2>7, <2>8, <2>9, <2>11, <2>12,
               <2>13, <2>14, <2>15, <2>16, <2>17, <2>18, <2>19
            DEF Next, Service, Netmap, Crashed
<1>3. QED BY <1>1, <1>2, InductiveInvariant, PTL DEF Spec

(* The flag need_release_path never ends another multicast than the one    *)
(* whose last packet raised it, and not before that packet has left and    *)
(* every receiver pushed to before the mark has reported, however the two  *)
(* threads, second pushes and overlooked ends interleave.                  *)
THEOREM EndsAfterItsOwn == Spec => EndsWhenServed
<1> DEFINE Served ==
        \A b \in Bcd : bcd_state[b] # "DEAD" /\ bcd_state'[b] = "DEAD" =>
            last[b] /\ ring # b /\ marked[b] <= n_first[b]
<1>1. IInv /\ MarkInv /\ [Next]_vars => Served
  <2> SUFFICES ASSUME IInv, MarkInv, [Next]_vars PROVE Served
      OBVIOUS
  <2>0. /\ bcd_state \in [Bcd -> BcdStates] /\ None \notin Bcd
        /\ active \in Bcd \union {None}
        BY PathAssumption DEF IInv, ThreadsInv, TypeOK
  <2> USE <2>0 DEF BcdStates, multi, service, netmap
  <2>1. NmCheck => Served BY DEF NmCheck, DeclareDead, Undecided, MarkInv
  <2>2. SvGrant \/ SvCallFails => Served BY DEF SvGrant, SvCallFails
  <2>3. NmQueued => Served BY DEF NmQueued, Upgrades
  <2>4. bcd_state' = bcd_state => Served
        OBVIOUS
  <2>5. SvRelease \/ SvClear \/ SvRequest \/ SvPostpone \/ SvActivate \/ SvIdle
        \/ NmSkip \/ NmMove \/ NmStamp \/ Drain \/ UNCHANGED vars => bcd_state' = bcd_state
        BY DEF SvRelease, SvClear, SvRequest, SvPostpone, SvActivate, SvIdle, NmSkip, NmMove,
               NmStamp, Drain, vars
  <2>6. ASSUME NEW b \in Bcd, SvPush(b) \/ Tick(b) \/ FirstSeq(b)
        PROVE  bcd_state' = bcd_state
        BY <2>6 DEF SvPush, Tick, FirstSeq
  <2>7. QED
    <3> HIDE DEF Served
    <3> QED BY <2>1, <2>2, <2>3, <2>4, <2>5, <2>6 DEF Next, Service, Netmap, Crashed
<1>2. QED BY <1>1, InductiveInvariant, MarkInvariant, PTL DEF Spec, EndsWhenServed

-----------------------------------------------------------------------------
(* The controller's grants are a lease.                                    *)

(* What is in the NIC ring belongs to the live active multicast.           *)
RingInv == ring # None => ring = active /\ bcd_state[active] # "DEAD"

LEMMA RingInvariant == Spec => []RingInv
<1>1. Init => RingInv
      BY DEF Init, RingInv
<1>2. IInv /\ RingInv /\ [Next]_vars => RingInv'
  <2> SUFFICES ASSUME IInv, RingInv, [Next]_vars PROVE RingInv'
      OBVIOUS
  <2>0. /\ bcd_state \in [Bcd -> BcdStates] /\ None \notin Bcd
        /\ active \in Bcd \union {None} /\ sv_m \in Bcd \union {None}
        /\ sv_pc \in {"reply", "activate"} => sv_m # None
        /\ OneLive /\ ServiceInv
        BY PathAssumption DEF IInv, ThreadsInv, TypeOK
  <2> USE <2>0 DEF BcdStates, OneLive, ServiceInv, RingInv, multi, service, netmap
  <2>1. SvRelease => RingInv' BY DEF SvRelease
  <2>2. SvClear => RingInv' BY DEF SvClear
  <2>3. SvRequest => RingInv' BY DEF SvRequest
  <2>4. SvPostpone => RingInv' BY DEF SvPostpone
  <2>5. SvGrant => RingInv' BY DEF SvGrant
  <2>6. SvCallFails => RingInv' BY DEF SvCallFails
  <2>7. SvActivate => RingInv' BY DEF SvActivate
  <2>8. SvIdle => RingInv' BY DEF SvIdle
  <2>9. ASSUME NEW b \in Bcd, SvPush(b) PROVE RingInv' BY <2>9 DEF SvPush
  <2>10. NmQueued => RingInv' BY DEF NmQueued, Upgrades, MarkLast
  <2>11. NmSkip => RingInv' BY DEF NmSkip
  <2>12. NmMove => RingInv' BY DEF NmMove, MarkLast
  <2>13. NmCheck => RingInv' BY DEF NmCheck, DeclareDead, Undecided
  <2>14. NmStamp => RingInv' BY DEF NmStamp
  <2>15. Drain => RingInv' BY DEF Drain
  <2>16. ASSUME NEW b \in Bcd, Tick(b) PROVE RingInv' BY <2>16 DEF Tick
  <2>17. ASSUME NEW b \in Bcd, FirstSeq(b) PROVE RingInv' BY <2>17 DEF FirstSeq
  <2>18. UNCHANGED vars => RingInv' BY DEF vars
  <2>19. QED
    <3> HIDE DEF RingInv
    <3> QED BY <2>1, <2>2, <2>3, <2>4, <2>5, <2>6, <2>7, <2>8, <2>9, <2>10, <2>11, <2>12,
               <2>13, <2>14, <2>15, <2>16, <2>17, <2>18 DEF Next, Service, Netmap, Crashed
<1>3. QED BY <1>1, <1>2, InductiveInvariant, PTL DEF Spec

(* The holder, and what is on the wire, in PathLease's terms.              *)
HolderNow ==
    IF ~Agreed \/ sv_pc = "clear" THEN None
    ELSE IF sv_pc = "activate" THEN sv_m ELSE active
WireNow == IF Agreed THEN ring ELSE None

LEMMA HolderOf ==
    Holder = HolderNow
<1>1. ASSUME NEW x, granted = {x} PROVE (CHOOSE b \in granted : TRUE) = x
      BY <1>1
<1>2. CASE Agreed
  <2>1. CASE sv_pc = "activate"
    <3>1. granted = {sv_m} BY <1>2, <2>1 DEF Agreed, Expected
    <3>2. QED BY <1>1, <1>2, <2>1, <3>1 DEF Holder, HolderNow
  <2>2. CASE sv_pc # "activate" /\ active # None /\ sv_pc # "clear"
    <3>1. granted = {active} BY <1>2, <2>2 DEF Agreed, Expected
    <3>2. QED BY <1>1, <1>2, <2>2, <3>1 DEF Holder, HolderNow
  <2>3. CASE sv_pc # "activate" /\ (active = None \/ sv_pc = "clear")
    <3>1. granted = {} BY <1>2, <2>3 DEF Agreed, Expected
    <3>2. QED BY <1>2, <2>3, <3>1 DEF Holder, HolderNow
  <2>4. QED BY <2>1, <2>2, <2>3
<1>3. CASE ~Agreed BY <1>3 DEF Holder, HolderNow
<1>4. QED BY <1>2, <1>3

(* What a step of the lease is, in these terms.                            *)
LEMMA LeaseSteps ==
    /\ (\E b \in Bcd : HolderNow = None /\ WireNow = None /\ HolderNow' = b /\ WireNow' = WireNow)
       => Lease!LNext
    /\ HolderNow # None /\ WireNow' = HolderNow /\ HolderNow' = HolderNow => Lease!LNext
    /\ WireNow # None /\ WireNow' = None /\ HolderNow' = HolderNow => Lease!LNext
    /\ HolderNow # None /\ WireNow = None /\ HolderNow' = None /\ WireNow' = WireNow
       => Lease!LNext
    /\ HolderNow' = HolderNow /\ WireNow' = WireNow => UNCHANGED Lease!lvars
<1>1. Holder = HolderNow BY HolderOf
<1>2. (Holder = HolderNow)' BY HolderOf, PTL
<1>3. QED BY <1>1, <1>2 DEF WireNow, Lease!LNext, Lease!Acquire, Lease!Send, Lease!Drain,
                      Lease!Release, Lease!lvars

(* As long as the agent and the controller agree on who holds the path,    *)
(* whatever calls fail before and after, the agent uses it as PathLease    *)
(* says: it asks for it when nothing of its own is on the wire, sends the  *)
(* holder's packets only, and gives it back when the last one has left.    *)
THEOREM LeaseImplemented == Spec => LeaseSpec
<1>1. Init => Lease!LInit
      BY DEF Init, Lease!LInit, Holder, Agreed, Expected
<1>2. IInv /\ RingInv /\ [Next]_vars => [Lease!LNext]_(Lease!lvars)
  <2> SUFFICES ASSUME IInv, RingInv, [Next]_vars
               PROVE  Lease!LNext \/ UNCHANGED Lease!lvars
      OBVIOUS
  <2>0. /\ bcd_state \in [Bcd -> BcdStates] /\ None \notin Bcd
        /\ active \in Bcd \union {None} /\ sv_m \in Bcd \union {None}
        /\ sv_pc \in {"reply", "activate"} => sv_m # None
        /\ OneLive /\ ServiceInv /\ RingInv
        BY PathAssumption DEF IInv, ThreadsInv, TypeOK
  <2> USE <2>0, LeaseSteps DEF BcdStates, OneLive, ServiceInv, RingInv, multi, service, netmap,
          HolderNow, WireNow, Agreed, Expected
  <2>1. CASE SvRelease
    <3>1. CASE active # None /\ bcd_state[active] = "DEAD"
      <4>1. ring = None BY <3>1
      <4>2. HolderNow' = None /\ WireNow = None /\ WireNow' = None
            BY <2>1, <3>1, <4>1 DEF SvRelease
      <4>3. QED BY ONLY <4>2, LeaseSteps
    <3>2. CASE ~(active # None /\ bcd_state[active] = "DEAD")
      <4>1. HolderNow' = HolderNow /\ WireNow' = WireNow BY <2>1, <3>2 DEF SvRelease
      <4>2. QED BY ONLY <4>1, LeaseSteps
    <3>3. QED BY <3>1, <3>2
  <2>2. CASE SvGrant \/ SvCallFails
    <3>1. active = None /\ ring = None /\ sv_pc = "reply" /\ sv_m \in Bcd
          BY <2>2 DEF SvGrant, SvCallFails
    <3>2. HolderNow = None /\ WireNow = None /\ WireNow' = None
          BY <2>2, <3>1 DEF SvGrant, SvCallFails
    <3>3. HolderNow' \in {sv_m, None}
          BY <2>2 DEF SvGrant, SvCallFails
    <3>4. QED BY ONLY <3>1, <3>2, <3>3, LeaseSteps
  <2>3. CASE NmMove
    <3>1. CASE active = None \/ bcd_state[active] = "DEAD"
      <4>1. HolderNow' = HolderNow /\ WireNow' = WireNow BY <2>3, <3>1 DEF NmMove
      <4>2. QED BY ONLY <4>1, LeaseSteps
    <3>2. CASE ~(active = None \/ bcd_state[active] = "DEAD")
      <4>1. HolderNow' = HolderNow BY <2>3 DEF NmMove
      <4>2. Agreed => HolderNow = active BY <3>2
      <4>3. Agreed' = Agreed /\ ring' = active BY <2>3, <3>2 DEF NmMove
      <4>4. CASE Agreed
        <5>1. HolderNow # None /\ WireNow' = HolderNow BY <3>2, <4>2, <4>3, <4>4
        <5>2. QED BY ONLY <4>1, <5>1, LeaseSteps
      <4>5. CASE ~Agreed
        <5>1. WireNow' = WireNow BY <4>3, <4>5
        <5>2. QED BY ONLY <4>1, <5>1, LeaseSteps
      <4>6. QED BY <4>4, <4>5
    <3>3. QED BY <3>1, <3>2
  <2>4. CASE Drain
    <3>1. HolderNow' = HolderNow /\ WireNow' = None BY <2>4 DEF Drain
    <3>2. QED BY ONLY <3>1, LeaseSteps
  <2>5. CASE SvClear \/ SvRequest \/ SvPostpone \/ SvActivate \/ SvIdle
    <3>1. HolderNow' = HolderNow /\ WireNow' = WireNow
          BY <2>5 DEF SvClear, SvRequest, SvPostpone, SvActivate, SvIdle
    <3>2. QED BY ONLY <3>1, LeaseSteps
  <2>6. ASSUME NEW b \in Bcd, SvPush(b) \/ Tick(b) \/ FirstSeq(b)
        PROVE  Lease!LNext \/ UNCHANGED Lease!lvars
    <3>1. HolderNow' = HolderNow /\ WireNow' = WireNow
          BY <2>6 DEF SvPush, Tick, FirstSeq
    <3>2. QED BY ONLY <3>1, LeaseSteps
  <2>7. CASE NmQueued \/ NmSkip \/ NmCheck \/ NmStamp
    <3>1. HolderNow' = HolderNow /\ WireNow' = WireNow
          BY <2>7 DEF NmQueued, NmSkip, NmCheck, NmStamp, DeclareDead, Undecided
    <3>2. QED BY ONLY <3>1, LeaseSteps
  <2>8. CASE UNCHANGED vars
    <3>1. HolderNow' = HolderNow /\ WireNow' = WireNow
          BY <2>8 DEF vars
    <3>2. QED BY ONLY <3>1, LeaseSteps
  <2>9. QED BY ONLY [Next]_vars, <2>1, <2>2, <2>3, <2>4, <2>5, <2>6, <2>7, <2>8
             DEF Next, Service, Netmap, Crashed
<1>3. QED BY <1>1, <1>2, InductiveInvariant, RingInvariant, PTL DEF Spec, LeaseSpec, Lease!LSpec
=============================================================================
