---------------------------- MODULE LocalClients ----------------------------
(* The service thread's local side (thread_service.c): the executors and   *)
(* masters of Spark applications connect over a Unix domain socket, name   *)
(* their application, read or write its broadcast data, delete it and      *)
(* leave.  The netmap and the receive thread create and fill RecverState   *)
(* behind the service thread's back and tell it through the pipe c2i.      *)
(*                                                                         *)
(* One broadcast per application stands for its data, so an application    *)
(* is also the key of hashRecver and hashMulticast.  A request is one step *)
(* with its reply: the client waits for it.  READ is the exception, whose  *)
(* reply may come much later.                                              *)
EXTENDS Naturals, FiniteSets

CONSTANTS
    App,        \* applications
    Uds,        \* connections, each of one client that connects once
    Master,     \* those of them with executor_id = MASTER_EXECUTOR_ID
    AppOf,      \* the application of a connection's client
    None,       \* a pointer that was never assigned
    Orderly     \* the clients keep to the contract of MayDelete, MayLeave

ASSUME LocalAssumption ==
    /\ IsFiniteSet(Uds) /\ Master \subseteq Uds
    /\ AppOf \in [Uds -> App] /\ None \notin App /\ Orderly \in BOOLEAN

VARIABLES
    seq_zero_notify,    \* the option: answer readers at packet zero
    home,               \* applications whose master runs on this node
    pushed,             \* applications whose data the master pushes to us
    phase,              \* what each client has done so far
    lsock_app,          \* lsock_p->app_p
    reading,            \* lsock_p->reading
    app_p2,             \* the service thread's variable of that name
    hashApp,            \* applications with an AppState in the table
    open_app,           \* of these, with directory and stats file open
    uds_hash,           \* app_p->uds_hash: connections by application
    recv,               \* RecverState of an application's data
    multi,              \* MulticastState of an application's data
    logged,             \* is_stats_logged of either
    file,               \* applications whose data file is on disk
    closed,             \* applications whose data FILEs DEL has closed
    delete_counter,
    pulls,              \* readers whose MSG_PULL is on its way
    c2i,                \* messages to the service thread, <<type, who>>
    crash,              \* how the process died, if it did
    waited,             \* history: reports unread when a state was trashed
    overdue             \* history: applications closed before their report

config == <<seq_zero_notify, home, pushed>>
apps == <<lsock_app, app_p2, hashApp, open_app, uds_hash>>
data == <<recv, multi, file, closed, delete_counter>>
history == <<waited, overdue>>
vars == <<config, phase, reading, apps, data, logged, pulls, c2i, crash, history>>

Phases == {"out", "open", "joined", "reading", "has", "failed", "done",
           "left", "deleted"}
RecvStates == {"none", "some", "zero", "finished"}
MultiStates == {"none", "written", "sending", "ended"}
Messages == ({"PULL_REJECT"} \X Uds) \cup ({"SEQ_ZERO", "SEQ_ALL", "SENT"} \X App)

\* The clients that take part: a master does where its application is home.
Clients(a) == {u \in Uds : AppOf[u] = a /\ (u \in Master => a \in home)}

Init ==
    /\ seq_zero_notify \in BOOLEAN
    /\ home \in SUBSET App
    /\ pushed \in SUBSET (App \ home)
    /\ phase = [u \in Uds |-> "out"]
    /\ lsock_app = [u \in Uds |-> None]
    /\ reading = [u \in Uds |-> FALSE]
    /\ app_p2 = None
    /\ hashApp = {} /\ open_app = {}
    /\ uds_hash = [a \in App |-> {}]
    /\ recv = [a \in App |-> "none"]
    /\ multi = [a \in App |-> "none"]
    /\ logged = {} /\ file = {} /\ closed = {}
    /\ delete_counter = [a \in App |-> 0]
    /\ pulls = {} /\ c2i = {}
    /\ crash = "no"
    /\ waited = [u \in Uds |-> {}] /\ overdue = {}

Enters(u, p) == phase' = [phase EXCEPT ![u] = p]

-----------------------------------------------------------------------------
(* What the clients promise.  The code relies on it and checks none of it. *)

\* A client deletes the data once every client of the application has
\* joined and the transfer to or from this node has ended.
MayDelete(u) ==
    LET a == AppOf[u]
    IN  /\ \A v \in Clients(a) : phase[v] \notin {"out", "open"}
        /\ recv[a] \in {"none", "finished"}
        /\ multi[a] # "sending"

\* It closes its connection once all of them have deleted the data.
MayLeave(u) ==
    \A v \in Clients(AppOf[u]) : phase[v] \in {"done", "left", "deleted"}

\* The master writes the data once, and pushes only what it has written.
MayWrite(u) == multi[AppOf[u]] = "none"

\* An executor next to the master reads what the master has written.
MayRead(u) == AppOf[u] \in home => multi[AppOf[u]] # "none"

-----------------------------------------------------------------------------
(* Requests of the clients.                                                *)

\* A client connects; its LocalSocketState has no AppState yet.
Accept(u) ==
    /\ phase[u] = "out"
    /\ u \in Clients(AppOf[u])
    /\ Enters(u, "open")
    /\ UNCHANGED <<config, history, reading, apps, data, logged, pulls, c2i, crash>>

\* INT_REQ.  app_p2 is assigned when the AppState is created and only then,
\* and yet it is what the connection is put under in either case.
IntReq(u) ==
    LET a == AppOf[u]
        new == a \notin hashApp
        at == IF new THEN a ELSE app_p2
    IN  /\ phase[u] = "open"
        /\ Enters(u, "joined")
        /\ app_p2' = at
        /\ lsock_app' = [lsock_app EXCEPT ![u] = at]
        /\ uds_hash' = [uds_hash EXCEPT ![at] = @ \cup {u}]
        /\ hashApp' = hashApp \cup {a}
        /\ open_app' = IF new THEN open_app \cup {a} ELSE open_app
        /\ UNCHANGED <<config, history, reading, data, logged, pulls, c2i, crash>>

\* Can a READ of a's data be answered at once?
Readable(a) == \/ recv[a] = "finished"
               \/ recv[a] = "zero" /\ seq_zero_notify

\* Mutant: reading is only set where a MSG_PULL is sent.
LcReadForgets(u) ==
    LET a == AppOf[u]
    IN  /\ phase[u] = "joined" /\ u \notin Master /\ a \notin home
        /\ reading' = [reading EXCEPT ![u] = recv[a] = "none"]
        /\ Enters(u, IF Readable(a) THEN "has" ELSE "reading")
        /\ pulls' = IF recv[a] = "none" THEN pulls \cup {u} ELSE pulls
        /\ UNCHANGED <<config, history, apps, data, logged, c2i, crash>>

\* READ_REQ of an executor away from its master: the reply, a wait for the
\* RecverState that is there, or a MSG_PULL to the master.
Read(u) ==
    LET a == AppOf[u]
    IN  /\ phase[u] = "joined" /\ u \notin Master /\ a \notin home
        /\ reading' = [reading EXCEPT ![u] = ~Readable(a)]
        /\ Enters(u, IF Readable(a) THEN "has" ELSE "reading")
        /\ pulls' = IF recv[a] = "none" THEN pulls \cup {u} ELSE pulls
        /\ UNCHANGED <<config, history, apps, data, logged, c2i, crash>>

\* READ_REQ next to the master: what the master wrote, whatever became of it.
ReadLocal(u) ==
    LET a == AppOf[u]
    IN  /\ phase[u] = "joined" /\ u \notin Master /\ a \in home
        /\ Orderly => MayRead(u)
        /\ crash' = IF multi[a] = "none" THEN "multi_p" ELSE crash
        /\ Enters(u, "has")
        /\ UNCHANGED <<config, history, reading, apps, data, logged, pulls, c2i>>

\* Mutant: A master's data is looked up as received data too.
LcWriteBoth(u) ==
    LET a == AppOf[u]
    IN  /\ phase[u] \in {"joined", "has"} /\ u \in Master
        /\ Orderly => MayWrite(u)
        /\ multi' = [multi EXCEPT ![a] = "written"]
        /\ recv' = [recv EXCEPT ![a] = "some"]
        /\ file' = file \cup {a}
        /\ Enters(u, "has")
        /\ UNCHANGED <<config, history, reading, apps, closed, delete_counter,
                       logged, pulls, c2i, crash>>

\* WRT_REQ of the master: assert(!multi_p), then the MulticastState is made.
Write(u) ==
    LET a == AppOf[u]
    IN  /\ phase[u] \in {"joined", "has"} /\ u \in Master
        /\ Orderly => MayWrite(u)
        /\ crash' = IF multi[a] = "none" THEN crash ELSE "assert"
        /\ multi' = [multi EXCEPT ![a] = IF @ = "none" THEN "written" ELSE @]
        /\ file' = file \cup {a}
        /\ Enters(u, "has")
        /\ UNCHANGED <<config, history, reading, apps, recv, closed,
                       delete_counter, logged, pulls, c2i>>

\* PSH_REQ of the master, the first or a later one: assert(multi_p), and the
\* data is on its way to the other nodes.
Push(u) ==
    LET a == AppOf[u]
    IN  /\ phase[u] \in {"joined", "has"} /\ u \in Master
        /\ Orderly => phase[u] = "has"
        /\ crash' = IF multi[a] = "none" THEN "assert" ELSE crash
        /\ multi' = [multi EXCEPT ![a] = IF @ = "none" THEN @ ELSE "sending"]
        /\ UNCHANGED <<config, history, phase, reading, apps, recv, file, closed,
                       delete_counter, logged, pulls, c2i>>

\* Has DEL_REQ of u something to count on, and is it the last one awaited?
Counted(a) == recv[a] # "none" \/ multi[a] # "none"

\* Mutant: The count of awaited deletions is one short.
LcLastShort(a) ==
    /\ Counted(a)
    /\ delete_counter[a] + 2 >= Cardinality(uds_hash[a])

\* Mutant: The comparison is strict.
LcLastStrict(a) ==
    /\ Counted(a)
    /\ delete_counter[a] + 1 > Cardinality(uds_hash[a])

LastDel(a) == /\ Counted(a)
              /\ delete_counter[a] + 1 >= Cardinality(uds_hash[a])

\* DEL_REQ: the last one closes the data's FILEs and removes the file.
Del(u) ==
    LET a == AppOf[u]
    IN  /\ phase[u] \in {"joined", "has", "failed"}
        /\ Orderly => phase[u] # "joined" /\ MayDelete(u)
        /\ Enters(u, "done")
        /\ delete_counter' = [delete_counter EXCEPT ![a] =
                                  IF Counted(a) THEN @ + 1 ELSE @]
        /\ file' = IF LastDel(a) THEN file \ {a} ELSE file
        /\ closed' = IF LastDel(a) THEN closed \cup {a} ELSE closed
        /\ UNCHANGED <<config, history, reading, apps, recv, multi, logged, pulls,
                       c2i, crash>>

\* The reports on a's transfer that the service thread has not read.
Reports(a) == c2i \cap {<<"SEQ_ALL", a>>, <<"SENT", a>>}

\* The client hangs up: read() returns 0 and the state is trashed, which
\* leaves it in uds_hash, reading or not.
Trash(u) ==
    /\ phase[u] \notin {"out", "left", "deleted"}
    /\ Orderly => MayLeave(u)
    /\ Enters(u, "left")
    /\ waited' = [waited EXCEPT ![u] = Reports(AppOf[u])]
    /\ UNCHANGED <<config, overdue, reading, apps, data, logged, pulls, c2i, crash>>

\* deleteFdState: with the last connection of an application its stats file,
\* its master's files and its directory go too, but not its entry in hashApp.
\* A report that has been under way since u was trashed is overdue.
Free(u) ==
    LET a == lsock_app[u]
        last == a # None /\ uds_hash[a] = {u}
    IN  /\ Enters(u, "deleted")
        /\ crash' = IF a = None THEN "app_p" ELSE crash
        /\ uds_hash' = [b \in App |-> IF b = a THEN uds_hash[b] \ {u}
                                              ELSE uds_hash[b]]
        /\ open_app' = IF last THEN open_app \ {a} ELSE open_app
        /\ file' = IF last THEN file \ {a} ELSE file
        /\ closed' = IF last /\ multi[a] # "none" THEN closed \cup {a} ELSE closed
        /\ overdue' = IF last /\ waited[u] \cap c2i # {} THEN overdue \cup {a}
                                                         ELSE overdue
        /\ UNCHANGED <<config, waited, reading, lsock_app, app_p2, hashApp, recv,
                       multi, delete_counter, logged, pulls, c2i>>

\* Mutant: The state is freed when the client hangs up, without the delay.
LcDeleteAtOnce(u) ==
    /\ phase[u] = "done" /\ (Orderly => MayLeave(u))
    /\ Free(u)

\* FDSTATE_DELETE_TIMEOUT later, whatever is still in the pipes.
Delete(u) == phase[u] = "left" /\ Free(u)

-----------------------------------------------------------------------------
(* Messages of the receive and the send thread.                            *)

\* The connections found under a that are waiting for its data.
Waiting(a) == {u \in uds_hash[a] : reading[u] /\ AppOf[u] = a}

\* They get a READ_RPL; one whose client has left gets it in vain.
Answer(a, p) ==
    /\ reading' = [u \in Uds |-> reading[u] /\ u \notin Waiting(a)]
    /\ phase' = [u \in Uds |-> IF u \in Waiting(a) /\ phase[u] = "reading"
                               THEN p ELSE phase[u]]

\* MSG_C2I_PULL_REJECT: REPLY_ALTER, the data has to be had another way.
PullReject(u) ==
    /\ <<"PULL_REJECT", u>> \in c2i
    /\ c2i' = c2i \ {<<"PULL_REJECT", u>>}
    /\ Answer(AppOf[u], "failed")
    /\ UNCHANGED <<config, history, apps, data, logged, pulls, crash>>

\* The statistics of a's data, into a stats file that must be open.
Stats(a) ==
    /\ logged' = logged \cup {a}
    /\ crash' = IF a \notin logged /\ a \notin open_app THEN "stats" ELSE crash

\* MSG_C2I_SEQ_ALL logs the transfer and falls into the next case.
SeqAll(a) ==
    /\ <<"SEQ_ALL", a>> \in c2i
    /\ c2i' = c2i \ {<<"SEQ_ALL", a>>}
    /\ Stats(a)
    /\ Answer(a, "has")
    /\ UNCHANGED <<config, history, apps, data, pulls>>

\* MSG_C2I_SEQ_ZERO
SeqZero(a) ==
    /\ <<"SEQ_ZERO", a>> \in c2i
    /\ c2i' = c2i \ {<<"SEQ_ZERO", a>>}
    /\ Answer(a, "has")
    /\ UNCHANGED <<config, history, apps, data, logged, pulls, crash>>

\* MSG_C_SEND2I_SEQ_ALL: every receiver of the master's data has it.
SenderSeqAll(a) ==
    /\ <<"SENT", a>> \in c2i
    /\ c2i' = c2i \ {<<"SENT", a>>}
    /\ Stats(a)
    /\ UNCHANGED <<config, history, phase, reading, apps, data, pulls>>

-----------------------------------------------------------------------------
(* The other threads.                                                      *)

\* The master's agent refuses a PULL of data it does not push to this node.
MasterAnswers(u) ==
    /\ u \in pulls
    /\ pulls' = pulls \ {u}
    /\ c2i' = IF AppOf[u] \in pushed THEN c2i ELSE c2i \cup {<<"PULL_REJECT", u>>}
    /\ UNCHANGED <<config, history, phase, reading, apps, data, logged, crash>>

\* First data packet: the AppState and its directory must be there.
RecvCreate(a) ==
    /\ a \in pushed /\ a \in hashApp /\ a \in open_app
    /\ recv[a] = "none"
    /\ recv' = [recv EXCEPT ![a] = "some"]
    /\ file' = file \cup {a}
    /\ UNCHANGED <<config, history, phase, reading, apps, multi, closed, delete_counter,
                   logged, pulls, c2i, crash>>

\* fwrite() to a FILE that DEL has closed.
Written(a) == crash' = IF a \in closed THEN "fwrite" ELSE crash

\* Packet zero.  From the fast path the readers are told if the option says
\* so; as patch data it is only noted.
RecvZero(a) ==
    /\ recv[a] = "some"
    /\ recv' = [recv EXCEPT ![a] = "zero"]
    /\ \E fast \in BOOLEAN :
         c2i' = IF fast /\ seq_zero_notify THEN c2i \cup {<<"SEQ_ZERO", a>>} ELSE c2i
    /\ Written(a)
    /\ UNCHANGED <<config, history, phase, reading, apps, multi, file, closed,
                   delete_counter, logged, pulls>>

\* The last packet.
RecvFinish(a) ==
    /\ recv[a] = "zero"
    /\ recv' = [recv EXCEPT ![a] = "finished"]
    /\ c2i' = c2i \cup {<<"SEQ_ALL", a>>}
    /\ Written(a)
    /\ UNCHANGED <<config, history, phase, reading, apps, multi, file, closed,
                   delete_counter, logged, pulls>>

\* The last receiver of the master's data reports ALL_DONE.
MulticastEnd(a) ==
    /\ multi[a] = "sending"
    /\ multi' = [multi EXCEPT ![a] = "ended"]
    /\ c2i' = c2i \cup {<<"SENT", a>>}
    /\ UNCHANGED <<config, history, phase, reading, apps, recv, file, closed,
                   delete_counter, logged, pulls, crash>>

-----------------------------------------------------------------------------
Agent == \/ \E u \in Uds : PullReject(u) \/ MasterAnswers(u)
         \/ \E a \in App : SeqAll(a) \/ SeqZero(a) \/ SenderSeqAll(a)
         \/ \E a \in App : RecvCreate(a) \/ RecvZero(a) \/ RecvFinish(a)
         \/ \E a \in App : MulticastEnd(a)

Client == \E u \in Uds : \/ Accept(u) \/ IntReq(u) \/ Read(u) \/ ReadLocal(u)
                         \/ Write(u) \/ Push(u) \/ Del(u) \/ Trash(u) \/ Delete(u)

Next == crash = "no" /\ (Agent \/ Client)

Spec == Init /\ [][Next]_vars

\* Every thread reads its pipes and the data that is pushed arrives: no
\* message and no packet waits for ever.  The clients owe nothing.
Fairness ==
    /\ \A u \in Uds : WF_vars(PullReject(u)) /\ WF_vars(MasterAnswers(u))
    /\ \A a \in App : WF_vars(SeqAll(a)) /\ WF_vars(SeqZero(a))
    /\ \A a \in App : /\ WF_vars(RecvCreate(a)) /\ WF_vars(RecvZero(a))
                      /\ WF_vars(RecvFinish(a))

FairSpec == Spec /\ Fairness

-----------------------------------------------------------------------------
\* Every field keeps to its values; at most one of the two states exists for
\* a broadcast, since DEL_REQ takes "multi_p || recv_p" for the client's own
\* (thread_service.c:423-433).
TypeOK ==
    /\ seq_zero_notify \in BOOLEAN /\ home \subseteq App /\ pushed \subseteq App
    /\ phase \in [Uds -> Phases]
    /\ lsock_app \in [Uds -> App \cup {None}]
    /\ reading \in [Uds -> BOOLEAN]
    /\ app_p2 \in App \cup {None}
    /\ open_app \subseteq hashApp /\ hashApp \subseteq App
    /\ uds_hash \in [App -> SUBSET Uds]
    /\ recv \in [App -> RecvStates] /\ multi \in [App -> MultiStates]
    /\ \A a \in App : recv[a] = "none" \/ multi[a] = "none"
    /\ logged \subseteq App /\ file \subseteq App /\ closed \subseteq App
    /\ delete_counter \in [App -> 0 .. Cardinality(Uds)]
    /\ pulls \subseteq Uds /\ c2i \subseteq Messages
    /\ crash \in {"no", "multi_p", "assert", "app_p", "stats", "fwrite"}
    /\ waited \in [Uds -> SUBSET Messages] /\ overdue \subseteq App

\* A client that was told REPLY_SUCCESS and has not deleted the data finds
\* the file, whole or, with early notification, with packet zero in it: the
\* other clients' DEL_REQs have not removed it under its hands
\* (thread_service.c:364-374, 420-448).
FileKept ==
    \A u \in Uds : phase[u] = "has" =>
        /\ AppOf[u] \in file
        /\ AppOf[u] \notin home => Readable(AppOf[u])

\* Once every client has deleted the data no file of it is left behind
\* (the counters of thread_service.c:433-447 reach uds_hash's count).
LastDeleteRemoves ==
    \A a \in App : (\A u \in Clients(a) : phase[u] \in {"done", "left", "deleted"})
                        => a \notin file

\* What ends the process is a report that waited in the pipe from before a
\* client hung up until its connection, the application's last, was freed,
\* FDSTATE_DELETE_TIMEOUT later.  A report sent at any other moment finds the
\* statistics open, and no packet comes for a closed FILE, however the other
\* threads' messages, the deletions and the timeouts interleave
\* (thread_service.c:717-724, hero.c:356-385, 676-694).
OnlyOverdueEnds ==
    crash # "no" => crash = "stats" /\ overdue # {}

\* A READ_REQ that was not answered at once is answered, however the reply
\* by the service thread and the end of the transfer on the other threads
\* interleave (thread_service.c:352-419, 592-654).
EveryReadAnswered ==
    \A u \in Uds : phase[u] = "reading" ~> phase[u] # "reading"

\* "connect AppState and UDSState" (thread_service.c:566): a connection that
\* has joined is under the AppState of its own application.
OwnApp ==
    \A u \in Uds : phase[u] \in {"joined", "reading", "has", "failed", "done"}
        => lsock_app[u] = AppOf[u] /\ u \in uds_hash[AppOf[u]]

=============================================================================
