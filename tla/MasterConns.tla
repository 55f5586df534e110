---------------------------- MODULE MasterConns ----------------------------
(***************************************************************************)
(* A receiving agent's connections to the agents of the masters: rsockList *)
(* (dll.c), a doubly linked list that three threads use without a lock.    *)
(* The service thread connects when a client joins an application, the     *)
(* receive thread walks through the list for its select, connects when a   *)
(* pull finds no connection and takes out those that are closed, and the   *)
(* netmap thread looks for the connection a new broadcast belongs to.      *)
(* Threads meet between any two stores.                                    *)
(*                                                                         *)
(* The list begins with the two pipes the receive thread reads from.  What *)
(* a message does to a broadcast is RecverState's matter, how sendMsg gets *)
(* it through SendSocket's, and what clients may ask LocalClients'.        *)
(***************************************************************************)
EXTENDS Integers, Sequences, FiniteSets

CONSTANTS
    Master,         \* the masters' agents, all on other nodes
    Mortal,         \* those that may end
    App,            \* applications, each with one broadcast
    MasterOf,       \* their masters (master_addr)
    Null,           \* NULL
    MaxInt,         \* bound: clients that join
    MaxNode         \* bound: nodes ever allocated

N2C == 1            \* the first node, PIPE_N2C_RECV
I2C == 2            \* the second, PIPE_I2C_RECV
Pipes == {N2C, I2C}
Node == 1 .. MaxNode
Thread == {"service", "recv", "netmap"}

ASSUME ConnAssumption ==
    /\ MasterOf \in [App -> Master] /\ Null \notin Node /\ Null \notin Master
    /\ "pipe" \notin Master /\ Null # "pipe"
    /\ Mortal \subseteq Master /\ MaxInt \in Nat /\ MaxNode \in Nat /\ MaxNode >= 2

VARIABLES
    \* rsockList; first is N2C for ever
    last, next, prev, n_node,
    conn,           \* ip_address of the connection in a node
    freed,          \* nodes given back to the heap
    queue,          \* sendQueue_p of the connections
    clean,          \* sendQueue_p of the pipes, never set, reads as NULL
    \* the threads
    pc, at, want,   \* where each is, its position, whom it looks for
    app,            \* the application each does this for
    loop, after,    \* receive thread: Ccc and Cn
    readable, writable,  \* its read_set and write_set
    \* what they share
    apps,           \* hashApp
    fds_p,          \* RecverState.fds_p of an application's broadcast
    n2c, i2c,       \* the pipes' contents
    pulled,         \* applications whose pull has been asked for
    \* external
    sent,           \* messages that went to the masters
    gone,           \* agents that have ended
    closed,         \* connections that are closed
    joined,         \* clients that joined
    crash,          \* why the process ended, "no" while it runs
    clash           \* history: a removal has overlapped with another use

list == <<last, next, prev, n_node, conn, freed>>
thread == <<pc, at, want, app>>
select == <<loop, after, readable, writable>>
shared == <<apps, fds_p, pulled>>
pipe == <<n2c, i2c>>
outside == <<sent, gone, closed, joined>>
vars == <<list, queue, clean, thread, select, shared, pipe, outside, crash, clash>>

Running == crash = "no"
Live(n) == n # Null /\ n \notin freed /\ conn[n] # Null
Pull(a) == <<"PULL", a>>
First(a) == <<"FIRST_SEQ", a>>

Init ==
    /\ last = I2C /\ n_node = 2
    /\ next = [n \in Node |-> IF n = N2C THEN I2C ELSE Null]
    /\ prev = [n \in Node |-> IF n = I2C THEN N2C ELSE Null]
    /\ conn = [n \in Node |-> IF n \in Pipes THEN "pipe" ELSE Null]
    /\ freed = {} /\ queue = [n \in Node |-> <<>>] /\ clean \in BOOLEAN
    /\ pc = [t \in Thread |-> IF t = "recv" THEN "scan" ELSE "idle"]
    /\ at = [t \in Thread |-> Null] /\ want = [t \in Thread |-> Null]
    /\ app = [t \in Thread |-> Null]
    /\ loop = Null /\ after = Null /\ readable = {} /\ writable = {}
    /\ apps = {} /\ fds_p = [a \in App |-> Null] /\ pulled = {}
    /\ n2c = <<>> /\ i2c = <<>>
    /\ sent = {} /\ gone = {} /\ closed = {} /\ joined = 0 /\ crash = "no" /\ clash = FALSE

-----------------------------------------------------------------------------
(* What every thread may do with the list.                                 *)

Goes(t, where) == pc' = [pc EXCEPT ![t] = where]

(* It looks for the connection of application a's master, from the start.  *)
LookFor(t, a) ==
    /\ pc' = [pc EXCEPT ![t] = "search"] /\ at' = [at EXCEPT ![t] = N2C]
    /\ want' = [want EXCEPT ![t] = MasterOf[a]] /\ app' = [app EXCEPT ![t] = a]

(* A plausible slip: the loop ends when there is no next node.             *)
SearchAllButLast(t) ==
    /\ Running /\ pc[t] = "search" /\ at[t] # Null
    /\ LET n == at[t]
       IN  IF ~Live(n) THEN crash' = "dangling" /\ UNCHANGED <<pc, at>>
           ELSE /\ crash' = crash
                /\ IF next[n] # Null /\ conn[n] = want[t] THEN Goes(t, "found") /\ at' = at
                   ELSE pc' = pc /\ at' = [at EXCEPT ![t] = next[n]]
    /\ UNCHANGED <<list, queue, clean, want, app, select, shared, pipe, outside>>

(* One round of the loop: next is read, then the node is looked at.        *)
Search(t) ==
    /\ Running /\ pc[t] = "search" /\ at[t] # Null
    /\ LET n == at[t]
       IN  IF ~Live(n) THEN crash' = "dangling" /\ UNCHANGED <<pc, at>>
           ELSE /\ crash' = crash
                /\ IF conn[n] = want[t] THEN Goes(t, "found") /\ at' = at
                   ELSE pc' = pc /\ at' = [at EXCEPT ![t] = next[n]]
    /\ UNCHANGED <<list, queue, clean, want, app, select, shared, pipe, outside>>

Missed(t) == Running /\ pc[t] = "search" /\ at[t] = Null

(* createRecvSocketState: an agent that has ended may have been started    *)
(* again; a connection that is refused ends the process.                   *)
Connect(t) ==
    /\ Missed(t) /\ t # "netmap" /\ n_node < MaxNode
    /\ \/ /\ n_node' = n_node + 1 /\ conn' = [conn EXCEPT ![n_node'] = want[t]]
          /\ at' = [at EXCEPT ![t] = n_node'] /\ Goes(t, "link") /\ crash' = crash
       \/ /\ want[t] \in gone /\ crash' = "refused"
          /\ UNCHANGED <<n_node, conn, at, pc>>
    /\ UNCHANGED <<last, next, prev, freed, queue, clean, want, app, select, shared, pipe, outside>>

(* The three stores of List_push; list->last is read for each anew.        *)
PushLink(t) ==
    /\ Running /\ pc[t] = "link" /\ last # Null
    /\ next' = [next EXCEPT ![last] = at[t]]
    /\ Goes(t, "back")
    /\ UNCHANGED <<last, prev, n_node, conn, freed, queue, clean, at, want, app, select, shared, pipe, outside, crash>>

PushBack(t) ==
    /\ Running /\ pc[t] = "back"
    /\ prev' = [prev EXCEPT ![at[t]] = last]
    /\ Goes(t, "last")
    /\ UNCHANGED <<last, next, n_node, conn, freed, queue, clean, at, want, app, select, shared, pipe, outside, crash>>

PushLast(t) ==
    /\ Running /\ pc[t] = "last"
    /\ last' = at[t]
    /\ Goes(t, "found")
    /\ UNCHANGED <<next, prev, n_node, conn, freed, queue, clean, at, want, app, select, shared, pipe, outside, crash>>

Push(t) == Search(t) \/ Connect(t) \/ PushLink(t) \/ PushBack(t) \/ PushLast(t)

-----------------------------------------------------------------------------
(* The service thread.                                                     *)

(* A plausible slip: hashApp gets the application before its master is     *)
(* connected.                                                              *)
SvIntEarly(a) ==
    /\ Running /\ pc["service"] = "idle" /\ joined < MaxInt
    /\ joined' = joined + 1 /\ LookFor("service", a)
    /\ apps' = apps \union {a}
    /\ UNCHANGED <<list, queue, clean, select, fds_p, pulled, pipe, sent, gone, closed, crash>>

(* MSG_INT_REQ of a client that is not on its master's node (533-556).     *)
SvInt(a) ==
    /\ Running /\ pc["service"] = "idle" /\ joined < MaxInt
    /\ joined' = joined + 1 /\ LookFor("service", a)
    /\ UNCHANGED <<list, queue, clean, select, shared, pipe, sent, gone, closed, crash>>

(* There is a connection; the application goes to hashApp (559-571).       *)
SvJoined ==
    /\ Running /\ pc["service"] = "found"
    /\ apps' = apps \union {app["service"]}
    /\ Goes("service", "idle")
    /\ UNCHANGED <<list, queue, clean, at, want, app, select, fds_p, pulled, pipe, outside, crash>>

(* A plausible slip: no client need have joined.                           *)
SvReadAny(a) ==
    /\ Running /\ pc["service"] = "idle" /\ a \notin pulled
    /\ i2c' = Append(i2c, a) /\ pulled' = pulled \union {a}
    /\ UNCHANGED <<list, queue, clean, thread, select, apps, fds_p, n2c, outside, crash>>

(* MSG_READ_REQ makes the receive thread pull (399-405).                   *)
SvRead(a) ==
    /\ Running /\ pc["service"] = "idle" /\ a \in apps \ pulled
    /\ i2c' = Append(i2c, a) /\ pulled' = pulled \union {a}
    /\ UNCHANGED <<list, queue, clean, thread, select, apps, fds_p, n2c, outside, crash>>

Service == Push("service") \/ SvJoined

-----------------------------------------------------------------------------
(* The netmap thread.                                                      *)

(* A packet of a broadcast that has no RecverState yet (94-113).           *)
NmPacket(a) ==
    /\ Running /\ pc["netmap"] = "idle" /\ a \in apps /\ fds_p[a] = Null
    /\ LookFor("netmap", a)
    /\ UNCHANGED <<list, queue, clean, select, shared, pipe, outside, crash>>

NmMissed ==
    /\ Missed("netmap") /\ Goes("netmap", "idle")
    /\ UNCHANGED <<list, queue, clean, at, want, app, select, shared, pipe, outside, crash>>

(* The RecverState is created and MSG_N2C_SEQ_FIRST written (116-130).     *)
NmBind ==
    /\ Running /\ pc["netmap"] = "found"
    /\ fds_p' = [fds_p EXCEPT ![app["netmap"]] = at["netmap"]]
    /\ n2c' = Append(n2c, app["netmap"])
    /\ Goes("netmap", "idle")
    /\ UNCHANGED <<list, queue, clean, at, want, app, select, apps, i2c, pulled, outside, crash>>

Netmap == Search("netmap") \/ NmMissed \/ NmBind

-----------------------------------------------------------------------------
(* The receive thread.                                                     *)

(* The nodes in the order of their next pointers.                          *)
Chain == LET f[k \in Node] == IF k = 1 THEN N2C
                              ELSE LET n == f[k - 1] IN IF n = Null THEN Null ELSE next[n]
         IN  f
InList == LET c == Chain IN {c[k] : k \in Node} \ {Null}

HasInput(n) ==
    CASE n = N2C -> n2c # <<>>
      [] n = I2C -> i2c # <<>>
      [] OTHER -> n \in closed

(* The first loop (41-58).  Nodes come in only at the end, only this       *)
(* thread takes some out and fills queues: the loop is one step, its last. *)
(* A pipe whose sendQueue_p is not NULL by chance (47) is the end.         *)
RvScan ==
    /\ Running /\ pc["recv"] = "scan"
    /\ readable' = InList
    /\ writable' = {n \in InList : queue[n] # <<>>}
    /\ crash' = IF clean THEN "no" ELSE "garbage"
    /\ Goes("recv", "select")
    /\ UNCHANGED <<list, queue, clean, at, want, app, loop, after, shared, pipe, outside>>

(* select (63), and the start of the second loop (67).                     *)
RvSelect ==
    /\ Running /\ pc["recv"] = "select"
    /\ readable' = {n \in readable : HasInput(n)}
    /\ writable' \in SUBSET writable
    /\ loop' = N2C /\ after' = next[N2C]
    /\ Goes("recv", "each")
    /\ UNCHANGED <<list, queue, clean, at, want, app, shared, pipe, outside, crash>>

(* A plausible slip: the pass ends at the first node nothing is to be done *)
(* for.                                                                    *)
RvNextStops ==
    /\ Running /\ pc["recv"] = "each" /\ loop \notin readable \union writable
    /\ Goes("recv", "scan") /\ UNCHANGED <<loop, after>>
    /\ UNCHANGED <<list, queue, clean, at, want, app, readable, writable, shared, pipe, outside, crash>>

(* A plausible slip: the macro of dll.h:45, which takes the next node from *)
(* the one just dealt with.                                                *)
RvNextLate ==
    /\ Running /\ pc["recv"] = "each" /\ loop \notin readable \union writable
    /\ IF loop \in freed THEN crash' = "dangling" /\ UNCHANGED <<pc, loop>>
       ELSE IF next[loop] = Null THEN Goes("recv", "scan") /\ UNCHANGED <<loop, crash>>
       ELSE loop' = next[loop] /\ UNCHANGED <<pc, crash>>
    /\ UNCHANGED <<list, queue, clean, at, want, app, after, readable, writable, shared, pipe, outside>>

(* The next node of the pass is the one that was the next when the pass    *)
(* came to this one.                                                       *)
RvNext ==
    /\ Running /\ pc["recv"] = "each" /\ loop \notin readable \union writable
    /\ IF after = Null THEN Goes("recv", "scan") /\ UNCHANGED <<loop, after, crash>>
       ELSE IF ~Live(after) THEN crash' = "dangling" /\ UNCHANGED <<pc, loop, after>>
       ELSE loop' = after /\ after' = next[after] /\ UNCHANGED <<pc, crash>>
    /\ UNCHANGED <<list, queue, clean, at, want, app, readable, writable, shared, pipe, outside>>

(* sendMsg (71-73), here with all the socket takes.  On a connection whose *)
(* other end has gone, send may raise SIGPIPE (hero.c:519), which nothing  *)
(* handles.                                                                *)
RvWrite ==
    /\ Running /\ pc["recv"] = "each" /\ loop \in writable
    /\ writable' = writable \ {loop}
    /\ sent' = sent \union {queue[loop][i] : i \in DOMAIN queue[loop]}
    /\ queue' = [queue EXCEPT ![loop] = <<>>]
    /\ \/ crash' = crash
       \/ loop \in closed /\ crash' = "sigpipe"
    /\ UNCHANGED <<list, clean, thread, loop, after, readable, shared, pipe, gone, closed, joined>>

(* One message read from a pipe: with it may go all that is in the pipe.   *)
Reads(n, contents) ==
    /\ Running /\ pc["recv"] = "each" /\ loop = n /\ n \in readable \ writable
    /\ contents # <<>>
    /\ \/ readable' = readable \ {n}
       \/ readable' = readable /\ Len(contents) > 1

(* MSG_I2C_PULL: the master's connection is looked for (228-247).          *)
RvPull ==
    /\ Reads(I2C, i2c)
    /\ i2c' = Tail(i2c) /\ LookFor("recv", Head(i2c))
    /\ UNCHANGED <<list, queue, clean, loop, after, writable, shared, n2c, outside, crash>>

(* 256-260.                                                                *)
RvPulled ==
    /\ Running /\ pc["recv"] = "found"
    /\ queue' = [queue EXCEPT ![at["recv"]] = Append(@, Pull(app["recv"]))]
    /\ Goes("recv", "each")
    /\ UNCHANGED <<list, clean, at, want, app, select, shared, pipe, outside, crash>>

(* MSG_N2C_SEQ_FIRST: through recv_p->fds_p (267-275).                     *)
RvFirst ==
    /\ Reads(N2C, n2c) /\ n2c' = Tail(n2c)
    /\ LET a == Head(n2c)
       IN  IF Live(fds_p[a])
           THEN /\ queue' = [queue EXCEPT ![fds_p[a]] = Append(@, First(a))]
                /\ crash' = crash
           ELSE queue' = queue /\ crash' = "dangling"
    /\ UNCHANGED <<list, clean, thread, loop, after, writable, shared, i2c, outside>>

(* read returns 0 (353-355): List_remove, in three steps.                  *)
RvClosed ==
    /\ Running /\ pc["recv"] = "each" /\ loop \in readable \ (writable \union Pipes)
    /\ readable' = readable \ {loop}
    /\ IF loop = last
       THEN last' = prev[loop] /\ Goes("recv", "cut") /\ UNCHANGED <<prev, crash>>
       ELSE /\ last' = last /\ Goes("recv", "join")
            /\ IF next[loop] = Null THEN prev' = prev /\ crash' = "null"
               ELSE prev' = [prev EXCEPT ![next[loop]] = prev[loop]] /\ crash' = crash
    /\ UNCHANGED <<next, n_node, conn, freed, queue, clean, at, want, app, loop, after, writable, shared, pipe, outside>>

(* A plausible slip: what comes after goes with it.                        *)
RvUnlinkAll ==
    /\ Running /\ pc["recv"] \in {"cut", "join"}
    /\ next' = [next EXCEPT ![prev[loop]] = Null] /\ Goes("recv", "free")
    /\ UNCHANGED <<last, prev, n_node, conn, freed, queue, clean, at, want, app, select, shared, pipe, outside, crash>>

(* 134-136 and 141; a list without a last node is checked for.             *)
RvUnlink ==
    /\ Running /\ pc["recv"] \in {"cut", "join"}
    /\ IF pc["recv"] = "cut" /\ last = Null
       THEN crash' = "abort" /\ UNCHANGED <<next, pc>>
       ELSE /\ next' = IF pc["recv"] = "cut" THEN [next EXCEPT ![last] = Null]
                       ELSE [next EXCEPT ![prev[loop]] = next[loop]]
            /\ Goes("recv", "free") /\ crash' = crash
    /\ UNCHANGED <<last, prev, n_node, conn, freed, queue, clean, at, want, app, select, shared, pipe, outside>>

(* 146, and deleteRecvSocketState, which frees the FdState.                *)
RvFree ==
    /\ Running /\ pc["recv"] = "free"
    /\ freed' = freed \union {loop} /\ queue' = [queue EXCEPT ![loop] = <<>>]
    /\ Goes("recv", "each")
    /\ UNCHANGED <<last, next, prev, n_node, conn, clean, at, want, app, select, shared, pipe, outside, crash>>

Recv == \/ Push("recv") \/ RvScan \/ RvSelect \/ RvNext \/ RvWrite
        \/ RvPull \/ RvPulled \/ RvFirst \/ RvClosed \/ RvUnlink \/ RvFree

-----------------------------------------------------------------------------
(* The agent of a master ends: its connections are closed.                 *)
Ends(m) ==
    /\ Running /\ m \in Mortal \ gone
    /\ gone' = gone \union {m}
    /\ closed' = closed \union {n \in Node : conn[n] = m}
    /\ UNCHANGED <<list, queue, clean, thread, select, shared, pipe, sent, joined, crash>>

(* The receive thread is to change the list while the service thread uses  *)
(* it, or takes a connection out while the netmap thread looks for one or  *)
(* a broadcast has it.                                                     *)
Overlap ==
    \/ /\ Missed("recv") \/ pc["recv"] \in {"link", "back", "last", "cut", "join", "free"}
       /\ pc["service"] # "idle"
    \/ /\ pc["recv"] \in {"cut", "join", "free"}
       /\ pc["netmap"] # "idle" \/ \E a \in App : fds_p[a] = loop

Step == \/ Service \/ Netmap \/ Recv
        \/ \E a \in App : SvInt(a) \/ SvRead(a) \/ NmPacket(a)
        \/ \E m \in Master : Ends(m)

(* Bound: nothing is claimed after a clash, and the model ends there.      *)
Mark == ~clash /\ clash' = Overlap'

Stopped == ~Running \/ clash \/ n_node = MaxNode

Next == \/ Step /\ Mark
        \/ Stopped /\ UNCHANGED vars

Spec == Init /\ [][Next]_vars

(* The threads run, and a master's agent reads what it is sent.            *)
FairSpec ==
    /\ Spec
    /\ WF_vars(Service /\ Mark) /\ WF_vars(Recv /\ Mark) /\ WF_vars(Netmap /\ Mark)
    /\ SF_vars(RvSelect /\ writable' = writable /\ Mark)

-----------------------------------------------------------------------------
(* Properties.  A removal that overlaps with another thread's use of the   *)
(* list, or takes the connection of a broadcast, may break everything (see *)
(* the hazards): nothing is claimed after a clash.                         *)

Maybe(S) == S \union {Null}

TypeOK ==
    /\ last \in Maybe(Node) /\ n_node \in Node /\ freed \subseteq Node
    /\ next \in [Node -> Maybe(Node)] /\ prev \in [Node -> Maybe(Node)]
    /\ conn \in [Node -> Master \union {"pipe", Null}]
    /\ queue \in [Node -> Seq({"PULL", "FIRST_SEQ"} \X App)] /\ clean \in BOOLEAN
    /\ pc \in [Thread -> {"idle", "search", "link", "back", "last", "found",
                          "scan", "select", "each", "cut", "join", "free"}]
    /\ at \in [Thread -> Maybe(Node)] /\ want \in [Thread -> Maybe(Master)]
    /\ app \in [Thread -> Maybe(App)]
    /\ loop \in Maybe(Node) /\ after \in Maybe(Node)
    /\ readable \subseteq Node /\ writable \subseteq Node
    /\ apps \subseteq App /\ pulled \subseteq apps /\ fds_p \in [App -> Maybe(Node)]
    /\ n2c \in Seq(App) /\ i2c \in Seq(App)
    /\ sent \subseteq {"PULL", "FIRST_SEQ"} \X App /\ gone \subseteq Master /\ closed \subseteq Node
    /\ joined \in 0 .. MaxInt
    /\ crash \in {"no", "dangling", "null", "abort", "refused", "sigpipe", "garbage"}
    /\ clash \in BOOLEAN

AllStay == gone = {}

(* Nobody meets a node that is half linked, has no connection in it or has *)
(* been freed, the receive thread's own next node included, unless the     *)
(* pipes' sendQueue_p was not zero to begin with (thread_recv.c:47, 355).  *)
Survives == ~clash /\ clean => /\ crash \in {"no", "refused", "sigpipe"}
                               /\ AllStay => Running

(* An application in hashApp has its connection in the list, so that no    *)
(* packet of its broadcasts is thrown away for want of one; the broadcasts *)
(* that have started report to the right master; and the receive thread,   *)
(* which has a warning for it (thread_recv.c:251), never has to connect.   *)
AppsConnected ==
    AllStay => /\ \A a \in apps : \E n \in InList : conn[n] = MasterOf[a]
               /\ \A a \in App : fds_p[a] # Null => /\ conn[fds_p[a]] = MasterOf[a]
                                                    /\ fds_p[a] \in InList
               /\ pc["recv"] \notin {"link", "back", "last"}

(* The list is the table of ConnTable: what is linked stays linked until   *)
(* its agent has ended, the order of the others is kept when one is taken  *)
(* out, and nobody is connected twice.                                     *)
Conns == LET c == Chain
         IN  [i \in {i \in 1 .. MaxNode - 2 : c[i + 2] # Null} |-> conn[c[i + 2]]]

Table == INSTANCE ConnTable WITH table <- Conns

TableSpec == Table!TSpec

(* A pull and a report of a first packet reach the master, while the list  *)
(* grows and shrinks under the receive thread's hands.                     *)
Ended(m) == ~Running \/ clash \/ m \in gone
Asked(a) == a \in pulled \/ fds_p[a] # Null
Served(a) == /\ a \in pulled => Pull(a) \in sent
             /\ fds_p[a] # Null => First(a) \in sent
AllSent == \A a \in App : Asked(a) ~> (Served(a) \/ Ended(MasterOf[a]))
=============================================================================
