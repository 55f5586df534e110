------------------------ MODULE LocalClients_proofs ------------------------
(***************************************************************************)
(* Proofs about LocalClients for one application with any number of        *)
(* clients that keep to their contract.  With several applications a       *)
(* connection may be filed under the wrong one, see OwnApp.                *)
(***************************************************************************)
EXTENDS LocalClients, FiniteSetTheorems, TLAPS

OneOrderlyApp == Orderly /\ \A a, b \in App : a = b

-----------------------------------------------------------------------------
(* The invariant.                                                          *)

Joined(u) == phase[u] \notin {"out", "open"}
Gone(u) == phase[u] \in {"done", "left", "deleted"}
GoneOf(a) == {u \in Clients(a) : Gone(u)}

(* A connection is filed under its application until it is freed.          *)
Conns ==
    /\ \A u \in Uds : /\ lsock_app[u] = IF Joined(u) THEN AppOf[u] ELSE None
                      /\ phase[u] # "out" => u \in Clients(AppOf[u])
    /\ \A a \in App : uds_hash[a] = {u \in Clients(a) : Joined(u) /\ phase[u] # "deleted"}

(* An AppState is made for the first client and closed with the last one.  *)
Tables ==
    \A a \in App :
        /\ a \in hashApp <=> \E u \in Clients(a) : Joined(u)
        /\ a \in hashApp => app_p2 = a
        /\ a \in hashApp => a \in open_app \/ \A u \in Clients(a) : phase[u] = "deleted"

(* Data comes to where it is pushed and is written at home.                *)
Owners ==
    \A a \in App :
        /\ recv[a] # "none" => a \in pushed
        /\ multi[a] # "none" => a \in home
        /\ ~(a \in pushed /\ a \in home)
        /\ Counted(a) => a \in hashApp

(* What a client has been told, or will be, is so.                         *)
Answers ==
    /\ \A u \in Uds :
        /\ reading[u] \/ phase[u] = "reading" \/ u \in pulls => AppOf[u] \notin home
        /\ phase[u] = "failed" \/ <<"PULL_REJECT", u>> \in c2i => AppOf[u] \notin pushed \cup home
        /\ phase[u] = "has" => IF AppOf[u] \in home THEN multi[AppOf[u]] # "none" ELSE Readable(AppOf[u])
    /\ \A a \in App :
        /\ <<"SEQ_ALL", a>> \in c2i => recv[a] = "finished"
        /\ <<"SEQ_ZERO", a>> \in c2i => Readable(a)
        /\ <<"SEQ_ALL", a>> \in c2i \/ <<"SENT", a>> \in c2i => a \in open_app \cup overdue

(* No report is sent once the clients are leaving: one that is unread when *)
(* a connection is freed was so when it was trashed.                       *)
Reported == \A u \in Uds : phase[u] = "left" => Reports(AppOf[u]) \subseteq waited[u]

(* Once a client has deleted the data all have joined, received data has   *)
(* come and data written here is there; the file is there until the last   *)
(* client has deleted it, and nothing is under way then.                   *)
DeletingOf(a) ==
    /\ GoneOf(a) # {} => /\ \A u \in Clients(a) : Joined(u)
                         /\ recv[a] = "finished" \/ multi[a] # "none" \/ a \notin pushed \cup home
    /\ multi[a] = "sending" => GoneOf(a) # Clients(a)
    /\ (\E u \in Clients(a) : phase[u] \in {"left", "deleted"}) => GoneOf(a) = Clients(a)
    /\ delete_counter[a] = IF Counted(a) THEN Cardinality(GoneOf(a)) ELSE 0
    /\ a \in closed => GoneOf(a) = Clients(a) /\ GoneOf(a) # {}
    /\ a \in file <=> Counted(a) /\ GoneOf(a) # Clients(a)

Deleting == \A a \in App : DeletingOf(a)

IInv == TypeOK /\ OnlyOverdueEnds /\ Conns /\ Tables /\ Owners /\ Answers /\ Reported /\ Deleting

LEMMA ClientsOf ==
    /\ \A u \in Uds : AppOf[u] \in App /\ AppOf[u] # None
    /\ \A a \in App : Clients(a) \subseteq Uds /\ \A u \in Clients(a) : u \in Uds /\ AppOf[u] = a
    /\ \A a \in App : GoneOf(a) \subseteq Clients(a)
    /\ \A a \in App : IsFiniteSet(Clients(a)) /\ IsFiniteSet(GoneOf(a))
    /\ \A a \in App : Cardinality(GoneOf(a)) \in 0 .. Cardinality(Uds)
    /\ Cardinality(Uds) \in Nat
<1>1. \A u \in Uds : AppOf[u] \in App /\ AppOf[u] # None BY LocalAssumption
<1>2. \A a \in App : Clients(a) \subseteq Uds /\ GoneOf(a) \subseteq Clients(a)
                    /\ \A u \in Clients(a) : u \in Uds /\ AppOf[u] = a
      BY DEF Clients, GoneOf
<1>3. ASSUME NEW a \in App
      PROVE  /\ IsFiniteSet(Clients(a)) /\ IsFiniteSet(GoneOf(a))
             /\ Cardinality(GoneOf(a)) \in 0 .. Cardinality(Uds)
  <2>1. Clients(a) \in SUBSET Uds /\ GoneOf(a) \in SUBSET Uds BY <1>2
  <2>2. QED BY <2>1, LocalAssumption, FS_Subset, FS_CardinalityType
<1>4. Cardinality(Uds) \in Nat BY LocalAssumption, FS_CardinalityType
<1>5. QED BY <1>1, <1>2, <1>3, <1>4

LEMMA InitIInv == Init => IInv
<1> SUFFICES ASSUME Init PROVE IInv OBVIOUS
<1>1. \A u \in Uds : phase[u] = "out" /\ ~Joined(u) /\ ~Gone(u) BY DEF Init, Joined, Gone
<1>2. \A a \in App : GoneOf(a) = {} BY <1>1 DEF GoneOf, Clients
<1>3. TypeOK
  <2>1. seq_zero_notify \in BOOLEAN /\ reading \in [Uds -> BOOLEAN] BY Zenon DEF Init
  <2>2. delete_counter \in [App -> 0 .. Cardinality(Uds)] BY ClientsOf DEF Init
  <2>3. /\ phase \in [Uds -> Phases] /\ recv \in [App -> RecvStates] /\ multi \in [App -> MultiStates]
        /\ lsock_app \in [Uds -> App \cup {None}] /\ uds_hash \in [App -> SUBSET Uds]
        /\ waited \in [Uds -> SUBSET Messages] /\ overdue \subseteq App
        BY DEF Init, Phases, RecvStates, MultiStates
  <2>4. QED BY <2>1, <2>2, <2>3 DEF Init, TypeOK
<1>4. OnlyOverdueEnds /\ Reported BY DEF Init, OnlyOverdueEnds, Reported
<1>5. Conns BY <1>1, ClientsOf DEF Init, Conns
<1>6. Tables BY <1>1, ClientsOf DEF Init, Tables
<1>7. Owners BY DEF Init, Owners, Counted
<1>8. Answers BY <1>1 DEF Init, Answers
<1>9. Deleting
  <2>1. \A a \in App : Cardinality(GoneOf(a)) = 0 BY <1>2, FS_EmptySet
  <2>2. QED BY <1>1, <1>2, <2>1, ClientsOf DEF Init, Deleting, DeletingOf, Counted
<1>10. QED BY <1>3, <1>4, <1>5, <1>6, <1>7, <1>8, <1>9 DEF IInv

-----------------------------------------------------------------------------
(* What an action leaves alone.                                            *)

LEMMA GoneKept ==
    ASSUME home' = home, \A u \in Uds : Gone(u)' <=> Gone(u)
    PROVE  \A a \in App : GoneOf(a)' = GoneOf(a) /\ Clients(a)' = Clients(a)
  BY DEF GoneOf, Clients

LEMMA ClientEnters ==
    ASSUME TypeOK, NEW u \in Uds, NEW p \in Phases, Enters(u, p)
    PROVE  /\ phase' \in [Uds -> Phases] /\ phase'[u] = p
           /\ \A v \in Uds : v # u => phase'[v] = phase[v]
  BY DEF Enters, TypeOK

LEMMA ReadersAnswered ==
    ASSUME TypeOK, NEW a \in App, NEW p \in {"has", "failed"}, Answer(a, p)
    PROVE  /\ phase' \in [Uds -> Phases] /\ reading' \in [Uds -> BOOLEAN]
           /\ \A v \in Uds : reading'[v] => reading[v]
           /\ \A v \in Uds : \/ phase'[v] = phase[v]
                             \/ phase[v] = "reading" /\ phase'[v] = p /\ AppOf[v] = a
<1>1. \A v \in Uds : v \in Waiting(a) => AppOf[v] = a BY DEF Waiting
<1>2. phase' \in [Uds -> Phases] BY DEF Answer, TypeOK, Phases
<1>3. reading' = [v \in Uds |-> reading[v] /\ v \notin Waiting(a)] BY DEF Answer
<1>4. reading' \in [Uds -> BOOLEAN] BY <1>3, Zenon
<1>5. \A v \in Uds : reading'[v] => reading[v] BY <1>3, Zenon
<1>6. \A v \in Uds : \/ phase'[v] = phase[v]
                     \/ phase[v] = "reading" /\ phase'[v] = p /\ AppOf[v] = a
      BY <1>1 DEF Answer
<1>7. QED BY <1>2, <1>4, <1>5, <1>6

\* No client has left or is freed, and no connection is filed.
LEMMA TablesKept ==
    ASSUME IInv, home' = home,
           lsock_app' = lsock_app, app_p2' = app_p2, hashApp' = hashApp,
           open_app' = open_app, uds_hash' = uds_hash,
           \A u \in Uds : Joined(u)' <=> Joined(u),
           \A u \in Uds : phase'[u] = "deleted" <=> phase[u] = "deleted",
           \A u \in Uds : phase'[u] # "out" => u \in Clients(AppOf[u])
    PROVE  Conns' /\ Tables'
<1>1. \A a \in App : Clients(a)' = Clients(a) BY DEF Clients
<1>2. Conns'
  <2>1. \A u \in Uds : lsock_app[u] = IF Joined(u) THEN AppOf[u] ELSE None
        BY DEF IInv, Conns
  <2>2. \A a \in App : uds_hash[a] = {u \in Clients(a) : Joined(u) /\ phase[u] # "deleted"}
        BY DEF IInv, Conns
  <2>3. \A u \in Uds : lsock_app'[u] = IF Joined(u)' THEN AppOf[u] ELSE None
        BY <2>1
  <2>4. \A a \in App : uds_hash'[a] = {u \in Clients(a)' : Joined(u)' /\ phase'[u] # "deleted"}
        BY <2>2, <1>1, ClientsOf
  <2>5. \A u \in Uds : phase'[u] # "out" => u \in Clients(AppOf[u])'
        BY <1>1, ClientsOf
  <2>6. QED BY <2>3, <2>4, <2>5 DEF Conns
<1>3. Tables' BY <1>1, ClientsOf DEF IInv, Tables
<1>4. QED BY <1>2, <1>3

\* Nobody deletes the data, and the transfer does not start.
LEMMA DeletingKept ==
    ASSUME IInv, home' = home, pushed' = pushed,
           file' = file, closed' = closed, delete_counter' = delete_counter,
           \A u \in Uds : Joined(u) => Joined(u)',
           \A u \in Uds : Gone(u)' <=> Gone(u),
           \A u \in Uds : phase'[u] \in {"left", "deleted"} <=> phase[u] \in {"left", "deleted"},
           \A a \in App : /\ Counted(a)' <=> Counted(a)
                          /\ recv[a] = "finished" => recv'[a] = "finished"
                          /\ multi[a] # "none" => multi'[a] # "none"
                          /\ multi'[a] = "sending" => multi[a] = "sending" \/ GoneOf(a) # Clients(a)
    PROVE  Deleting'
<1>1. \A a \in App : GoneOf(a)' = GoneOf(a) /\ Clients(a)' = Clients(a) BY GoneKept
<1>2. SUFFICES ASSUME NEW a \in App PROVE DeletingOf(a)' BY DEF Deleting
<1>3. DeletingOf(a) BY DEF IInv, Deleting
<1>4. \A u \in Clients(a) : u \in Uds BY ClientsOf
<1>5. GoneOf(a)' # {} => /\ \A u \in Clients(a)' : Joined(u)'
                         /\ recv'[a] = "finished" \/ multi'[a] # "none"
                            \/ a \notin pushed' \cup home'
      BY <1>1, <1>3, <1>4 DEF DeletingOf
<1>6. (\E u \in Clients(a)' : phase'[u] \in {"left", "deleted"}) => GoneOf(a)' = Clients(a)'
      BY <1>1, <1>3, <1>4 DEF DeletingOf
<1>7. delete_counter'[a] = IF Counted(a)' THEN Cardinality(GoneOf(a)') ELSE 0
      BY <1>1, <1>3 DEF DeletingOf
<1>8. /\ a \in closed' => GoneOf(a)' = Clients(a)' /\ GoneOf(a)' # {}
      /\ a \in file' <=> Counted(a)' /\ GoneOf(a)' # Clients(a)'
      /\ multi'[a] = "sending" => GoneOf(a)' # Clients(a)'
      BY <1>1, <1>3 DEF DeletingOf
<1>9. QED BY <1>5, <1>6, <1>7, <1>8 DEF DeletingOf

\* No connection is trashed, and no report is sent but of an application
\* whose clients are all there.
LEMMA ReportedKept ==
    ASSUME IInv, waited' = waited,
           \A u \in Uds : phase'[u] = "left" => phase[u] = "left",
           \A a \in App : \/ Reports(a)' \subseteq Reports(a)
                          \/ \A u \in Clients(a) : phase[u] # "left"
    PROVE  Reported'
<1>1. SUFFICES ASSUME NEW u \in Uds, phase'[u] = "left"
      PROVE  Reports(AppOf[u])' \subseteq waited'[u]
      BY DEF Reported
<1>2. phase[u] = "left" /\ AppOf[u] \in App /\ u \in Clients(AppOf[u])
      BY <1>1, ClientsOf DEF IInv, Conns
<1>3. Reports(AppOf[u]) \subseteq waited[u] BY <1>2 DEF IInv, Reported
<1>4. QED BY <1>2, <1>3

\* The process ends, if it does, on an overdue report.
LEMMA EndKept ==
    ASSUME IInv, crash' = crash, overdue' = overdue
    PROVE  OnlyOverdueEnds' /\ crash' \in {"no", "stats"}
  BY DEF IInv, OnlyOverdueEnds

\* An action of the other threads, or of the service on their messages,
\* which at most answers readers.
LEMMA AgentKept ==
    ASSUME IInv, home' = home,
           lsock_app' = lsock_app, app_p2' = app_p2, hashApp' = hashApp,
           open_app' = open_app, uds_hash' = uds_hash,
           \A u \in Uds : \/ phase'[u] = phase[u]
                          \/ phase[u] = "reading" /\ phase'[u] \in {"has", "failed"}
    PROVE  /\ Conns' /\ Tables'
           /\ \A u \in Uds : Gone(u)' <=> Gone(u)
           /\ \A u \in Uds : Joined(u)' <=> Joined(u)
           /\ \A u \in Uds : phase'[u] \in {"left", "deleted"} <=> phase[u] \in {"left", "deleted"}
<1>1. /\ \A u \in Uds : (Gone(u)' <=> Gone(u)) /\ (Joined(u)' <=> Joined(u))
      /\ \A u \in Uds : phase'[u] \in {"left", "deleted"} <=> phase[u] \in {"left", "deleted"}
      /\ \A u \in Uds : phase'[u] = "deleted" <=> phase[u] = "deleted"
      /\ \A u \in Uds : phase'[u] = "out" <=> phase[u] = "out"
      BY DEF Gone, Joined
<1>2. \A u \in Uds : phase'[u] # "out" => u \in Clients(AppOf[u]) BY <1>1 DEF IInv, Conns
<1>3. Conns' /\ Tables' BY <1>1, <1>2, TablesKept
<1>4. QED BY <1>1, <1>3

\* As long as data is on its way nobody leaves, no FILE and no stats file
\* is closed.
LEMMA UnderWay ==
    ASSUME IInv, NEW a \in App,
           recv[a] \in {"some", "zero"} \/ multi[a] = "sending"
    PROVE  /\ a \notin closed /\ a \in open_app
           /\ \A u \in Clients(a) : phase[u] \notin {"left", "deleted"}
<1>1. Counted(a) /\ a \in hashApp /\ (recv[a] # "none" => a \in pushed /\ multi[a] = "none")
      BY DEF IInv, TypeOK, Owners, Counted
<1>2. PICK u \in Clients(a) : Joined(u) BY <1>1 DEF IInv, Tables
<1>3. GoneOf(a) # Clients(a)
  <2>1. CASE recv[a] \in {"some", "zero"}
    <3>1. recv[a] # "finished" /\ multi[a] = "none" /\ a \in pushed \cup home BY <1>1, <2>1
    <3>2. GoneOf(a) = {} BY <3>1 DEF IInv, Deleting, DeletingOf
    <3>3. QED BY <1>2, <3>2
  <2>2. CASE multi[a] = "sending" BY <2>2 DEF IInv, Deleting, DeletingOf
  <2>3. QED BY <2>1, <2>2
<1>4. \A v \in Clients(a) : phase[v] \notin {"left", "deleted"}
      BY <1>3 DEF IInv, Deleting, DeletingOf
<1>5. a \in open_app BY <1>1, <1>2, <1>4 DEF IInv, Tables
<1>6. QED BY <1>3, <1>4, <1>5 DEF IInv, Deleting, DeletingOf

-----------------------------------------------------------------------------
(* The other threads.                                                      *)

LEMMA MasterAnswersStep == ASSUME IInv, NEW u \in Uds, MasterAnswers(u) PROVE IInv'
<1>1. UNCHANGED <<config, history, phase, reading, apps, data, logged, crash>> BY DEF MasterAnswers
<1>2. /\ UNCHANGED <<config, history, apps>> /\ \A v \in Uds : phase'[v] = phase[v]
      /\ UNCHANGED <<phase, reading, recv, multi, file, closed, delete_counter, logged, crash>>
      BY <1>1 DEF data
<1>3. /\ Conns' /\ Tables'
      /\ \A v \in Uds : (Gone(v)' <=> Gone(v)) /\ (Joined(v)' <=> Joined(v))
      BY <1>2, AgentKept DEF config, apps
<1>4. u \in pulls /\ AppOf[u] \notin home BY DEF MasterAnswers, IInv, Answers
<1>5. /\ pulls' = pulls \ {u}
      /\ c2i' \subseteq c2i \cup {<<"PULL_REJECT", u>>}
      /\ <<"PULL_REJECT", u>> \in c2i' => <<"PULL_REJECT", u>> \in c2i \/ AppOf[u] \notin pushed
      BY DEF MasterAnswers
<1>6. TypeOK'
  <2>1. <<"PULL_REJECT", u>> \in Messages BY DEF Messages
  <2>2. c2i' \subseteq Messages /\ pulls' \subseteq Uds BY <1>5, <2>1 DEF IInv, TypeOK
  <2>3. QED BY <1>2, <2>2 DEF IInv, TypeOK, history, config, apps
<1>7. Owners' BY <1>2 DEF IInv, Owners, Counted, config, apps
<1>8. Answers'
  <2>1. \A a \in App : /\ <<"SEQ_ALL", a>> \in c2i' => <<"SEQ_ALL", a>> \in c2i
                       /\ <<"SEQ_ZERO", a>> \in c2i' => <<"SEQ_ZERO", a>> \in c2i
                       /\ <<"SENT", a>> \in c2i' => <<"SENT", a>> \in c2i
        BY <1>5
  <2>2. \A v \in Uds : <<"PULL_REJECT", v>> \in c2i' => AppOf[v] \notin pushed \cup home
        BY <1>4, <1>5 DEF IInv, Answers
  <2>3. \A a \in App : Readable(a)' <=> Readable(a) BY <1>2 DEF Readable, config
  <2>4. \A v \in Uds : Readable(AppOf[v])' <=> Readable(AppOf[v]) BY <2>3, ClientsOf
  <2>5. QED BY <1>2, <1>5, <2>1, <2>2, <2>3, <2>4 DEF IInv, Answers, history, config, apps
<1>9. Deleting' BY <1>2, <1>3, DeletingKept DEF Counted, config
<1>10. OnlyOverdueEnds' /\ Reported'
  <2>1. \A b \in App : Reports(b)' \subseteq Reports(b) BY <1>5 DEF Reports
  <2>2. \A v \in Uds : phase'[v] = "left" => phase[v] = "left" BY <1>2
  <2>3. QED BY <1>2, <2>1, <2>2, ReportedKept, EndKept DEF history
<1>11. QED BY <1>3, <1>6, <1>7, <1>8, <1>9, <1>10 DEF IInv

(* The first packet comes before anybody has deleted the data.             *)
LEMMA RecvCreateStep == ASSUME IInv, NEW a \in App, RecvCreate(a) PROVE IInv'
<1>1. /\ UNCHANGED <<config, history, apps>> /\ \A v \in Uds : phase'[v] = phase[v]
      /\ UNCHANGED <<phase, reading, multi, closed, delete_counter, logged, pulls, c2i, crash>>
      /\ recv' = [recv EXCEPT ![a] = "some"] /\ recv[a] = "none"
      /\ a \in pushed /\ a \in hashApp /\ a \in open_app /\ file' = file \cup {a}
      BY DEF RecvCreate
<1>2. /\ Conns' /\ Tables'
      /\ \A v \in Uds : (Gone(v)' <=> Gone(v)) /\ (Joined(v)' <=> Joined(v))
      BY <1>1, AgentKept DEF config, apps
<1>3. /\ recv' \in [App -> RecvStates] /\ recv'[a] = "some"
      /\ \A b \in App : b # a => recv'[b] = recv[b]
      BY <1>1 DEF IInv, TypeOK, RecvStates
<1>4. a \notin home /\ multi[a] = "none" /\ ~Counted(a) BY <1>1 DEF IInv, Owners, Counted
<1>5. GoneOf(a) = {} BY <1>1, <1>4 DEF IInv, Deleting, DeletingOf
<1>6. TypeOK' BY <1>1, <1>3, <1>4 DEF IInv, TypeOK, history, config, apps
<1>7. Owners' BY <1>1, <1>3, <1>4 DEF IInv, Owners, Counted, config, apps
<1>8. Answers'
  <2>1. \A b \in App : Readable(b) => Readable(b)' BY <1>1, <1>3 DEF Readable, config
  <2>2. \A b \in App : recv[b] = "finished" => recv'[b] = "finished" BY <1>1, <1>3
  <2>3. QED BY <1>1, <2>1, <2>2, ClientsOf DEF IInv, Answers, history, config, apps
<1>9. Deleting'
  <2>1. \A b \in App : GoneOf(b)' = GoneOf(b) /\ Clients(b)' = Clients(b)
        BY <1>1, <1>2, GoneKept DEF config
  <2>2. Clients(a) # {} /\ Cardinality(GoneOf(a)) = 0
        BY <1>1, <1>5, FS_EmptySet DEF IInv, Tables
  <2>3. Counted(a)' /\ a \in file' BY <1>1, <1>3 DEF Counted
  <2>4. /\ ~(\E u \in Clients(a) : phase[u] \in {"left", "deleted"})
        /\ a \notin closed /\ delete_counter[a] = 0
        BY <1>4, <1>5, <2>2 DEF IInv, Deleting, DeletingOf
  <2>5. ASSUME NEW b \in App, b # a
        PROVE  (Counted(b)' <=> Counted(b)) /\ (b \in file' <=> b \in file) /\ recv'[b] = recv[b]
        BY <1>1, <1>3, <2>5 DEF Counted
  <2>6. ASSUME NEW b \in App
        PROVE  DeletingOf(b)'
    <3>1. CASE b = a BY <1>1, <1>4, <1>5, <2>1, <2>2, <2>3, <2>4, <3>1 DEF DeletingOf
    <3>2. CASE b # a
      <4>1. \A u \in Clients(b) : Joined(u)' <=> Joined(u) BY <1>2, ClientsOf
      <4>2. QED BY <1>1, <2>1, <2>5, <3>2, <4>1 DEF IInv, Deleting, DeletingOf, config
    <3>3. QED BY <3>1, <3>2
  <2>7. QED BY <2>6 DEF Deleting
<1>10. OnlyOverdueEnds' /\ Reported'
  <2>1. \A b \in App : Reports(b)' \subseteq Reports(b) BY <1>1 DEF Reports
  <2>2. \A v \in Uds : phase'[v] = "left" => phase[v] = "left" BY <1>1
  <2>3. QED BY <1>1, <2>1, <2>2, ReportedKept, EndKept DEF history
<1>11. QED BY <1>2, <1>6, <1>7, <1>8, <1>9, <1>10 DEF IInv

LEMMA RecvZeroStep == ASSUME IInv, NEW a \in App, RecvZero(a) PROVE IInv'
<1>1. /\ UNCHANGED <<config, history, apps>> /\ \A v \in Uds : phase'[v] = phase[v]
      /\ UNCHANGED <<phase, reading, multi, file, closed, delete_counter, logged, pulls>>
      /\ recv' = [recv EXCEPT ![a] = "zero"] /\ recv[a] = "some" /\ Written(a)
      /\ c2i' \subseteq c2i \cup {<<"SEQ_ZERO", a>>}
      /\ <<"SEQ_ZERO", a>> \in c2i' => <<"SEQ_ZERO", a>> \in c2i \/ seq_zero_notify
      BY DEF RecvZero
<1>2. /\ Conns' /\ Tables'
      /\ \A v \in Uds : (Gone(v)' <=> Gone(v)) /\ (Joined(v)' <=> Joined(v))
      BY <1>1, AgentKept DEF config, apps
<1>3. /\ recv' \in [App -> RecvStates] /\ recv'[a] = "zero"
      /\ \A b \in App : b # a => recv'[b] = recv[b]
      BY <1>1 DEF IInv, TypeOK, RecvStates
<1>4. a \notin closed BY <1>1, UnderWay
<1>5. OnlyOverdueEnds' /\ crash' \in {"no", "stats"} /\ Reported'
  <2>1. \A b \in App : Reports(b)' \subseteq Reports(b) BY <1>1 DEF Reports
  <2>2. crash' = crash BY <1>1, <1>4 DEF Written
  <2>3. QED BY <1>1, <2>1, <2>2, ReportedKept, EndKept DEF history
<1>6. \A b \in App : /\ recv[b] = "none" <=> recv'[b] = "none"
                     /\ recv[b] = "finished" <=> recv'[b] = "finished"
      BY <1>1, <1>3
<1>7. TypeOK'
  <2>1. <<"SEQ_ZERO", a>> \in Messages BY DEF Messages
  <2>2. c2i' \subseteq Messages BY <1>1, <2>1 DEF IInv, TypeOK
  <2>3. crash' \in {"no", "multi_p", "assert", "app_p", "stats", "fwrite"} BY <1>5
  <2>4. QED BY <1>1, <1>3, <1>6, <2>2, <2>3 DEF IInv, TypeOK, history, config, apps
<1>8. Owners' BY <1>1, <1>6 DEF IInv, Owners, Counted, config, apps
<1>9. Answers'
  <2>1. \A b \in App : Readable(b) => Readable(b)' BY <1>1, <1>3 DEF Readable, config
  <2>2. /\ \A b \in App : /\ <<"SEQ_ALL", b>> \in c2i' => <<"SEQ_ALL", b>> \in c2i
                          /\ <<"SENT", b>> \in c2i' => <<"SENT", b>> \in c2i
        /\ \A v \in Uds : <<"PULL_REJECT", v>> \in c2i' => <<"PULL_REJECT", v>> \in c2i
        BY <1>1
  <2>3. \A b \in App : <<"SEQ_ZERO", b>> \in c2i' => Readable(b)'
    <3>1. \A b \in App : <<"SEQ_ZERO", b>> \in c2i' => b = a \/ <<"SEQ_ZERO", b>> \in c2i
          BY <1>1
    <3>2. <<"SEQ_ZERO", a>> \in c2i' => Readable(a)'
          BY <1>1, <1>3, <2>1 DEF IInv, Answers, Readable, config
    <3>3. QED BY <2>1, <3>1, <3>2 DEF IInv, Answers
  <2>4. \A v \in Uds : Readable(AppOf[v]) => Readable(AppOf[v])' BY <2>1, ClientsOf
  <2>5. QED BY <1>1, <1>6, <2>2, <2>3, <2>4 DEF IInv, Answers, history, config, apps
<1>10. Deleting' BY <1>1, <1>2, <1>6, DeletingKept DEF Counted, config
<1>11. QED BY <1>2, <1>5, <1>7, <1>8, <1>9, <1>10 DEF IInv

LEMMA RecvFinishStep == ASSUME IInv, NEW a \in App, RecvFinish(a) PROVE IInv'
<1>1. /\ UNCHANGED <<config, history, apps>> /\ \A v \in Uds : phase'[v] = phase[v]
      /\ UNCHANGED <<phase, reading, multi, file, closed, delete_counter, logged, pulls>>
      /\ recv' = [recv EXCEPT ![a] = "finished"] /\ recv[a] = "zero" /\ Written(a)
      /\ c2i' = c2i \cup {<<"SEQ_ALL", a>>}
      BY DEF RecvFinish
<1>2. /\ Conns' /\ Tables'
      /\ \A v \in Uds : (Gone(v)' <=> Gone(v)) /\ (Joined(v)' <=> Joined(v))
      BY <1>1, AgentKept DEF config, apps
<1>3. /\ recv' \in [App -> RecvStates] /\ recv'[a] = "finished"
      /\ \A b \in App : b # a => recv'[b] = recv[b]
      BY <1>1 DEF IInv, TypeOK, RecvStates
<1>4. a \notin closed /\ a \in open_app BY <1>1, UnderWay
<1>5. OnlyOverdueEnds' /\ crash' \in {"no", "stats"} /\ Reported'
  <2>1. \A b \in App : b # a => Reports(b)' \subseteq Reports(b) BY <1>1 DEF Reports
  <2>2. \A v \in Clients(a) : phase[v] # "left" BY <1>1, UnderWay
  <2>3. crash' = crash BY <1>1, <1>4 DEF Written
  <2>4. \A b \in App : \/ Reports(b)' \subseteq Reports(b)
                        \/ \A v \in Clients(b) : phase[v] # "left"
        BY <2>1, <2>2
  <2>5. QED BY <1>1, <2>3, <2>4, ReportedKept, EndKept DEF history
<1>6. \A b \in App : /\ recv[b] = "none" <=> recv'[b] = "none"
                     /\ recv[b] = "finished" => recv'[b] = "finished"
      BY <1>1, <1>3
<1>7. TypeOK'
  <2>1. <<"SEQ_ALL", a>> \in Messages BY DEF Messages
  <2>2. c2i' \subseteq Messages BY <1>1, <2>1 DEF IInv, TypeOK
  <2>3. crash' \in {"no", "multi_p", "assert", "app_p", "stats", "fwrite"} BY <1>5
  <2>4. QED BY <1>1, <1>3, <1>6, <2>2, <2>3 DEF IInv, TypeOK, history, config, apps
<1>8. Owners' BY <1>1, <1>6 DEF IInv, Owners, Counted, config, apps
<1>9. Answers'
  <2>1. \A b \in App : Readable(b) => Readable(b)' BY <1>1, <1>3 DEF Readable, config
  <2>2. /\ \A b \in App : /\ <<"SEQ_ALL", b>> \in c2i' => b = a \/ <<"SEQ_ALL", b>> \in c2i
                          /\ <<"SEQ_ZERO", b>> \in c2i' => <<"SEQ_ZERO", b>> \in c2i
                          /\ <<"SENT", b>> \in c2i' => <<"SENT", b>> \in c2i
        /\ \A v \in Uds : <<"PULL_REJECT", v>> \in c2i' => <<"PULL_REJECT", v>> \in c2i
        BY <1>1
  <2>3. \A v \in Uds : Readable(AppOf[v]) => Readable(AppOf[v])' BY <2>1, ClientsOf
  <2>4. \A b \in App : /\ <<"SEQ_ALL", b>> \in c2i' => recv'[b] = "finished"
                       /\ <<"SEQ_ZERO", b>> \in c2i' => Readable(b)'
                       /\ <<"SEQ_ALL", b>> \in c2i' \/ <<"SENT", b>> \in c2i' => b \in open_app' \cup overdue'
        BY <1>1, <1>3, <1>4, <1>6, <2>1, <2>2 DEF IInv, Answers, apps, history
  <2>5. QED BY <1>1, <2>2, <2>3, <2>4 DEF IInv, Answers, history, config
<1>10. Deleting' BY <1>1, <1>2, <1>6, DeletingKept DEF Counted, config
<1>11. QED BY <1>2, <1>5, <1>7, <1>8, <1>9, <1>10 DEF IInv

LEMMA MulticastEndStep == ASSUME IInv, NEW a \in App, MulticastEnd(a) PROVE IInv'
<1>1. /\ UNCHANGED <<config, history, apps>> /\ \A v \in Uds : phase'[v] = phase[v]
      /\ UNCHANGED <<phase, reading, recv, file, closed, delete_counter, logged, pulls, crash>>
      /\ multi' = [multi EXCEPT ![a] = "ended"] /\ multi[a] = "sending"
      /\ c2i' = c2i \cup {<<"SENT", a>>}
      BY DEF MulticastEnd
<1>2. /\ Conns' /\ Tables'
      /\ \A v \in Uds : (Gone(v)' <=> Gone(v)) /\ (Joined(v)' <=> Joined(v))
      BY <1>1, AgentKept DEF config, apps
<1>3. /\ multi' \in [App -> MultiStates] /\ multi'[a] = "ended"
      /\ \A b \in App : b # a => multi'[b] = multi[b]
      BY <1>1 DEF IInv, TypeOK, MultiStates
<1>4. a \in open_app BY <1>1, UnderWay
<1>5. \A b \in App : /\ multi[b] = "none" <=> multi'[b] = "none"
                     /\ multi'[b] = "sending" => multi[b] = "sending"
      BY <1>1, <1>3
<1>6. TypeOK'
  <2>1. <<"SENT", a>> \in Messages BY DEF Messages
  <2>2. c2i' \subseteq Messages BY <1>1, <2>1 DEF IInv, TypeOK
  <2>3. QED BY <1>1, <1>3, <1>5, <2>2 DEF IInv, TypeOK, history, config, apps
<1>7. Owners' BY <1>1, <1>5 DEF IInv, Owners, Counted, config, apps
<1>8. Answers'
  <2>1. \A b \in App : Readable(b)' <=> Readable(b) BY <1>1 DEF Readable, config
  <2>2. /\ \A b \in App : /\ <<"SENT", b>> \in c2i' => b = a \/ <<"SENT", b>> \in c2i
                          /\ <<"SEQ_ZERO", b>> \in c2i' => <<"SEQ_ZERO", b>> \in c2i
                          /\ <<"SEQ_ALL", b>> \in c2i' => <<"SEQ_ALL", b>> \in c2i
        /\ \A v \in Uds : <<"PULL_REJECT", v>> \in c2i' => <<"PULL_REJECT", v>> \in c2i
        BY <1>1
  <2>3. \A v \in Uds : /\ Readable(AppOf[v])' <=> Readable(AppOf[v])
                       /\ multi'[AppOf[v]] # "none" <=> multi[AppOf[v]] # "none"
        BY <1>5, <2>1, ClientsOf
  <2>4. \A b \in App : /\ <<"SEQ_ALL", b>> \in c2i' => recv'[b] = "finished"
                       /\ <<"SEQ_ZERO", b>> \in c2i' => Readable(b)'
                       /\ <<"SEQ_ALL", b>> \in c2i' \/ <<"SENT", b>> \in c2i' => b \in open_app' \cup overdue'
        BY <1>1, <1>4, <2>1, <2>2 DEF IInv, Answers, apps, history
  <2>5. QED BY <1>1, <2>2, <2>3, <2>4 DEF IInv, Answers, history, config
<1>9. Deleting' BY <1>1, <1>2, <1>5, DeletingKept DEF Counted, config
<1>10. OnlyOverdueEnds' /\ Reported'
  <2>1. \A b \in App : b # a => Reports(b)' \subseteq Reports(b) BY <1>1 DEF Reports
  <2>2. \A v \in Clients(a) : phase[v] # "left" BY <1>1, UnderWay
  <2>3. \A b \in App : \/ Reports(b)' \subseteq Reports(b)
                        \/ \A v \in Clients(b) : phase[v] # "left"
        BY <2>1, <2>2
  <2>4. QED BY <1>1, <2>3, ReportedKept, EndKept DEF history
<1>11. QED BY <1>2, <1>6, <1>7, <1>8, <1>9, <1>10 DEF IInv

-----------------------------------------------------------------------------
(* The service thread, on messages.                                        *)

\* A report finds the stats file open or is overdue.
LEMMA StatsKept ==
    ASSUME IInv, NEW a \in App, a \in open_app \cup overdue, overdue' = overdue, Stats(a)
    PROVE  logged' \subseteq App /\ OnlyOverdueEnds' /\ crash' \in {"no", "stats"}
<1>1. crash' = crash \/ (crash' = "stats" /\ a \in overdue) BY DEF Stats
<1>2. logged' \subseteq App BY DEF Stats, IInv, TypeOK
<1>3. QED BY <1>1, <1>2 DEF IInv, OnlyOverdueEnds

\* What answering readers leaves to show.
LEMMA AnswerKept ==
    ASSUME IInv, NEW a \in App, NEW p \in {"has", "failed"}, Answer(a, p),
           UNCHANGED <<config, history, apps, data, pulls>>, c2i' \subseteq c2i,
           logged' \subseteq App, OnlyOverdueEnds', crash' \in {"no", "stats"},
           p = "has" => Readable(a), p = "failed" => a \notin pushed \cup home
    PROVE  IInv'
<1>1. /\ phase' \in [Uds -> Phases] /\ reading' \in [Uds -> BOOLEAN]
      /\ \A v \in Uds : reading'[v] => reading[v]
      /\ \A v \in Uds : \/ phase'[v] = phase[v]
                        \/ phase[v] = "reading" /\ phase'[v] = p /\ AppOf[v] = a
      BY ReadersAnswered DEF IInv
<1>2. /\ UNCHANGED <<config, history, apps>>
      /\ UNCHANGED <<recv, multi, file, closed, delete_counter, pulls>>
      BY DEF data
<1>3. \A u \in Uds : \/ phase'[u] = phase[u]
                     \/ phase[u] = "reading" /\ phase'[u] \in {"has", "failed"}
      BY <1>1
<1>4. /\ Conns' /\ Tables'
      /\ \A u \in Uds : (Gone(u)' <=> Gone(u)) /\ (Joined(u)' <=> Joined(u))
      /\ \A u \in Uds : phase'[u] \in {"left", "deleted"} <=> phase[u] \in {"left", "deleted"}
      BY <1>2, <1>3, AgentKept DEF config, apps
<1>5. TypeOK' BY <1>1, <1>2 DEF IInv, TypeOK, history, config, apps
<1>6. Owners' BY <1>2 DEF IInv, Owners, Counted, config, apps
<1>7. Answers'
  <2>1. \A b \in App : Readable(b)' <=> Readable(b) BY <1>2 DEF Readable, config
  <2>2. ASSUME NEW v \in Uds
        PROVE  /\ reading'[v] \/ phase'[v] = "reading" \/ v \in pulls' => AppOf[v] \notin home'
               /\ phase'[v] = "failed" \/ <<"PULL_REJECT", v>> \in c2i' => AppOf[v] \notin pushed' \cup home'
               /\ phase'[v] = "has" => IF AppOf[v] \in home' THEN multi'[AppOf[v]] # "none"
                                                             ELSE Readable(AppOf[v])'
    <3>1. UNCHANGED <<home, pushed, multi, pulls>> BY <1>2 DEF config
    <3>2. AppOf[v] \in App /\ (Readable(AppOf[v])' <=> Readable(AppOf[v])) BY <2>1, ClientsOf
    <3>3. /\ reading[v] \/ phase[v] = "reading" \/ v \in pulls => AppOf[v] \notin home
          /\ phase[v] = "failed" \/ <<"PULL_REJECT", v>> \in c2i => AppOf[v] \notin pushed \cup home
          /\ phase[v] = "has" => IF AppOf[v] \in home THEN multi[AppOf[v]] # "none" ELSE Readable(AppOf[v])
          BY DEF IInv, Answers
    <3>4. CASE phase'[v] = phase[v] BY <1>1, <3>1, <3>2, <3>3, <3>4
    <3>5. CASE phase[v] = "reading" /\ phase'[v] = p /\ AppOf[v] = a
          BY <1>1, <3>1, <3>2, <3>3, <3>5
    <3>6. QED BY <1>1, <3>4, <3>5
  <2>3. \A b \in App : /\ <<"SEQ_ALL", b>> \in c2i' => recv'[b] = "finished"
                       /\ <<"SEQ_ZERO", b>> \in c2i' => Readable(b)'
                       /\ <<"SEQ_ALL", b>> \in c2i' \/ <<"SENT", b>> \in c2i' => b \in open_app' \cup overdue'
        BY <1>2, <2>1 DEF IInv, Answers, apps, history
  <2>4. QED BY <2>2, <2>3 DEF Answers
<1>8. Deleting' BY <1>2, <1>4, DeletingKept DEF Counted, config
<1>9. Reported'
  <2>1. \A b \in App : Reports(b)' \subseteq Reports(b) BY DEF Reports
  <2>2. \A v \in Uds : phase'[v] = "left" => phase[v] = "left" BY <1>3
  <2>3. QED BY <1>2, <2>1, <2>2, ReportedKept DEF history
<1>10. QED BY <1>4, <1>5, <1>6, <1>7, <1>8, <1>9 DEF IInv

LEMMA PullRejectStep == ASSUME IInv, NEW u \in Uds, PullReject(u) PROVE IInv'
<1>1. /\ Answer(AppOf[u], "failed") /\ c2i' \subseteq c2i /\ <<"PULL_REJECT", u>> \in c2i
      /\ UNCHANGED <<config, history, apps, data, pulls>> /\ UNCHANGED <<logged, crash>>
      BY DEF PullReject
<1>2. AppOf[u] \in App /\ AppOf[u] \notin pushed \cup home BY <1>1, ClientsOf DEF IInv, Answers
<1>3. logged' \subseteq App /\ OnlyOverdueEnds' /\ crash' \in {"no", "stats"}
      BY <1>1, EndKept DEF IInv, TypeOK, history
<1>4. QED BY <1>1, <1>2, <1>3, AnswerKept

LEMMA SeqZeroStep == ASSUME IInv, NEW a \in App, SeqZero(a) PROVE IInv'
<1>1. /\ Answer(a, "has") /\ c2i' \subseteq c2i /\ <<"SEQ_ZERO", a>> \in c2i
      /\ UNCHANGED <<config, history, apps, data, pulls>> /\ UNCHANGED <<logged, crash>>
      BY DEF SeqZero
<1>2. Readable(a) BY <1>1 DEF IInv, Answers
<1>3. logged' \subseteq App /\ OnlyOverdueEnds' /\ crash' \in {"no", "stats"}
      BY <1>1, EndKept DEF IInv, TypeOK, history
<1>4. QED BY <1>1, <1>2, <1>3, AnswerKept

LEMMA SeqAllStep == ASSUME IInv, NEW a \in App, SeqAll(a) PROVE IInv'
<1>1. /\ Answer(a, "has") /\ c2i' \subseteq c2i /\ <<"SEQ_ALL", a>> \in c2i
      /\ UNCHANGED <<config, history, apps, data, pulls>> /\ Stats(a)
      BY DEF SeqAll
<1>2. Readable(a) /\ a \in open_app \cup overdue BY <1>1 DEF IInv, Answers, Readable
<1>3. logged' \subseteq App /\ OnlyOverdueEnds' /\ crash' \in {"no", "stats"}
      BY <1>1, <1>2, StatsKept DEF history
<1>4. QED BY <1>1, <1>2, <1>3, AnswerKept

LEMMA SenderSeqAllStep == ASSUME IInv, NEW a \in App, SenderSeqAll(a) PROVE IInv'
<1>1. /\ c2i' \subseteq c2i /\ <<"SENT", a>> \in c2i /\ Stats(a)
      /\ UNCHANGED <<config, history, apps>> /\ \A v \in Uds : phase'[v] = phase[v]
      /\ UNCHANGED <<phase, reading, recv, multi, file, closed, delete_counter, pulls>>
      BY DEF SenderSeqAll, data
<1>2. a \in open_app \cup overdue BY <1>1 DEF IInv, Answers
<1>3. logged' \subseteq App /\ OnlyOverdueEnds' /\ crash' \in {"no", "stats"}
      BY <1>1, <1>2, StatsKept DEF history
<1>4. /\ Conns' /\ Tables'
      /\ \A u \in Uds : (Gone(u)' <=> Gone(u)) /\ (Joined(u)' <=> Joined(u))
      BY <1>1, AgentKept DEF config, apps
<1>5. TypeOK' BY <1>1, <1>3 DEF IInv, TypeOK, history, config, apps
<1>6. Owners' BY <1>1 DEF IInv, Owners, Counted, config, apps
<1>7. Answers'
  <2>1. \A b \in App : Readable(b)' <=> Readable(b) BY <1>1 DEF Readable, config
  <2>2. \A v \in Uds : Readable(AppOf[v])' <=> Readable(AppOf[v]) BY <2>1, ClientsOf
  <2>3. QED BY <1>1, <2>1, <2>2 DEF IInv, Answers, history, config, apps
<1>8. Deleting' BY <1>1, <1>4, DeletingKept DEF Counted, config
<1>9. OnlyOverdueEnds' /\ Reported'
  <2>1. \A b \in App : Reports(b)' \subseteq Reports(b) BY <1>1 DEF Reports
  <2>2. QED BY <1>1, <1>3, <2>1, ReportedKept DEF history
<1>10. QED BY <1>4, <1>5, <1>6, <1>7, <1>8, <1>9 DEF IInv

-----------------------------------------------------------------------------
(* Requests of the clients.                                                *)

LEMMA AcceptStep == ASSUME IInv, NEW u \in Uds, Accept(u) PROVE IInv'
<1>1. /\ phase[u] = "out" /\ u \in Clients(AppOf[u]) /\ Enters(u, "open")
      /\ UNCHANGED <<config, history, apps>>
      /\ UNCHANGED <<reading, recv, multi, file, closed, delete_counter, logged, pulls, c2i, crash>>
      BY DEF Accept, data
<1>2. /\ phase' \in [Uds -> Phases] /\ phase'[u] = "open"
      /\ \A v \in Uds : v # u => phase'[v] = phase[v]
      BY <1>1, ClientEnters DEF IInv, Phases
<1>3. /\ \A v \in Uds : (Gone(v)' <=> Gone(v)) /\ (Joined(v)' <=> Joined(v))
      /\ \A v \in Uds : phase'[v] \in {"left", "deleted"} <=> phase[v] \in {"left", "deleted"}
      /\ \A v \in Uds : phase'[v] = "deleted" <=> phase[v] = "deleted"
      /\ \A v \in Uds : phase'[v] # "out" => v \in Clients(AppOf[v])
      BY <1>1, <1>2 DEF Gone, Joined, IInv, Conns
<1>4. Conns' /\ Tables' BY <1>1, <1>3, TablesKept DEF config, apps
<1>5. TypeOK' BY <1>1, <1>2 DEF IInv, TypeOK, history, config, apps
<1>6. Owners' BY <1>1 DEF IInv, Owners, Counted, config, apps
<1>7. Answers'
  <2>1. \A b \in App : Readable(b)' <=> Readable(b) BY <1>1 DEF Readable, config
  <2>2. \A v \in Uds : /\ Readable(AppOf[v])' <=> Readable(AppOf[v])
                       /\ phase'[v] = phase[v] \/ phase'[v] = "open"
        BY <1>2, <2>1, ClientsOf
  <2>3. QED BY <1>1, <2>1, <2>2 DEF IInv, Answers, history, config, apps
<1>8. Deleting' BY <1>1, <1>3, DeletingKept DEF Counted, config
<1>9. OnlyOverdueEnds' /\ Reported'
  <2>1. \A b \in App : Reports(b)' \subseteq Reports(b) BY <1>1 DEF Reports
  <2>2. \A v \in Uds : phase'[v] = "left" => phase[v] = "left" BY <1>2
  <2>3. QED BY <1>1, <2>1, <2>2, ReportedKept, EndKept DEF history
<1>10. QED BY <1>4, <1>5, <1>6, <1>7, <1>8, <1>9 DEF IInv

(* With one application app_p2 is its AppState from the first INT_REQ on.  *)
LEMMA IntReqStep == ASSUME OneOrderlyApp, IInv, NEW u \in Uds, IntReq(u) PROVE IInv'
<1> DEFINE a == AppOf[u]
<1>1. a \in App /\ a # None /\ u \in Clients(a)
  <2>1. phase[u] = "open" BY DEF IntReq
  <2>2. QED BY <2>1, ClientsOf DEF IInv, Conns
<1>2. (IF a \notin hashApp THEN a ELSE app_p2) = a BY <1>1 DEF IInv, Tables
<1>3. /\ phase[u] = "open" /\ Enters(u, "joined") /\ app_p2' = a
      /\ lsock_app' = [lsock_app EXCEPT ![u] = a]
      /\ uds_hash' = [uds_hash EXCEPT ![a] = @ \cup {u}]
      /\ hashApp' = hashApp \cup {a}
      /\ open_app' = IF a \notin hashApp THEN open_app \cup {a} ELSE open_app
      /\ UNCHANGED <<config, history>>
      /\ UNCHANGED <<reading, recv, multi, file, closed, delete_counter, logged, pulls, c2i, crash>>
      BY <1>2 DEF IntReq, data
<1>4. \A b \in App : b = a BY <1>1 DEF OneOrderlyApp
<1> HIDE DEF a
<1>5. /\ phase' \in [Uds -> Phases] /\ phase'[u] = "joined"
      /\ \A v \in Uds : v # u => phase'[v] = phase[v]
      BY <1>3, ClientEnters DEF IInv, Phases
<1>6. /\ \A v \in Uds : (Gone(v)' <=> Gone(v)) /\ (Joined(v) => Joined(v)')
      /\ \A v \in Uds : phase'[v] \in {"left", "deleted"} <=> phase[v] \in {"left", "deleted"}
      /\ Joined(u)' /\ \A v \in Uds : v # u => (Joined(v)' <=> Joined(v))
      BY <1>3, <1>5 DEF Gone, Joined
<1>7. \A b \in App : Clients(b)' = Clients(b) BY <1>3 DEF Clients, config
<1>8. /\ lsock_app' \in [Uds -> App \cup {None}] /\ uds_hash' \in [App -> SUBSET Uds]
      /\ lsock_app'[u] = a /\ \A v \in Uds : v # u => lsock_app'[v] = lsock_app[v]
      /\ uds_hash'[a] = uds_hash[a] \cup {u}
      BY <1>1, <1>3 DEF IInv, TypeOK
<1>9. TypeOK' BY <1>1, <1>3, <1>5, <1>8 DEF IInv, TypeOK, history, config
<1>10. Conns'
  <2>1. ASSUME NEW v \in Uds PROVE lsock_app'[v] = IF Joined(v)' THEN AppOf[v] ELSE None
    <3>1. lsock_app[v] = IF Joined(v) THEN AppOf[v] ELSE None BY DEF IInv, Conns
    <3>2. CASE v = u BY <1>6, <1>8, <3>2 DEF a
    <3>3. CASE v # u BY <1>6, <1>8, <3>1, <3>3
    <3>4. QED BY <3>2, <3>3
  <2>2. \A v \in Uds : phase'[v] # "out" => v \in Clients(AppOf[v])'
    <3>1. \A v \in Uds : phase[v] # "out" => v \in Clients(AppOf[v]) BY DEF IInv, Conns
    <3>2. \A v \in Uds : phase'[v] # "out" => phase[v] # "out" BY <1>3, <1>5
    <3>3. QED BY <1>7, <3>1, <3>2, ClientsOf
  <2>3. uds_hash'[a] = {v \in Clients(a)' : Joined(v)' /\ phase'[v] # "deleted"}
    <3>1. uds_hash[a] = {v \in Clients(a) : Joined(v) /\ phase[v] # "deleted"}
          BY <1>1 DEF IInv, Conns
    <3>2. \A v \in Clients(a) : v \in Uds BY <1>1, ClientsOf
    <3>3. QED BY <1>1, <1>5, <1>6, <1>7, <1>8, <3>1, <3>2
  <2>4. \A b \in App : uds_hash'[b] = {v \in Clients(b)' : Joined(v)' /\ phase'[v] # "deleted"}
        BY <1>4, <2>3
  <2>5. QED BY <2>1, <2>2, <2>4 DEF Conns
<1>11. Tables'
  <2>1. a \in hashApp' BY <1>3
  <2>2. \E v \in Clients(a)' : Joined(v)' BY <1>1, <1>6, <1>7
  <2>3. app_p2' = a BY <1>3
  <2>4. a \in open_app'
    <3>1. CASE a \notin hashApp BY <1>3, <3>1
    <3>2. CASE a \in hashApp
      <4>1. a \in open_app \/ \A v \in Clients(a) : phase[v] = "deleted"
            BY <1>1, <3>2 DEF IInv, Tables
      <4>2. QED BY <1>1, <1>3, <3>2, <4>1
    <3>3. QED BY <3>1, <3>2
  <2>5. QED BY <1>4, <2>1, <2>2, <2>3, <2>4 DEF Tables
<1>12. Owners' BY <1>3 DEF IInv, Owners, Counted, config
<1>13. Answers'
  <2>1. \A b \in App : Readable(b)' <=> Readable(b) BY <1>3 DEF Readable, config
  <2>2. \A v \in Uds : /\ Readable(AppOf[v])' <=> Readable(AppOf[v])
                       /\ phase'[v] = phase[v] \/ phase'[v] = "joined"
        BY <1>5, <2>1, ClientsOf
  <2>3. open_app \subseteq open_app' BY <1>3
  <2>4. QED BY <1>3, <2>1, <2>2, <2>3 DEF IInv, Answers, history, config
<1>14. Deleting' BY <1>3, <1>6, DeletingKept DEF Counted, config
<1>15. OnlyOverdueEnds' /\ Reported'
  <2>1. \A b \in App : Reports(b)' \subseteq Reports(b) BY <1>3 DEF Reports
  <2>2. \A v \in Uds : phase'[v] = "left" => phase[v] = "left" BY <1>5
  <2>3. QED BY <1>3, <2>1, <2>2, ReportedKept, EndKept DEF history
<1>16. QED BY <1>9, <1>10, <1>11, <1>12, <1>13, <1>14, <1>15 DEF IInv

LEMMA ReadStep == ASSUME IInv, NEW u \in Uds, Read(u) PROVE IInv'
<1> DEFINE a == AppOf[u]
<1>1. /\ phase[u] = "joined" /\ a \notin home /\ a \in App
      /\ reading' = [reading EXCEPT ![u] = ~Readable(a)]
      /\ Enters(u, IF Readable(a) THEN "has" ELSE "reading")
      /\ pulls' \subseteq pulls \cup {u}
      /\ UNCHANGED <<config, history, apps>>
      /\ UNCHANGED <<recv, multi, file, closed, delete_counter, logged, c2i, crash>>
      BY ClientsOf DEF Read, data
<1>2. /\ phase' \in [Uds -> Phases]
      /\ phase'[u] = IF Readable(a) THEN "has" ELSE "reading"
      /\ \A v \in Uds : v # u => phase'[v] = phase[v]
  <2>1. (IF Readable(a) THEN "has" ELSE "reading") \in Phases BY DEF Phases
  <2>2. QED BY <1>1, <2>1, ClientEnters DEF IInv
<1>3. /\ \A v \in Uds : (Gone(v)' <=> Gone(v)) /\ (Joined(v)' <=> Joined(v))
      /\ \A v \in Uds : phase'[v] \in {"left", "deleted"} <=> phase[v] \in {"left", "deleted"}
      /\ \A v \in Uds : phase'[v] = "deleted" <=> phase[v] = "deleted"
      /\ \A v \in Uds : phase'[v] # "out" => v \in Clients(AppOf[v])
  <2>1. \A v \in Uds : \/ phase'[v] = phase[v]
                       \/ phase[v] = "joined" /\ phase'[v] \in {"has", "reading"}
        BY <1>1, <1>2
  <2>2. QED BY <2>1 DEF Gone, Joined, IInv, Conns
<1>4. Conns' /\ Tables' BY <1>1, <1>3, TablesKept DEF config, apps
<1>5. reading' \in [Uds -> BOOLEAN] /\ \A v \in Uds : v # u => reading'[v] = reading[v]
  <2>1. Readable(a) \in BOOLEAN BY DEF Readable
  <2>2. QED BY <1>1, <2>1 DEF IInv, TypeOK
<1>6. TypeOK' BY <1>1, <1>2, <1>5 DEF IInv, TypeOK, history, config, apps
<1>7. Owners' BY <1>1 DEF IInv, Owners, Counted, config, apps
<1>8. Answers'
  <2>1. \A b \in App : Readable(b)' <=> Readable(b) BY <1>1 DEF Readable, config
  <2>2. ASSUME NEW v \in Uds
        PROVE  /\ reading'[v] \/ phase'[v] = "reading" \/ v \in pulls' => AppOf[v] \notin home'
               /\ phase'[v] = "failed" \/ <<"PULL_REJECT", v>> \in c2i' => AppOf[v] \notin pushed' \cup home'
               /\ phase'[v] = "has" => IF AppOf[v] \in home' THEN multi'[AppOf[v]] # "none"
                                                             ELSE Readable(AppOf[v])'
    <3>1. UNCHANGED <<home, pushed, multi, c2i>> BY <1>1 DEF config
    <3>2. AppOf[v] \in App /\ (Readable(AppOf[v])' <=> Readable(AppOf[v])) BY <2>1, ClientsOf
    <3>3. /\ reading[v] \/ phase[v] = "reading" \/ v \in pulls => AppOf[v] \notin home
          /\ phase[v] = "failed" \/ <<"PULL_REJECT", v>> \in c2i => AppOf[v] \notin pushed \cup home
          /\ phase[v] = "has" => IF AppOf[v] \in home THEN multi[AppOf[v]] # "none" ELSE Readable(AppOf[v])
          BY DEF IInv, Answers
    <3>4. CASE v # u BY <1>1, <1>2, <1>5, <3>1, <3>2, <3>3, <3>4
    <3>5. CASE v = u BY <1>1, <1>2, <3>1, <3>2, <3>3, <3>5
    <3>6. QED BY <3>4, <3>5
  <2>3. \A b \in App : /\ <<"SEQ_ALL", b>> \in c2i' => recv'[b] = "finished"
                       /\ <<"SEQ_ZERO", b>> \in c2i' => Readable(b)'
                       /\ <<"SEQ_ALL", b>> \in c2i' \/ <<"SENT", b>> \in c2i' => b \in open_app' \cup overdue'
        BY <1>1, <2>1 DEF IInv, Answers, apps, history
  <2>4. QED BY <2>2, <2>3 DEF Answers
<1>9. Deleting' BY <1>1, <1>3, DeletingKept DEF Counted, config
<1>10. OnlyOverdueEnds' /\ Reported'
  <2>1. \A b \in App : Reports(b)' \subseteq Reports(b) BY <1>1 DEF Reports
  <2>2. \A v \in Uds : phase'[v] = "left" => phase[v] = "left" BY <1>1, <1>2
  <2>3. QED BY <1>1, <2>1, <2>2, ReportedKept, EndKept DEF history
<1>11. QED BY <1>4, <1>6, <1>7, <1>8, <1>9, <1>10 DEF IInv

LEMMA ReadLocalStep == ASSUME OneOrderlyApp, IInv, NEW u \in Uds, ReadLocal(u) PROVE IInv'
<1> DEFINE a == AppOf[u]
<1>1. /\ phase[u] = "joined" /\ a \in home /\ a \in App /\ MayRead(u)
      /\ crash' = IF multi[a] = "none" THEN "multi_p" ELSE crash
      /\ Enters(u, "has")
      /\ UNCHANGED <<config, history, apps>>
      /\ UNCHANGED <<reading, recv, multi, file, closed, delete_counter, logged, pulls, c2i>>
      BY ClientsOf DEF ReadLocal, data, OneOrderlyApp
<1>2. multi[a] # "none" BY <1>1 DEF MayRead
<1>3. /\ phase' \in [Uds -> Phases] /\ phase'[u] = "has"
      /\ \A v \in Uds : v # u => phase'[v] = phase[v]
      BY <1>1, ClientEnters DEF IInv, Phases
<1>4. /\ \A v \in Uds : (Gone(v)' <=> Gone(v)) /\ (Joined(v)' <=> Joined(v))
      /\ \A v \in Uds : phase'[v] \in {"left", "deleted"} <=> phase[v] \in {"left", "deleted"}
      /\ \A v \in Uds : phase'[v] = "deleted" <=> phase[v] = "deleted"
      /\ \A v \in Uds : phase'[v] # "out" => v \in Clients(AppOf[v])
  <2>1. \A v \in Uds : \/ phase'[v] = phase[v]
                       \/ phase[v] = "joined" /\ phase'[v] = "has"
        BY <1>1, <1>3
  <2>2. QED BY <2>1 DEF Gone, Joined, IInv, Conns
<1>5. Conns' /\ Tables' BY <1>1, <1>4, TablesKept DEF config, apps
<1>6. OnlyOverdueEnds' /\ crash' \in {"no", "stats"} /\ Reported'
  <2>1. \A b \in App : Reports(b)' \subseteq Reports(b) BY <1>1 DEF Reports
  <2>2. \A v \in Uds : phase'[v] = "left" => phase[v] = "left" BY <1>1, <1>3
  <2>3. QED BY <1>1, <1>2, <2>1, <2>2, ReportedKept, EndKept DEF history
<1>7. TypeOK' BY <1>1, <1>3, <1>6 DEF IInv, TypeOK, history, config, apps
<1>8. Owners' BY <1>1 DEF IInv, Owners, Counted, config, apps
<1>9. Answers'
  <2>1. \A b \in App : Readable(b)' <=> Readable(b) BY <1>1 DEF Readable, config
  <2>2. \A v \in Uds : /\ Readable(AppOf[v])' <=> Readable(AppOf[v])
                       /\ \/ phase'[v] = phase[v]
                          \/ phase'[v] = "has" /\ AppOf[v] \in home /\ multi[AppOf[v]] # "none"
        BY <1>1, <1>2, <1>3, <2>1, ClientsOf
  <2>3. QED BY <1>1, <2>1, <2>2 DEF IInv, Answers, history, config, apps
<1>10. Deleting' BY <1>1, <1>4, DeletingKept DEF Counted, config
<1>11. QED BY <1>5, <1>6, <1>7, <1>8, <1>9, <1>10 DEF IInv

(* The master writes before anybody has deleted the data.                  *)
LEMMA WriteStep == ASSUME OneOrderlyApp, IInv, NEW u \in Uds, Write(u) PROVE IInv'
<1> DEFINE a == AppOf[u]
<1>1. /\ phase[u] \in {"joined", "has"} /\ u \in Master /\ a \in App /\ multi[a] = "none"
      /\ multi' = [multi EXCEPT ![a] = "written"] /\ file' = file \cup {a}
      /\ Enters(u, "has")
      /\ UNCHANGED <<config, history, apps>>
      /\ UNCHANGED <<reading, recv, closed, delete_counter, logged, pulls, c2i, crash>>
      BY ClientsOf DEF Write, MayWrite, OneOrderlyApp
<1> HIDE DEF a
<1>2. u \in Clients(a) /\ a \in home /\ a \in hashApp
  <2>1. u \in Clients(a) BY <1>1 DEF IInv, Conns, a
  <2>2. Joined(u) BY <1>1 DEF Joined
  <2>3. QED BY <1>1, <2>1, <2>2 DEF Clients, IInv, Tables
<1>3. recv[a] = "none" /\ ~Counted(a) BY <1>1, <1>2 DEF IInv, Owners, Counted
<1>4. GoneOf(a) = {} BY <1>1, <1>2, <1>3 DEF IInv, Deleting, DeletingOf
<1>5. /\ phase' \in [Uds -> Phases] /\ phase'[u] = "has"
      /\ \A v \in Uds : v # u => phase'[v] = phase[v]
      BY <1>1, ClientEnters DEF IInv, Phases
<1>6. /\ multi' \in [App -> MultiStates] /\ multi'[a] = "written"
      /\ \A b \in App : b # a => multi'[b] = multi[b]
      BY <1>1 DEF IInv, TypeOK, MultiStates
<1>7. /\ \A v \in Uds : (Gone(v)' <=> Gone(v)) /\ (Joined(v)' <=> Joined(v))
      /\ \A v \in Uds : phase'[v] \in {"left", "deleted"} <=> phase[v] \in {"left", "deleted"}
      /\ \A v \in Uds : phase'[v] = "deleted" <=> phase[v] = "deleted"
      /\ \A v \in Uds : phase'[v] # "out" => v \in Clients(AppOf[v])
  <2>1. \A v \in Uds : \/ phase'[v] = phase[v]
                       \/ phase[v] \in {"joined", "has"} /\ phase'[v] = "has"
        BY <1>1, <1>5
  <2>2. QED BY <2>1 DEF Gone, Joined, IInv, Conns
<1>8. Conns' /\ Tables' BY <1>1, <1>7, TablesKept DEF config, apps
<1>9. TypeOK' BY <1>1, <1>3, <1>5, <1>6 DEF IInv, TypeOK, history, config, apps
<1>10. Owners' BY <1>1, <1>2, <1>6 DEF IInv, Owners, Counted, config, apps
<1>11. Answers'
  <2>1. \A b \in App : Readable(b)' <=> Readable(b) BY <1>1 DEF Readable, config
  <2>2. \A v \in Uds : /\ Readable(AppOf[v])' <=> Readable(AppOf[v])
                       /\ multi[AppOf[v]] # "none" => multi'[AppOf[v]] # "none"
                       /\ \/ phase'[v] = phase[v]
                          \/ phase'[v] = "has" /\ AppOf[v] \in home /\ multi'[AppOf[v]] # "none"
        BY <1>1, <1>2, <1>5, <1>6, <2>1, ClientsOf DEF a
  <2>3. QED BY <1>1, <2>1, <2>2 DEF IInv, Answers, history, config, apps
<1>12. Deleting'
  <2>1. \A b \in App : GoneOf(b)' = GoneOf(b) /\ Clients(b)' = Clients(b)
        BY <1>1, <1>7, GoneKept DEF config
  <2>2. Clients(a) # {} /\ Cardinality(GoneOf(a)) = 0 BY <1>2, <1>4, FS_EmptySet
  <2>3. Counted(a)' /\ a \in file' BY <1>1, <1>6 DEF Counted
  <2>4. /\ ~(\E v \in Clients(a) : phase[v] \in {"left", "deleted"})
        /\ a \notin closed /\ delete_counter[a] = 0
        BY <1>1, <1>3, <1>4, <2>2 DEF IInv, Deleting, DeletingOf
  <2>5. ASSUME NEW b \in App, b # a
        PROVE  (Counted(b)' <=> Counted(b)) /\ (b \in file' <=> b \in file) /\ multi'[b] = multi[b]
        BY <1>1, <1>6, <2>5 DEF Counted
  <2>6. ASSUME NEW b \in App
        PROVE  DeletingOf(b)'
    <3>1. \A v \in Clients(b) : /\ Joined(v)' <=> Joined(v)
                                /\ phase'[v] \in {"left", "deleted"} <=> phase[v] \in {"left", "deleted"}
          BY <1>7, ClientsOf
    <3>2. CASE b = a BY <1>1, <1>4, <1>6, <2>1, <2>2, <2>3, <2>4, <3>1, <3>2 DEF DeletingOf
    <3>3. CASE b # a BY <1>1, <2>1, <2>5, <3>1, <3>3 DEF IInv, Deleting, DeletingOf, config
    <3>4. QED BY <3>2, <3>3
  <2>7. QED BY <2>6 DEF Deleting
<1>13. OnlyOverdueEnds' /\ Reported'
  <2>1. \A b \in App : Reports(b)' \subseteq Reports(b) BY <1>1 DEF Reports
  <2>2. \A v \in Uds : phase'[v] = "left" => phase[v] = "left" BY <1>1, <1>5
  <2>3. QED BY <1>1, <2>1, <2>2, ReportedKept, EndKept DEF history
<1>14. QED BY <1>8, <1>9, <1>10, <1>11, <1>12, <1>13 DEF IInv

\* The master pushes while it has not deleted the data itself.
LEMMA PushStep == ASSUME OneOrderlyApp, IInv, NEW u \in Uds, Push(u) PROVE IInv'
<1> DEFINE a == AppOf[u]
<1>1. /\ phase[u] = "has" /\ u \in Master /\ a \in App
      /\ crash' = IF multi[a] = "none" THEN "assert" ELSE crash
      /\ multi' = [multi EXCEPT ![a] = IF @ = "none" THEN @ ELSE "sending"]
      /\ UNCHANGED <<config, history, apps>> /\ \A v \in Uds : phase'[v] = phase[v]
      /\ UNCHANGED <<phase, reading, recv, file, closed, delete_counter, logged, pulls, c2i>>
      BY ClientsOf DEF Push, OneOrderlyApp
<1> HIDE DEF a
<1>2. /\ u \in Clients(a) /\ a \in home /\ u \notin GoneOf(a) /\ multi[a] # "none"
  <2>1. u \in Clients(a) BY <1>1 DEF IInv, Conns, a
  <2>2. a \in home BY <1>1, <2>1 DEF Clients, a
  <2>3. QED BY <1>1, <2>1, <2>2 DEF GoneOf, Gone, IInv, Answers, a
<1>3. /\ multi' \in [App -> MultiStates] /\ multi'[a] = "sending"
      /\ \A b \in App : b # a => multi'[b] = multi[b]
      BY <1>1, <1>2 DEF IInv, TypeOK, MultiStates
<1>4. /\ Conns' /\ Tables'
      /\ \A v \in Uds : (Gone(v)' <=> Gone(v)) /\ (Joined(v)' <=> Joined(v))
      BY <1>1, AgentKept DEF config, apps
<1>5. \A b \in App : /\ multi[b] = "none" <=> multi'[b] = "none"
                     /\ multi'[b] = "sending" => multi[b] = "sending" \/ GoneOf(b) # Clients(b)
      BY <1>2, <1>3
<1>6. OnlyOverdueEnds' /\ crash' \in {"no", "stats"} /\ Reported'
  <2>1. \A b \in App : Reports(b)' \subseteq Reports(b) BY <1>1 DEF Reports
  <2>2. QED BY <1>1, <1>2, <2>1, ReportedKept, EndKept DEF history
<1>7. TypeOK' BY <1>1, <1>3, <1>5, <1>6 DEF IInv, TypeOK, history, config, apps
<1>8. Owners' BY <1>1, <1>5 DEF IInv, Owners, Counted, config, apps
<1>9. Answers'
  <2>1. \A b \in App : Readable(b)' <=> Readable(b) BY <1>1 DEF Readable, config
  <2>2. \A v \in Uds : /\ Readable(AppOf[v])' <=> Readable(AppOf[v])
                       /\ multi'[AppOf[v]] # "none" <=> multi[AppOf[v]] # "none"
        BY <1>5, <2>1, ClientsOf
  <2>3. QED BY <1>1, <2>1, <2>2 DEF IInv, Answers, history, config, apps
<1>10. Deleting' BY <1>1, <1>4, <1>5, DeletingKept DEF Counted, config
<1>11. QED BY <1>4, <1>6, <1>7, <1>8, <1>9, <1>10 DEF IInv

(* DEL_REQ: as none has left, uds_hash holds all clients, and the counter  *)
(* those that have deleted: it says of the last one that it is the last.   *)
LEMMA DelStep == ASSUME OneOrderlyApp, IInv, NEW u \in Uds, Del(u) PROVE IInv'
<1> DEFINE a == AppOf[u]
<1>1. /\ phase[u] \in {"has", "failed"} /\ a \in App /\ MayDelete(u) /\ Enters(u, "done")
      /\ delete_counter' = [delete_counter EXCEPT ![a] = IF Counted(a) THEN @ + 1 ELSE @]
      /\ file' = IF LastDel(a) THEN file \ {a} ELSE file
      /\ closed' = IF LastDel(a) THEN closed \cup {a} ELSE closed
      /\ UNCHANGED <<config, history, apps>>
      /\ UNCHANGED <<reading, recv, multi, logged, pulls, c2i, crash>>
      BY ClientsOf DEF Del, OneOrderlyApp
<1> HIDE DEF a
<1>2. u \in Clients(a) /\ ~Gone(u) /\ u \notin GoneOf(a)
  <2>1. u \in Clients(a) BY <1>1 DEF IInv, Conns, a
  <2>2. ~Gone(u) BY <1>1 DEF Gone
  <2>3. QED BY <2>1, <2>2 DEF GoneOf
<1>3. /\ \A v \in Clients(a) : Joined(v)
      /\ recv[a] \in {"none", "finished"} /\ multi[a] # "sending"
      BY <1>1 DEF MayDelete, Joined, a
<1>4. recv[a] = "finished" \/ multi[a] # "none" \/ a \notin pushed \cup home
  <2>1. CASE phase[u] = "failed" BY <2>1 DEF IInv, Answers, a
  <2>2. CASE phase[u] = "has"
    <3>1. IF a \in home THEN multi[a] # "none" ELSE Readable(a) BY <2>2 DEF IInv, Answers, a
    <3>2. multi[a] \in MultiStates BY <1>1 DEF IInv, TypeOK
    <3>3. QED BY <1>3, <3>1, <3>2 DEF Readable, MultiStates
  <2>3. QED BY <1>1, <2>1, <2>2
<1>5. ~(\E v \in Clients(a) : phase[v] \in {"left", "deleted"})
      BY <1>1, <1>2 DEF IInv, Deleting, DeletingOf
<1>6. uds_hash[a] = Clients(a)
  <2>1. uds_hash[a] = {v \in Clients(a) : Joined(v) /\ phase[v] # "deleted"}
        BY <1>1 DEF IInv, Conns
  <2>2. QED BY <1>3, <1>5, <2>1
<1>7. /\ phase' \in [Uds -> Phases] /\ phase'[u] = "done"
      /\ \A v \in Uds : v # u => phase'[v] = phase[v]
      BY <1>1, ClientEnters DEF IInv, Phases
<1>8. /\ Gone(u)' /\ \A v \in Uds : v # u => (Gone(v)' <=> Gone(v))
      /\ \A v \in Uds : Joined(v)' <=> Joined(v)
      /\ \A v \in Uds : phase'[v] \in {"left", "deleted"} <=> phase[v] \in {"left", "deleted"}
      /\ \A v \in Uds : phase'[v] = "deleted" <=> phase[v] = "deleted"
      /\ \A v \in Uds : phase'[v] # "out" => v \in Clients(AppOf[v])
      BY <1>1, <1>7 DEF Gone, Joined, IInv, Conns
<1>9. /\ \A b \in App : Clients(b)' = Clients(b)
      /\ GoneOf(a)' = GoneOf(a) \cup {u}
      /\ \A b \in App : b # a => GoneOf(b)' = GoneOf(b)
  <2>1. \A b \in App : Clients(b)' = Clients(b) BY <1>1 DEF Clients, config
  <2>2. GoneOf(a)' = GoneOf(a) \cup {u} BY <1>1, <1>2, <1>8, <2>1, ClientsOf DEF GoneOf
  <2>3. ASSUME NEW b \in App, b # a PROVE GoneOf(b)' = GoneOf(b)
    <3>1. \A v \in Clients(b) : v \in Uds /\ v # u BY <2>3, ClientsOf DEF a
    <3>2. \A v \in Clients(b) : Gone(v)' <=> Gone(v) BY <1>8, <3>1
    <3>3. QED BY <2>1, <3>2 DEF GoneOf
  <2>4. QED BY <2>1, <2>2, <2>3
<1>10. /\ IsFiniteSet(Clients(a)) /\ IsFiniteSet(GoneOf(a)) /\ GoneOf(a)' \subseteq Clients(a)
       /\ Cardinality(GoneOf(a)) \in Nat /\ Cardinality(Clients(a)) \in Nat
       /\ Cardinality(GoneOf(a)') = Cardinality(GoneOf(a)) + 1
       /\ Cardinality(GoneOf(a)') <= Cardinality(Clients(a))
       /\ Cardinality(Clients(a)) <= Cardinality(Uds) /\ Cardinality(Uds) \in Nat
       /\ Cardinality(GoneOf(a)') = Cardinality(Clients(a)) => GoneOf(a)' = Clients(a)
  <2>1. /\ IsFiniteSet(Clients(a)) /\ IsFiniteSet(GoneOf(a)) /\ IsFiniteSet(Uds)
        /\ GoneOf(a)' \subseteq Clients(a) /\ Clients(a) \subseteq Uds
        BY <1>1, <1>2, <1>9, ClientsOf, LocalAssumption
  <2>2. Cardinality(GoneOf(a) \cup {u}) = Cardinality(GoneOf(a)) + 1
        BY <1>2, <2>1, FS_AddElement
  <2>3. Clients(a) \in SUBSET Uds /\ GoneOf(a)' \in SUBSET Clients(a) BY <2>1
  <2>4. /\ Cardinality(GoneOf(a)') <= Cardinality(Clients(a))
        /\ Cardinality(GoneOf(a)') = Cardinality(Clients(a)) => GoneOf(a)' = Clients(a)
        BY <2>1, <2>3, FS_Subset
  <2>5. Cardinality(Clients(a)) <= Cardinality(Uds) BY <2>1, <2>3, FS_Subset
  <2>6. QED BY <1>9, <2>1, <2>2, <2>4, <2>5, FS_CardinalityType
<1>11. /\ delete_counter[a] = IF Counted(a) THEN Cardinality(GoneOf(a)) ELSE 0
       /\ a \in file <=> Counted(a) /\ GoneOf(a) # Clients(a)
       BY <1>1 DEF IInv, Deleting, DeletingOf
<1>12. LastDel(a) <=> Counted(a) /\ GoneOf(a)' = Clients(a)
  <2>1. CASE Counted(a)
    <3>1. LastDel(a) <=> Cardinality(GoneOf(a)) + 1 >= Cardinality(Clients(a))
          BY <1>6, <1>11, <2>1 DEF LastDel
    <3>2. QED BY <1>10, <2>1, <3>1
  <2>2. CASE ~Counted(a) BY <2>2 DEF LastDel
  <2>3. QED BY <2>1, <2>2
<1>13. /\ delete_counter' \in [App -> 0 .. Cardinality(Uds)]
       /\ delete_counter'[a] = IF Counted(a) THEN Cardinality(GoneOf(a)') ELSE 0
       /\ \A b \in App : b # a => delete_counter'[b] = delete_counter[b]
  <2>1. /\ delete_counter'[a] = IF Counted(a) THEN delete_counter[a] + 1 ELSE delete_counter[a]
        /\ \A b \in App : b # a => delete_counter'[b] = delete_counter[b]
        BY <1>1 DEF IInv, TypeOK
  <2>2. delete_counter'[a] = IF Counted(a) THEN Cardinality(GoneOf(a)') ELSE 0
        BY <1>10, <1>11, <2>1
  <2>3. (IF Counted(a) THEN delete_counter[a] + 1 ELSE delete_counter[a]) \in 0 .. Cardinality(Uds)
        BY <1>10, <1>11
  <2>4. QED BY <1>1, <2>1, <2>2, <2>3 DEF IInv, TypeOK
<1>14. Conns' /\ Tables' BY <1>1, <1>8, TablesKept DEF config, apps
<1>15. TypeOK' BY <1>1, <1>7, <1>13 DEF IInv, TypeOK, history, config, apps
<1>16. Owners' BY <1>1 DEF IInv, Owners, Counted, config, apps
<1>17. Answers'
  <2>1. \A b \in App : Readable(b)' <=> Readable(b) BY <1>1 DEF Readable, config
  <2>2. \A v \in Uds : /\ Readable(AppOf[v])' <=> Readable(AppOf[v])
                       /\ phase'[v] = phase[v] \/ phase'[v] = "done"
        BY <1>7, <2>1, ClientsOf
  <2>3. QED BY <1>1, <2>1, <2>2 DEF IInv, Answers, history, config, apps
<1>18. Deleting'
  <2>1. \A b \in App : Counted(b)' <=> Counted(b) BY <1>1 DEF Counted
  <2>2. ASSUME NEW b \in App
        PROVE  DeletingOf(b)'
    <3>1. \A v \in Clients(b) : /\ Joined(v)' <=> Joined(v)
                                /\ phase'[v] \in {"left", "deleted"} <=> phase[v] \in {"left", "deleted"}
          BY <1>8, ClientsOf
    <3>2. UNCHANGED <<recv, multi, pushed, home>> BY <1>1 DEF config
    <3>3. CASE b = a
      <4>1. a \in file' <=> Counted(a) /\ GoneOf(a)' # Clients(a)
        <5>1. CASE LastDel(a) BY <1>1, <1>12, <5>1
        <5>2. CASE ~LastDel(a) BY <1>1, <1>2, <1>11, <1>12, <5>2
        <5>3. QED BY <5>1, <5>2
      <4>2. GoneOf(a)' # {} BY <1>9
      <4>3. a \in closed' => GoneOf(a)' = Clients(a)
        <5>1. a \in closed => FALSE BY <1>1, <1>2 DEF IInv, Deleting, DeletingOf
        <5>2. QED BY <1>1, <1>12, <5>1
      <4>4. QED BY <1>3, <1>4, <1>5, <1>9, <1>13, <2>1, <3>1, <3>2, <3>3, <4>1, <4>2, <4>3 DEF DeletingOf
    <3>4. CASE b # a
      <4>1. /\ b \in file' <=> b \in file
            /\ b \in closed' <=> b \in closed
            BY <1>1, <3>4
      <4>2. QED BY <1>9, <1>13, <2>1, <3>1, <3>2, <3>4, <4>1 DEF IInv, Deleting, DeletingOf
    <3>5. QED BY <3>3, <3>4
  <2>3. QED BY <2>2 DEF Deleting
<1>19. OnlyOverdueEnds' /\ Reported'
  <2>1. \A b \in App : Reports(b)' \subseteq Reports(b) BY <1>1 DEF Reports
  <2>2. \A v \in Uds : phase'[v] = "left" => phase[v] = "left" BY <1>8
  <2>3. QED BY <1>1, <2>1, <2>2, ReportedKept, EndKept DEF history
<1>20. QED BY <1>14, <1>15, <1>16, <1>17, <1>18, <1>19 DEF IInv

(* The clients leave when all of them have deleted the data.               *)
LEMMA TrashStep == ASSUME OneOrderlyApp, IInv, NEW u \in Uds, Trash(u) PROVE IInv'
<1> DEFINE a == AppOf[u]
<1>1. /\ phase[u] \notin {"out", "left", "deleted"} /\ a \in App /\ MayLeave(u)
      /\ Enters(u, "left") /\ waited' = [waited EXCEPT ![u] = Reports(a)]
      /\ UNCHANGED <<config, overdue, apps>>
      /\ UNCHANGED <<reading, recv, multi, file, closed, delete_counter, logged, pulls, c2i, crash>>
      BY ClientsOf DEF Trash, data, OneOrderlyApp
<1> HIDE DEF a
<1>2. u \in Clients(a) /\ phase[u] = "done" /\ GoneOf(a) = Clients(a)
  <2>1. u \in Clients(a) BY <1>1 DEF IInv, Conns, a
  <2>2. \A v \in Clients(a) : Gone(v) BY <1>1 DEF MayLeave, Gone, a
  <2>3. QED BY <1>1, <2>1, <2>2 DEF GoneOf, Gone
<1>3. /\ phase' \in [Uds -> Phases] /\ phase'[u] = "left"
      /\ \A v \in Uds : v # u => phase'[v] = phase[v]
      BY <1>1, ClientEnters DEF IInv, Phases
<1>4. /\ \A v \in Uds : (Gone(v)' <=> Gone(v)) /\ (Joined(v)' <=> Joined(v))
      /\ \A v \in Uds : phase'[v] = "deleted" <=> phase[v] = "deleted"
      /\ \A v \in Uds : phase'[v] # "out" => v \in Clients(AppOf[v])
      BY <1>2, <1>3 DEF Gone, Joined, IInv, Conns
<1>5. Conns' /\ Tables' BY <1>1, <1>4, TablesKept DEF config, apps
<1>6. TypeOK'
  <2>1. Reports(a) \in SUBSET Messages BY DEF IInv, TypeOK, Reports
  <2>2. waited' \in [Uds -> SUBSET Messages] BY <1>1, <2>1 DEF IInv, TypeOK
  <2>3. QED BY <1>1, <1>3, <2>2 DEF IInv, TypeOK, config, apps
<1>7. Owners' BY <1>1 DEF IInv, Owners, Counted, config, apps
<1>8. Answers'
  <2>1. \A b \in App : Readable(b)' <=> Readable(b) BY <1>1 DEF Readable, config
  <2>2. \A v \in Uds : /\ Readable(AppOf[v])' <=> Readable(AppOf[v])
                       /\ phase'[v] = phase[v] \/ phase'[v] = "left"
        BY <1>3, <2>1, ClientsOf
  <2>3. QED BY <1>1, <2>1, <2>2 DEF IInv, Answers, history, config, apps
<1>9. Deleting'
  <2>1. \A b \in App : GoneOf(b)' = GoneOf(b) /\ Clients(b)' = Clients(b)
        BY <1>1, <1>4, GoneKept DEF config
  <2>2. \A b \in App : Counted(b)' <=> Counted(b) BY <1>1 DEF Counted
  <2>3. ASSUME NEW b \in App
        PROVE  DeletingOf(b)'
    <3>1. \A v \in Clients(b) : Joined(v)' <=> Joined(v) BY <1>4, ClientsOf
    <3>2. (\E v \in Clients(b) : phase'[v] \in {"left", "deleted"}) => GoneOf(b) = Clients(b)
      <4>1. CASE b = a BY <1>2, <4>1
      <4>2. CASE b # a
        <5>1. \A v \in Clients(b) : phase'[v] = phase[v] BY <1>3, <4>2, ClientsOf DEF a
        <5>2. QED BY <5>1 DEF IInv, Deleting, DeletingOf
      <4>3. QED BY <4>1, <4>2
    <3>3. QED BY <1>1, <2>1, <2>2, <3>1, <3>2 DEF IInv, Deleting, DeletingOf, config
  <2>4. QED BY <2>3 DEF Deleting
<1>10. OnlyOverdueEnds' /\ Reported'
  <2>1. OnlyOverdueEnds' BY <1>1, EndKept
  <2>2. ASSUME NEW v \in Uds, phase'[v] = "left" PROVE Reports(AppOf[v])' \subseteq waited'[v]
    <3>1. Reports(AppOf[v])' = Reports(AppOf[v]) BY <1>1 DEF Reports
    <3>2. CASE v = u BY <1>1, <3>1, <3>2 DEF IInv, TypeOK, a
    <3>3. CASE v # u
      <4>1. waited'[v] = waited[v] /\ phase[v] = "left" BY <1>1, <1>3, <2>2, <3>3 DEF IInv, TypeOK
      <4>2. QED BY <3>1, <4>1 DEF IInv, Reported
    <3>4. QED BY <3>2, <3>3
  <2>3. QED BY <2>1, <2>2 DEF Reported
<1>11. QED BY <1>5, <1>6, <1>7, <1>8, <1>9, <1>10 DEF IInv

(* With the last connection the AppState is closed: all have deleted the   *)
(* data by then, and no message is on its way.                             *)
LEMMA DeleteStep == ASSUME IInv, NEW u \in Uds, Delete(u) PROVE IInv'
<1> DEFINE a == AppOf[u]
<1>1. a \in App /\ a # None /\ phase[u] = "left" /\ lsock_app[u] = a /\ u \in Clients(a)
  <2>1. phase[u] = "left" BY DEF Delete
  <2>2. QED BY <2>1, ClientsOf DEF IInv, Conns, Joined
<1> DEFINE last == uds_hash[a] = {u}
<1>2. /\ Enters(u, "deleted") /\ crash' = crash
      /\ overdue' = IF last /\ waited[u] \cap c2i # {} THEN overdue \cup {a} ELSE overdue
      /\ uds_hash' = [b \in App |-> IF b = a THEN uds_hash[b] \ {u} ELSE uds_hash[b]]
      /\ open_app' = IF last THEN open_app \ {a} ELSE open_app
      /\ file' = IF last THEN file \ {a} ELSE file
      /\ closed' = IF last /\ multi[a] # "none" THEN closed \cup {a} ELSE closed
      /\ UNCHANGED <<config, waited>>
      /\ UNCHANGED <<reading, lsock_app, app_p2, hashApp, recv, multi, delete_counter, logged, pulls, c2i>>
      BY <1>1 DEF Delete, Free
<1> HIDE DEF a
<1>3. GoneOf(a) = Clients(a) /\ a \notin file /\ GoneOf(a) # {}
      BY <1>1 DEF IInv, Deleting, DeletingOf
<1>4. /\ phase' \in [Uds -> Phases] /\ phase'[u] = "deleted"
      /\ \A v \in Uds : v # u => phase'[v] = phase[v]
      BY <1>2, ClientEnters DEF IInv, Phases
<1>5. /\ \A v \in Uds : (Gone(v)' <=> Gone(v)) /\ (Joined(v)' <=> Joined(v))
      /\ \A v \in Uds : phase'[v] \in {"left", "deleted"} <=> phase[v] \in {"left", "deleted"}
      BY <1>1, <1>4 DEF Gone, Joined
<1>6. \A b \in App : GoneOf(b)' = GoneOf(b) /\ Clients(b)' = Clients(b)
      BY <1>2, <1>5, GoneKept DEF config
<1>7. Conns'
  <2>1. \A v \in Uds : lsock_app'[v] = IF Joined(v)' THEN AppOf[v] ELSE None
        BY <1>2, <1>5 DEF IInv, Conns
  <2>2. \A v \in Uds : phase'[v] # "out" => v \in Clients(AppOf[v])'
    <3>1. \A v \in Uds : phase'[v] # "out" => phase[v] # "out" BY <1>1, <1>4
    <3>2. QED BY <1>6, <3>1, ClientsOf DEF IInv, Conns
  <2>3. ASSUME NEW b \in App
        PROVE  uds_hash'[b] = {v \in Clients(b)' : Joined(v)' /\ phase'[v] # "deleted"}
    <3>1. uds_hash[b] = {v \in Clients(b) : Joined(v) /\ phase[v] # "deleted"} BY DEF IInv, Conns
    <3>2. \A v \in Clients(b) : v \in Uds /\ AppOf[v] = b BY ClientsOf
    <3>3. CASE b = a
      <4>1. uds_hash'[b] = uds_hash[b] \ {u} BY <1>2, <3>3
      <4>2. QED BY <1>4, <1>5, <1>6, <3>1, <3>2, <4>1
    <3>4. CASE b # a
      <4>1. uds_hash'[b] = uds_hash[b] BY <1>2, <3>4
      <4>2. \A v \in Clients(b) : v # u BY <3>2, <3>4 DEF a
      <4>3. QED BY <1>4, <1>5, <1>6, <3>1, <3>2, <4>1, <4>2
    <3>5. QED BY <3>3, <3>4
  <2>4. QED BY <2>1, <2>2, <2>3 DEF Conns
<1>8. \A b \in App : b \in open_app' => b \in open_app BY <1>2
<1>9. Tables'
  <2>1. ASSUME NEW b \in App
        PROVE  /\ b \in hashApp' <=> \E v \in Clients(b)' : Joined(v)'
               /\ b \in hashApp' => app_p2' = b
    <3>1. \A v \in Clients(b) : Joined(v)' <=> Joined(v) BY <1>5, ClientsOf
    <3>2. QED BY <1>2, <1>6, <3>1 DEF IInv, Tables
  <2>2. ASSUME NEW b \in App, b \in hashApp'
        PROVE  b \in open_app' \/ \A v \in Clients(b)' : phase'[v] = "deleted"
    <3>1. b \in open_app \/ \A v \in Clients(b) : phase[v] = "deleted"
          BY <1>2, <2>2 DEF IInv, Tables
    <3>2. \A v \in Clients(b) : phase[v] = "deleted" => phase'[v] = "deleted"
          BY <1>4, ClientsOf
    <3>3. CASE b = a /\ last
      <4>1. uds_hash[a] = {v \in Clients(a) : Joined(v) /\ phase[v] # "deleted"}
            BY <1>1 DEF IInv, Conns
      <4>2. \A v \in Clients(a) : Joined(v)
            BY <1>3, ClientsOf DEF GoneOf, Gone, Joined
      <4>3. \A v \in Clients(a) : v # u => phase[v] = "deleted" BY <3>3, <4>1, <4>2
      <4>4. QED BY <1>1, <1>4, <1>6, <3>2, <3>3, <4>3
    <3>4. CASE ~(b = a /\ last) BY <1>2, <1>6, <3>1, <3>2, <3>4
    <3>5. QED BY <3>3, <3>4
  <2>3. QED BY <2>1, <2>2 DEF Tables
<1>10. TypeOK'
  <2>1. uds_hash' \in [App -> SUBSET Uds] BY <1>2 DEF IInv, TypeOK
  <2>2. open_app' \subseteq hashApp' /\ file' \subseteq App /\ closed' \subseteq App
        BY <1>1, <1>2 DEF IInv, TypeOK
  <2>3. overdue' \subseteq App BY <1>1, <1>2 DEF IInv, TypeOK
  <2>4. QED BY <1>2, <1>4, <2>1, <2>2, <2>3 DEF IInv, TypeOK, config
<1>11. Owners' BY <1>2 DEF IInv, Owners, Counted, config
<1>12. Answers'
  <2>1. \A b \in App : Readable(b)' <=> Readable(b) BY <1>2 DEF Readable, config
  <2>2. \A v \in Uds : /\ Readable(AppOf[v])' <=> Readable(AppOf[v])
                       /\ phase'[v] = phase[v] \/ phase'[v] = "deleted"
        BY <1>4, <2>1, ClientsOf
  <2>3. \A b \in App : <<"SEQ_ALL", b>> \in c2i' \/ <<"SENT", b>> \in c2i' => b \in open_app' \cup overdue'
    <3>1. ASSUME NEW b \in App, <<"SEQ_ALL", b>> \in c2i \/ <<"SENT", b>> \in c2i
          PROVE  b \in open_app' \cup overdue'
      <4>1. b \in open_app \cup overdue /\ Reports(b) # {}
            BY <3>1 DEF IInv, Answers, Reports
      <4>2. CASE b = a /\ last
        <5>1. Reports(a) \subseteq waited[u] /\ Reports(a) \subseteq c2i
              BY <1>1 DEF IInv, Reported, Reports, a
        <5>2. QED BY <1>2, <4>1, <4>2, <5>1
      <4>3. CASE ~(b = a /\ last) BY <1>2, <4>1, <4>3
      <4>4. QED BY <4>2, <4>3
    <3>2. QED BY <1>2, <3>1
  <2>4. QED BY <1>2, <2>1, <2>2, <2>3 DEF IInv, Answers, config
<1>13. Deleting'
  <2>1. \A b \in App : Counted(b)' <=> Counted(b) BY <1>2 DEF Counted
  <2>2. \A b \in App : /\ b \in file' <=> b \in file
                       /\ b \in closed' => b = a \/ b \in closed
        BY <1>2, <1>3
  <2>3. ASSUME NEW b \in App
        PROVE  DeletingOf(b)'
    <3>1. \A v \in Clients(b) : /\ Joined(v)' <=> Joined(v)
                                /\ phase'[v] \in {"left", "deleted"} <=> phase[v] \in {"left", "deleted"}
          BY <1>5, ClientsOf
    <3>2. b \in closed' => GoneOf(b) = Clients(b) /\ GoneOf(b) # {} BY <1>3, <2>2 DEF IInv, Deleting, DeletingOf
    <3>3. UNCHANGED <<recv, multi, pushed, home, delete_counter>> BY <1>2 DEF config
    <3>4. QED BY <1>6, <2>1, <2>2, <3>1, <3>2, <3>3 DEF IInv, Deleting, DeletingOf
  <2>4. QED BY <2>3 DEF Deleting
<1>14. OnlyOverdueEnds' /\ Reported'
  <2>1. overdue \subseteq overdue' BY <1>2
  <2>2. OnlyOverdueEnds' BY <1>2, <2>1 DEF IInv, OnlyOverdueEnds
  <2>3. \A b \in App : Reports(b)' \subseteq Reports(b) BY <1>2 DEF Reports
  <2>4. \A v \in Uds : phase'[v] = "left" => phase[v] = "left" BY <1>4
  <2>5. Reported' BY <1>2, <2>3, <2>4, ReportedKept
  <2>6. QED BY <2>2, <2>5
<1>15. QED BY <1>7, <1>9, <1>10, <1>11, <1>12, <1>13, <1>14 DEF IInv

-----------------------------------------------------------------------------
(* The theorems.                                                           *)

LEMMA NextIInv == ASSUME OneOrderlyApp, IInv, [Next]_vars PROVE IInv'
<1>1. CASE Agent
      BY <1>1, PullRejectStep, MasterAnswersStep, SeqAllStep, SeqZeroStep, SenderSeqAllStep,
         RecvCreateStep, RecvZeroStep, RecvFinishStep, MulticastEndStep DEF Agent
<1>2. CASE Client
      BY <1>2, AcceptStep, IntReqStep, ReadStep, ReadLocalStep, WriteStep, PushStep, DelStep,
         TrashStep, DeleteStep DEF Client
<1>3. CASE UNCHANGED vars
  <2>1. \A u \in Uds : (Gone(u)' <=> Gone(u)) /\ (Joined(u)' <=> Joined(u))
        BY <1>3 DEF vars, Gone, Joined
  <2>2. UNCHANGED <<config, history, apps, data>> /\ \A v \in Uds : phase'[v] = phase[v]
        BY <1>3 DEF vars
  <2>3. Conns' /\ Tables' BY <2>2, AgentKept DEF config, apps
  <2>4. Deleting' BY <1>3, <2>1, DeletingKept DEF vars, config, data, Counted
  <2>5. \A b \in App : Readable(b)' <=> Readable(b) BY <1>3 DEF vars, config, data, Readable
  <2>6. \A v \in Uds : Readable(AppOf[v])' <=> Readable(AppOf[v]) BY <2>5, ClientsOf
  <2>7. Answers' BY <1>3, <2>5, <2>6 DEF vars, history, config, apps, data, IInv, Answers
  <2>8. TypeOK' /\ Owners' /\ OnlyOverdueEnds' /\ Reported'
        BY <1>3 DEF vars, history, config, apps, data, IInv, TypeOK, Owners, Counted,
                    OnlyOverdueEnds, Reported, Reports
  <2>9. QED BY <2>3, <2>4, <2>7, <2>8 DEF IInv
<1>4. QED BY <1>1, <1>2, <1>3 DEF Next

THEOREM ClientsInvariant == ASSUME OneOrderlyApp PROVE Spec => []IInv
<1>1. Init => IInv BY InitIInv
<1>2. IInv /\ [Next]_vars => IInv' BY NextIInv
<1>3. QED BY <1>1, <1>2, PTL DEF Spec

(* The tables of the service thread (thread_service.c:223-570) for one     *)
(* application, however many of its clients there are.                     *)
THEOREM TypeCorrect == ASSUME OneOrderlyApp PROVE Spec => []TypeOK
<1>1. IInv => TypeOK BY DEF IInv
<1>2. QED BY <1>1, ClientsInvariant, PTL

(* Whoever was told REPLY_SUCCESS and has not deleted the data still has   *)
(* its file (thread_service.c:364-374, 420-448).                           *)
THEOREM FileIsKept == ASSUME OneOrderlyApp PROVE Spec => []FileKept
<1>1. ASSUME IInv, NEW u \in Uds, phase[u] = "has"
      PROVE  AppOf[u] \in file /\ (AppOf[u] \notin home => Readable(AppOf[u]))
  <2>1. IF AppOf[u] \in home THEN multi[AppOf[u]] # "none" ELSE Readable(AppOf[u])
        BY <1>1 DEF IInv, Answers
  <2>2. Counted(AppOf[u]) BY <2>1 DEF Counted, Readable
  <2>3. u \in Clients(AppOf[u]) /\ u \notin GoneOf(AppOf[u])
        BY <1>1 DEF IInv, Conns, GoneOf, Gone
  <2>4. AppOf[u] \in App /\ GoneOf(AppOf[u]) # Clients(AppOf[u]) BY <2>3, ClientsOf
  <2>5. AppOf[u] \in file BY <1>1, <2>2, <2>4 DEF IInv, Deleting, DeletingOf
  <2>6. QED BY <2>1, <2>5
<1>2. IInv => FileKept BY <1>1 DEF FileKept
<1>3. QED BY <1>2, ClientsInvariant, PTL

(* The last DEL_REQ, told from delete_counter, removes the file            *)
(* (thread_service.c:433-447).                                             *)
THEOREM LastRemoves == ASSUME OneOrderlyApp PROVE Spec => []LastDeleteRemoves
<1>1. ASSUME IInv, NEW a \in App, \A u \in Clients(a) : phase[u] \in {"done", "left", "deleted"}
      PROVE  a \notin file
  <2>1. GoneOf(a) = Clients(a) BY <1>1 DEF GoneOf, Gone
  <2>2. QED BY <1>1, <2>1 DEF IInv, Deleting, DeletingOf
<1>2. IInv => LastDeleteRemoves BY <1>1 DEF LastDeleteRemoves
<1>3. QED BY <1>2, ClientsInvariant, PTL

(* No packet comes for a closed FILE, and the only report that finds the   *)
(* statistics closed is one that was under way for the whole delay         *)
(* (thread_service.c:717-724, hero.c:356-385, 676-694).                    *)
THEOREM EndsOnlyOverdue == ASSUME OneOrderlyApp PROVE Spec => []OnlyOverdueEnds
<1>1. IInv => OnlyOverdueEnds BY DEF IInv
<1>2. QED BY <1>1, ClientsInvariant, PTL

=============================================================================
