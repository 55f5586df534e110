------------------------- MODULE MasterConns_proofs -------------------------
(***************************************************************************)
(* Proofs about MasterConns, for any masters, applications, clients and    *)
(* number of nodes.  The list that three threads change without a lock is  *)
(* whole in every state in which no removal has overlapped with another    *)
(* thread's use of it: the nodes reached from the first one are those      *)
(* allocated, linked and not taken out, in the order of allocation; a node *)
(* is looked for, linked and taken out under the eyes of the others        *)
(* without their losing their place; and the list is the table ConnTable   *)
(* describes.                                                              *)
(***************************************************************************)
EXTENDS MasterConns, FiniteSetTheorems, SequenceTheorems, WellFoundedInduction, TLAPS

-----------------------------------------------------------------------------
(* Sets of numbers.                                                        *)

(* A set of numbers has a least one: sets of numbers below n are finite,   *)
(* and there is no endless descent among finite sets.                      *)
LEMMA Least ==
    ASSUME NEW T, T \subseteq Nat, T # {}
    PROVE  \E m \in T : \A k \in T : m <= k
<1> DEFINE R == StrictSubsetOrdering(Nat)
           S == FiniteSubsetsOf(Nat)
           U == {0 .. n : n \in T}
<1>1. IsWellFoundedOn(R, S) BY FS_StrictSubsetOrderingWellFounded
<1>2. U \subseteq S /\ U # {}
  <2>1. \A n \in T : 0 .. n \subseteq Nat /\ IsFiniteSet(0 .. n) BY FS_Interval
  <2>2. QED BY <2>1 DEF FiniteSubsetsOf
<1>3. PICK x \in U : \A y \in U : <<y, x>> \notin R
  <2> HIDE DEF R, S, U
  <2>1. QED BY <1>1, <1>2, WFMin
<1>4. PICK m \in T : x = 0 .. m OBVIOUS
<1>5. ASSUME NEW k \in T, ~(m <= k) PROVE FALSE
  <2>1. 0 .. k \subseteq 0 .. m /\ m \notin 0 .. k /\ m \in 0 .. m BY <1>5
  <2>2. <<0 .. k, 0 .. m>> \in R BY <2>1 DEF StrictSubsetOrdering
  <2>3. QED BY <1>3, <1>4, <2>2
<1>6. QED BY <1>5

LEMMA Greatest ==
    ASSUME NEW n \in Nat, NEW T, T \subseteq 1 .. n, T # {}
    PROVE  \E m \in T : \A k \in T : k <= m
<1> DEFINE U == {n - k : k \in T}
<1>1. U \subseteq Nat /\ U # {} OBVIOUS
<1>2. PICK u \in U : \A k \in U : u <= k
  <2> HIDE DEF U
  <2>1. QED BY <1>1, Least
<1>3. PICK m \in T : u = n - m OBVIOUS
<1>4. ASSUME NEW k \in T PROVE k <= m
  <2>1. n - k \in U OBVIOUS
  <2>2. n - m <= n - k BY <1>2, <1>3, <2>1
  <2>3. k \in Nat /\ m \in Nat OBVIOUS
  <2>4. QED BY <2>2, <2>3
<1>5. QED BY <1>4

-----------------------------------------------------------------------------
(* The chain of next pointers.                                             *)

Sizes == /\ MaxNode \in Nat /\ MaxNode >= 2 /\ Null \notin Node
         /\ next \in [Node -> Maybe(Node)]

LEMMA NodeNat == Sizes => /\ Node = 1 .. MaxNode /\ MaxNode \in Nat
                          /\ \A n \in Node : n \in Nat /\ 1 <= n /\ n <= MaxNode
  BY DEF Sizes, Node

(* c follows the next pointers for its first n places.                     *)
Walks(c, n) ==
    \A k \in 1 .. n : c[k] = IF k = 1 THEN N2C
                             ELSE IF c[k - 1] = Null THEN Null ELSE next[c[k - 1]]

LEMMA WalkStep ==
    ASSUME Sizes, NEW n \in 1 .. MaxNode, n < MaxNode, NEW c \in [1 .. n -> Maybe(Node)], Walks(c, n)
    PROVE  \E d \in [1 .. n + 1 -> Maybe(Node)] : Walks(d, n + 1)
<1> DEFINE x == IF c[n] = Null THEN Null ELSE next[c[n]]
           d == [k \in 1 .. n + 1 |-> IF k <= n THEN c[k] ELSE x]
<1>1. c[n] \in Maybe(Node) OBVIOUS
<1>2. x \in Maybe(Node) BY <1>1 DEF Sizes, Maybe
<1>3. d \in [1 .. n + 1 -> Maybe(Node)] BY <1>2
<1>4. ASSUME NEW k \in 1 .. n + 1
      PROVE  d[k] = IF k = 1 THEN N2C ELSE IF d[k - 1] = Null THEN Null ELSE next[d[k - 1]]
  <2>1. CASE k = 1 BY <2>1 DEF Walks
  <2>2. CASE k # 1 /\ k <= n
    <3>1. d[k] = c[k] /\ d[k - 1] = c[k - 1] BY <2>2
    <3>2. k \in 1 .. n BY <2>2
    <3>3. QED BY <2>2, <3>1, <3>2 DEF Walks
  <2>3. CASE k = n + 1
    <3>1. d[k] = x /\ d[k - 1] = c[n] BY <2>3
    <3>2. QED BY <2>3, <3>1
  <2>4. QED BY <2>1, <2>2, <2>3
<1>5. Walks(d, n + 1) BY <1>4 DEF Walks
<1>6. QED BY <1>3, <1>5

LEMMA WalkExists ==
    ASSUME Sizes
    PROVE  \E c \in [Node -> Maybe(Node)] : Walks(c, MaxNode)
<1> DEFINE T == {n \in 1 .. MaxNode : ~\E c \in [1 .. n -> Maybe(Node)] : Walks(c, n)}
<1>1. ASSUME T # {} PROVE FALSE
  <2>1. PICK m \in T : \A k \in T : m <= k
    <3>1. T \subseteq Nat OBVIOUS
    <3> HIDE DEF T
    <3>2. QED BY <1>1, <3>1, Least
  <2>2. m # 1
    <3>1. [k \in 1 .. 1 |-> N2C] \in [1 .. 1 -> Maybe(Node)] BY DEF Sizes, Maybe, Node, N2C
    <3>2. Walks([k \in 1 .. 1 |-> N2C], 1) BY DEF Walks
    <3>3. QED BY <3>1, <3>2
  <2>3. m - 1 \in 1 .. MaxNode /\ m - 1 < MaxNode /\ m - 1 < m /\ (m - 1) + 1 = m
        BY <2>2 DEF Sizes
  <2>4. m - 1 \notin T BY <2>1, <2>3
  <2>5. PICK c \in [1 .. m - 1 -> Maybe(Node)] : Walks(c, m - 1) BY <2>3, <2>4
  <2>6. \E d \in [1 .. (m - 1) + 1 -> Maybe(Node)] : Walks(d, (m - 1) + 1) BY <2>3, <2>5, WalkStep
  <2>7. QED BY <2>3, <2>6
<1>2. MaxNode \in 1 .. MaxNode BY DEF Sizes
<1>3. QED BY <1>1, <1>2 DEF Node

LEMMA WalkUnique ==
    ASSUME Sizes, NEW c, NEW d, Walks(c, MaxNode), Walks(d, MaxNode)
    PROVE  \A k \in Node : c[k] = d[k]
<1> DEFINE T == {k \in Node : c[k] # d[k]}
<1>1. ASSUME T # {} PROVE FALSE
  <2>1. PICK m \in T : \A k \in T : m <= k
    <3>1. T \subseteq Nat BY DEF Node
    <3> HIDE DEF T
    <3>2. QED BY <1>1, <3>1, Least
  <2>2. m \in 1 .. MaxNode /\ c[m] # d[m] BY DEF Node
  <2>3. m # 1 BY <2>2 DEF Walks
  <2>4. m - 1 \in 1 .. MaxNode /\ m - 1 < m BY <2>2, <2>3 DEF Sizes
  <2>5. c[m - 1] = d[m - 1] BY <2>1, <2>4 DEF Node
  <2>6. QED BY <2>2, <2>3, <2>5 DEF Walks
<1>2. QED BY <1>1

LEMMA ChainIs ==
    ASSUME Sizes
    PROVE  Chain \in [Node -> Maybe(Node)] /\ Walks(Chain, MaxNode)
<1> DEFINE Body(f, k) == IF k = 1 THEN N2C
                         ELSE LET n == f[k - 1] IN IF n = Null THEN Null ELSE next[n]
<1>1. PICK c \in [Node -> Maybe(Node)] : Walks(c, MaxNode) BY WalkExists
<1>2. c = [k \in Node |-> Body(c, k)]
  <2>1. \A k \in Node : c[k] = Body(c, k) BY <1>1 DEF Walks, Node
  <2>2. QED BY <1>1, <2>1
<1>3. \E f : f = [k \in Node |-> Body(f, k)] BY <1>2
<1>4. Chain = [k \in Node |-> Body(Chain, k)] BY Zenon, <1>3 DEF Chain
<1> DEFINE f == Chain
<1> HIDE DEF f
<1>5. f = [k \in Node |-> Body(f, k)] BY <1>4 DEF f
<1>6. \A k \in Node : f[k] = Body(f, k) BY <1>5
<1>7. Walks(f, MaxNode) BY <1>6 DEF Walks, Node
<1>8. \A k \in Node : f[k] = c[k] BY <1>1, <1>7, WalkUnique
<1>9. f = [k \in Node |-> f[k]] BY <1>5
<1>10. f \in [Node -> Maybe(Node)] BY <1>1, <1>8, <1>9
<1>11. QED BY <1>7, <1>10 DEF f

(* What follows the next pointers for all its places is the chain.         *)
LEMMA ChainUnique ==
    ASSUME Sizes, NEW c \in [Node -> Maybe(Node)], Walks(c, MaxNode)
    PROVE  Chain = c
<1>1. Chain \in [Node -> Maybe(Node)] /\ Walks(Chain, MaxNode) BY ChainIs
<1> DEFINE f == Chain
<1>2. f \in [Node -> Maybe(Node)] /\ Walks(f, MaxNode) BY <1>1
<1> HIDE DEF f
<1>3. \A k \in Node : f[k] = c[k] BY <1>2, WalkUnique
<1>4. f = c BY <1>2, <1>3
<1>5. QED BY <1>4 DEF f

-----------------------------------------------------------------------------
(* The invariant.                                                          *)

(* Threads that are connecting.                                            *)
Using == {"search", "link", "back", "last", "found"}
Pushing == {"link", "back", "last"}
Removing == {"cut", "join", "free"}

(* The nodes that can be reached from the first one: what has been         *)
(* allocated, is not about to be linked and has not been taken out.        *)
Linked ==
    {n \in 1 .. n_node : /\ n \notin freed
                         /\ \A t \in Thread : ~(pc[t] = "link" /\ at[t] = n)
                         /\ ~(pc["recv"] = "free" /\ loop = n)}

(* Nodes are linked in the order in which they were allocated.             *)
Follows(S, n, m) ==
    IF m = Null THEN \A k \in S : k <= n
    ELSE m \in S /\ m > n /\ \A k \in S : k <= n \/ m <= k
Highest(S, m) == m \in S /\ \A k \in S : k <= m

Where ==
    /\ pc["service"] \in {"idle"} \union Using
    /\ pc["netmap"] \in {"idle", "search", "found"}
    /\ pc["recv"] \in {"scan", "select", "each"} \union Using \union Removing

Nodes ==
    /\ Pipes \subseteq Linked /\ freed \subseteq 1 .. n_node
    /\ \A n \in Node : /\ conn[n] = Null <=> n > n_node
                       /\ conn[n] = "pipe" <=> n \in Pipes
                       /\ n > n_node => next[n] = Null
    /\ \A n \in closed : n <= n_node /\ conn[n] \in gone

Forward == \A n \in Linked : Follows(Linked, n, next[n])

(* The pointer back is not set yet, or set already to the node before the  *)
(* one being taken out.                                                    *)
Backward ==
    \A n \in Linked \ {N2C} :
        \/ \E t \in Thread : pc[t] = "back" /\ at[t] = n
        \/ pc["recv"] = "join" /\ next[loop] = n /\ prev[n] = prev[loop]
        \/ prev[n] \in Linked /\ next[prev[n]] = n

LastIs ==
    IF \E t \in Thread : pc[t] \in {"back", "last"}
    THEN \A t \in Thread : pc[t] \in {"back", "last"} => Highest(Linked \ {n_node}, last)
    ELSE IF pc["recv"] = "cut" THEN Highest(Linked \ {loop}, last)
    ELSE Highest(Linked, last)

(* Who adds a node has found none for the same master.                     *)
Adding ==
    \A t \in Thread : pc[t] \in Pushing =>
        /\ at[t] = n_node /\ n_node > I2C /\ n_node \notin freed
        /\ conn[n_node] = want[t]
        /\ pc[t] = "link" => /\ next[n_node] = Null
                             /\ \A n \in Linked : conn[n] # want[t]

Finds(t) ==
    /\ pc[t] \in Using => app[t] \in App /\ want[t] = MasterOf[app[t]]
    /\ pc[t] = "search" =>
        /\ at[t] = Null \/ at[t] \in Linked
        /\ t # "netmap" => \A n \in Linked : at[t] = Null \/ n < at[t] => conn[n] # want[t]
    /\ pc[t] = "found" => at[t] \in Linked /\ conn[at[t]] = want[t]

Searching == \A t \in Thread : Finds(t)

(* The receive thread's pass.                                              *)
Pass ==
    /\ readable \union writable \subseteq Linked
    /\ pc["recv"] \notin {"scan", "select"} =>
        /\ loop \in 1 .. n_node /\ after # loop /\ (after = Null \/ after \in Linked)
        /\ readable \ Pipes \subseteq closed
    /\ pc["recv"] \in Removing =>
        /\ loop \notin Pipes /\ loop \in closed /\ loop \notin freed
        /\ loop \notin readable \union writable
    /\ pc["recv"] = "join" => next[loop] # Null /\ prev[next[loop]] = prev[loop]
    /\ pc["recv"] = "cut" => next[loop] = Null /\ last = prev[loop]

Bound ==
    /\ \A a \in App : fds_p[a] # Null => fds_p[a] \in Linked /\ conn[fds_p[a]] = MasterOf[a]
    /\ \A i \in DOMAIN n2c : fds_p[n2c[i]] # Null

Asking ==
    /\ \A i \in DOMAIN i2c : i2c[i] \in apps
    /\ pc["recv"] \in Using => app["recv"] \in apps

Kept ==
    gone = {} => /\ \A a \in apps : \E n \in Linked : conn[n] = MasterOf[a]
                 /\ pc["recv"] \notin Pushing \union Removing

Fates == crash = "no" \/ (crash \in {"refused", "sigpipe"} /\ gone # {}) \/ (crash = "garbage" /\ ~clean)


Shape ==
    /\ Nodes /\ Forward /\ Backward /\ LastIs /\ Adding /\ Searching
    /\ Pass /\ Bound /\ Asking /\ Fates

CInv ==
    /\ TypeOK /\ Where /\ Kept
    /\ clash <=> Overlap
    /\ clash => gone # {}
    /\ ~clash => Shape

-----------------------------------------------------------------------------
(* The list.                                                               *)

(* S is linked in order, from the first node on.                           *)
InOrder(S) == S \subseteq Node /\ N2C \in S /\ \A n \in S : Follows(S, n, next[n])

LEMMA Climbs ==
    ASSUME Sizes, NEW S, InOrder(S)
    PROVE  \A k \in Node : Chain[k] = Null \/ (Chain[k] \in S /\ k <= Chain[k])
<1> DEFINE f == Chain
           T == {k \in Node : ~(f[k] = Null \/ (f[k] \in S /\ k <= f[k]))}
<1>1. f \in [Node -> Maybe(Node)] /\ Walks(f, MaxNode) BY ChainIs
<1> HIDE DEF f
<1>2. ASSUME T # {} PROVE FALSE
  <2>1. PICK m \in T : \A k \in T : m <= k
    <3>1. T \subseteq Nat BY DEF Node
    <3> HIDE DEF T
    <3>2. QED BY <1>2, <3>1, Least
  <2>2. m \in 1 .. MaxNode /\ f[m] # Null /\ ~(f[m] \in S /\ m <= f[m]) BY DEF Node
  <2>3. m # 1 BY <1>1, <2>2 DEF Walks, InOrder, N2C
  <2>4. m - 1 \in 1 .. MaxNode /\ m - 1 < m BY <2>2, <2>3 DEF Sizes
  <2>5. f[m - 1] # Null /\ f[m] = next[f[m - 1]] BY <1>1, <2>2, <2>3 DEF Walks
  <2>6. f[m - 1] \in S /\ m - 1 <= f[m - 1] BY <2>1, <2>4, <2>5 DEF Node
  <2>7. Follows(S, f[m - 1], f[m]) BY <2>5, <2>6 DEF InOrder
  <2>8. f[m] \in S /\ f[m] > f[m - 1] BY <2>2, <2>7 DEF Follows
  <2>9. f[m] \in Nat /\ f[m - 1] \in Nat BY <2>6, <2>8, NodeNat DEF InOrder
  <2>10. QED BY <2>2, <2>6, <2>8, <2>9
<1>3. QED BY <1>2 DEF f

LEMMA Reaches ==
    ASSUME Sizes, NEW S, InOrder(S), NEW n \in S
    PROVE  \E k \in Node : Chain[k] = n
<1> DEFINE f == Chain
           T == {m \in S : ~\E k \in Node : f[k] = m}
<1>1. f \in [Node -> Maybe(Node)] /\ Walks(f, MaxNode) BY ChainIs
<1>2. \A k \in Node : f[k] = Null \/ (f[k] \in S /\ k <= f[k]) BY Climbs
<1> HIDE DEF f
<1>3. ASSUME T # {} PROVE FALSE
  <2>1. PICK m \in T : \A k \in T : m <= k
    <3>1. T \subseteq Nat BY NodeNat DEF InOrder
    <3> HIDE DEF T
    <3>2. QED BY <1>3, <3>1, Least
  <2>2. m \in S /\ m \in 1 .. MaxNode /\ m \in Nat /\ m >= 1 BY NodeNat DEF InOrder
  <2>3. 1 \in Node /\ f[1] = N2C BY <1>1 DEF Walks, Node, Sizes
  <2>4. m # 1 BY <2>3 DEF N2C
  <2> DEFINE B == {b \in S : b < m}
  <2>5. B \subseteq 1 .. MaxNode /\ B # {}
    <3>1. B \subseteq 1 .. MaxNode BY NodeNat DEF InOrder
    <3>2. N2C \in S /\ N2C < m BY <2>2, <2>4 DEF InOrder, N2C
    <3>3. QED BY <3>1, <3>2
  <2>6. PICK p \in B : \A b \in B : b <= p
    <3> HIDE DEF B
    <3>1. MaxNode \in Nat BY DEF Sizes
    <3>2. QED BY <2>5, <3>1, Greatest
  <2>7. p \in S /\ p < m /\ p \in 1 .. MaxNode /\ Follows(S, p, next[p])
        BY <2>5 DEF InOrder
  <2>8. next[p] = m
    <3>1. next[p] # Null BY <2>2, <2>7 DEF Follows
    <3>2. next[p] \in S /\ next[p] > p /\ (m <= p \/ next[p] <= m) BY <2>2, <2>7, <3>1 DEF Follows
    <3>3. next[p] \in 1 .. MaxNode BY <3>2 DEF InOrder, Node
    <3>4. next[p] \notin B BY <2>6, <2>7, <3>2, <3>3
    <3>5. QED BY <2>2, <2>7, <3>2, <3>3, <3>4
  <2>9. PICK k \in Node : f[k] = p
    <3>1. p \notin T BY <2>1, <2>2, <2>7
    <3>2. QED BY <2>7, <3>1
  <2>10. f[k] # Null BY <2>7, <2>9 DEF Sizes, Node
  <2>11. k <= p BY <1>2, <2>9, <2>10
  <2>12. k + 1 \in 1 .. MaxNode /\ k + 1 # 1 /\ (k + 1) - 1 = k BY <2>2, <2>7, <2>9, <2>11 DEF Node, Sizes
  <2>13. f[k + 1] = m BY <1>1, <2>8, <2>9, <2>10, <2>12 DEF Walks
  <2>14. QED BY <2>12, <2>13 DEF Node
<1>4. QED BY <1>3 DEF f

LEMMA ListIs ==
    ASSUME Sizes, NEW S, InOrder(S)
    PROVE  InList = S
<1>1. \A n \in S : \E k \in Node : Chain[k] = n BY Reaches
<1>2. \A k \in Node : Chain[k] = Null \/ Chain[k] \in S BY Climbs
<1>3. Null \notin S BY DEF Sizes, InOrder
<1> DEFINE f == Chain
<1>4. InList = {f[k] : k \in Node} \ {Null} BY DEF InList
<1> HIDE DEF f
<1>5. QED BY <1>1, <1>2, <1>3, <1>4 DEF f

-----------------------------------------------------------------------------
(* The steps, from a state without an overlap.                             *)

Good == TypeOK /\ Where /\ Kept /\ Shape /\ ~Overlap

LEMMA GoodSizes == Good => Sizes
  BY ConnAssumption DEF Good, TypeOK, Sizes

LEMMA GoodOrder == Good => InOrder(Linked)
<1> SUFFICES ASSUME Good PROVE InOrder(Linked) OBVIOUS
<1>1. n_node \in Nat /\ n_node <= MaxNode /\ MaxNode \in Nat
      BY ConnAssumption DEF Good, TypeOK, Node
<1>2. Linked \subseteq Node BY <1>1 DEF Linked, Node
<1>3. QED BY <1>2 DEF Good, Shape, Nodes, Forward, InOrder, Pipes

LEMMA GoodList == Good => InList = Linked
  BY GoodSizes, GoodOrder, ListIs

LEMMA TypeStep ==
    ASSUME Good, Step, clash' \in BOOLEAN
    PROVE  TypeOK'
<1> USE ConnAssumption DEF Good, TypeOK, Maybe, thread, list, select, shared, pipe, outside, Goes
<1>1. ASSUME NEW t \in Thread, Search(t) PROVE TypeOK'
      BY <1>1 DEF Search
<1>2. ASSUME NEW t \in Thread, Connect(t) PROVE TypeOK'
  <2>1. n_node' \in Node BY <1>2 DEF Connect, Node
  <2>2. at' \in [Thread -> Node \union {Null}] /\ conn' \in [Node -> Master \union {"pipe", Null}]
    <3>1. CASE UNCHANGED <<n_node, conn, at, pc>> BY <3>1
    <3>2. CASE conn' = [conn EXCEPT ![n_node'] = want[t]] /\ at' = [at EXCEPT ![t] = n_node']
      <4>1. want[t] \in Master \union {"pipe", Null} OBVIOUS
      <4> HIDE DEF Good
      <4>2. conn' \in [Node -> Master \union {"pipe", Null}] BY <3>2, <4>1 DEF Good
      <4>3. at' \in [Thread -> Node \union {Null}] BY <2>1, <3>2 DEF Good
      <4>4. QED BY <4>2, <4>3
    <3>3. QED BY <1>2, <3>1, <3>2 DEF Connect
  <2>3. pc' \in [Thread -> {"idle", "search", "link", "back", "last", "found",
                           "scan", "select", "each", "cut", "join", "free"}]
        BY <1>2 DEF Connect
  <2>4. crash' \in {"no", "dangling", "null", "abort", "refused", "sigpipe", "garbage"}
        BY <1>2 DEF Connect
  <2>5. UNCHANGED <<last, next, prev, freed, queue, clean, want, app, select, shared, pipe, outside>>
        BY <1>2 DEF Connect
  <2>6. QED BY <2>1, <2>2, <2>3, <2>4, <2>5
<1>3. ASSUME NEW t \in Thread, PushLink(t) PROVE TypeOK'
      BY <1>3 DEF PushLink
<1>4. ASSUME NEW t \in Thread, PushBack(t) PROVE TypeOK'
      BY <1>4 DEF PushBack
<1>5. ASSUME NEW t \in Thread, PushLast(t) PROVE TypeOK'
      BY <1>5 DEF PushLast
<1>6. ASSUME SvJoined PROVE TypeOK'
  <2>1. app["service"] \in App BY <1>6 DEF Shape, Searching, Finds, SvJoined, Thread, Using
  <2>2. QED BY <1>6, <2>1 DEF SvJoined
<1>7. ASSUME NEW a \in App, SvInt(a) PROVE TypeOK'
  <2>1. N2C \in Node /\ MasterOf[a] \in Master BY DEF N2C, Node
  <2>2. QED BY <1>7, <2>1 DEF SvInt, LookFor, Thread
<1>8. ASSUME NEW a \in App, SvRead(a) PROVE TypeOK'
  <2>1. i2c' \in Seq(App) BY <1>8, AppendProperties DEF SvRead
  <2>2. QED BY <1>8, <2>1 DEF SvRead
<1>9. ASSUME NEW a \in App, NmPacket(a) PROVE TypeOK'
  <2>1. N2C \in Node /\ MasterOf[a] \in Master BY DEF N2C, Node
  <2>2. QED BY <1>9, <2>1 DEF NmPacket, LookFor, Thread
<1>10. ASSUME NmMissed PROVE TypeOK' BY <1>10 DEF NmMissed
<1>11. ASSUME NmBind PROVE TypeOK'
  <2>1. app["netmap"] \in App BY <1>11 DEF Shape, Searching, Finds, NmBind, Thread, Using
  <2>2. n2c' \in Seq(App) BY <1>11, <2>1, AppendProperties DEF NmBind
  <2>3. QED BY <1>11, <2>1, <2>2 DEF NmBind, Thread
<1>12. ASSUME RvScan PROVE TypeOK'
  <2>1. InList \subseteq Node BY GoodList, GoodOrder DEF InOrder
  <2>2. QED BY <1>12, <2>1 DEF RvScan
<1>13. ASSUME RvSelect PROVE TypeOK'
  <2>1. N2C \in Node BY DEF Node, N2C
  <2>2. QED BY <1>13, <2>1 DEF RvSelect
<1>14. ASSUME RvNext PROVE TypeOK' BY <1>14 DEF RvNext, Live
<1>15. ASSUME RvWrite PROVE TypeOK'
  <2>1. loop \in Node BY <1>15 DEF RvWrite
  <2>2. \A i \in DOMAIN queue[loop] : queue[loop][i] \in {"PULL", "FIRST_SEQ"} \X App
        BY <2>1, ElementOfSeq
  <2>3. queue' \in [Node -> Seq({"PULL", "FIRST_SEQ"} \X App)] BY <1>15, <2>1 DEF RvWrite
  <2>4. QED BY <1>15, <2>2, <2>3 DEF RvWrite
<1>16. ASSUME RvPull PROVE TypeOK'
  <2>1. i2c # <<>> BY <1>16 DEF RvPull, Reads
  <2>2. Head(i2c) \in App /\ Tail(i2c) \in Seq(App) BY <2>1, HeadTailProperties
  <2>3. N2C \in Node /\ MasterOf[Head(i2c)] \in Master BY <2>2 DEF N2C, Node
  <2>4. QED BY <1>16, <2>2, <2>3 DEF RvPull, Reads, LookFor
<1>17. ASSUME RvPulled PROVE TypeOK'
  <2>1. app["recv"] \in App /\ at["recv"] \in Linked
        BY <1>17 DEF Shape, Searching, Finds, RvPulled, Thread, Using
  <2>2. at["recv"] \in Node BY <2>1, GoodOrder DEF InOrder
  <2>3. Pull(app["recv"]) \in {"PULL", "FIRST_SEQ"} \X App BY <2>1 DEF Pull
  <2>4. Append(queue[at["recv"]], Pull(app["recv"])) \in Seq({"PULL", "FIRST_SEQ"} \X App)
        BY <2>2, <2>3, AppendProperties
  <2>5. QED BY <1>17, <2>4 DEF RvPulled
<1>18. ASSUME RvFirst PROVE TypeOK'
  <2> DEFINE a == Head(n2c)
  <2>1. n2c # <<>> BY <1>18 DEF RvFirst, Reads
  <2>2. a \in App /\ Tail(n2c) \in Seq(App) BY <2>1, HeadTailProperties
  <2>3. First(a) \in {"PULL", "FIRST_SEQ"} \X App BY <2>2 DEF First
  <2>4. Live(fds_p[a]) =>
            Append(queue[fds_p[a]], First(a)) \in Seq({"PULL", "FIRST_SEQ"} \X App)
        BY <2>2, <2>3, AppendProperties DEF Live
  <2>5. queue' \in [Node -> Seq({"PULL", "FIRST_SEQ"} \X App)]
    <3>1. CASE Live(fds_p[a])
      <4>1. queue' = [queue EXCEPT ![fds_p[a]] = Append(@, First(a))] BY <1>18, <3>1 DEF RvFirst
      <4>2. QED BY <2>4, <3>1, <4>1
    <3>2. CASE ~Live(fds_p[a]) BY <1>18, <3>2 DEF RvFirst
    <3>3. QED BY <3>1, <3>2
  <2>6. crash' \in {"no", "dangling", "null", "abort", "refused", "sigpipe", "garbage"} BY <1>18 DEF RvFirst
  <2>7. readable' \subseteq Node BY <1>18 DEF RvFirst, Reads
  <2>8. n2c' \in Seq(App) BY <1>18, <2>2 DEF RvFirst
  <2>9. UNCHANGED <<list, clean, thread, loop, after, writable, shared, i2c, outside>>
        BY <1>18 DEF RvFirst
  <2>10. QED BY <2>5, <2>6, <2>7, <2>8, <2>9
<1>19. ASSUME RvClosed PROVE TypeOK'
  <2>1. loop \in Node BY <1>19 DEF RvClosed
  <2>2. crash' \in {"no", "dangling", "null", "abort", "refused", "sigpipe", "garbage"}
        BY <1>19 DEF RvClosed
  <2>3. prev' \in [Node -> Node \union {Null}] BY <1>19, <2>1 DEF RvClosed
  <2>4. /\ last' \in Node \union {Null} /\ readable' \subseteq Node
        /\ pc' = [pc EXCEPT !["recv"] = "cut"] \/ pc' = [pc EXCEPT !["recv"] = "join"]
        /\ UNCHANGED <<next, n_node, conn, freed, queue, clean, at, want, app, loop, after,
                       writable, shared, pipe, outside>>
        BY <1>19, <2>1 DEF RvClosed, Goes
  <2>5. QED BY <2>2, <2>3, <2>4
<1>20. ASSUME RvUnlink PROVE TypeOK'
  <2>1. loop \in Node BY <1>20 DEF RvUnlink, Shape, Pass, Node
  <2>2. next' \in [Node -> Node \union {Null}]
    <3>1. next[loop] \in Node \union {Null} BY <2>1
    <3>2. \/ next' = next \/ next' = [next EXCEPT ![last] = Null]
          \/ next' = [next EXCEPT ![prev[loop]] = next[loop]]
          BY <1>20 DEF RvUnlink
    <3>3. QED BY <3>1, <3>2
  <2>3. crash' \in {"no", "dangling", "null", "abort", "refused", "sigpipe", "garbage"} BY <1>20 DEF RvUnlink
  <2>4. pc' \in [Thread -> {"idle", "search", "link", "back", "last", "found",
                           "scan", "select", "each", "cut", "join", "free"}]
    <3>1. pc' = pc \/ pc' = [pc EXCEPT !["recv"] = "free"] BY <1>20 DEF RvUnlink
    <3>2. QED BY <3>1
  <2>5. UNCHANGED <<last, prev, n_node, conn, freed, queue, clean, at, want, app, select, shared,
                    pipe, outside>>
        BY <1>20 DEF RvUnlink
  <2>6. QED BY <2>2, <2>3, <2>4, <2>5
<1>21. ASSUME RvFree PROVE TypeOK'
  <2>1. loop \in Node BY <1>21 DEF RvFree, Shape, Pass, Node
  <2>2. queue' \in [Node -> Seq({"PULL", "FIRST_SEQ"} \X App)]
    <3>1. queue' = [queue EXCEPT ![loop] = <<>>] BY <1>21 DEF RvFree
    <3>2. <<>> \in Seq({"PULL", "FIRST_SEQ"} \X App) BY EmptySeq
    <3>3. QED BY <3>1, <3>2
  <2>3. QED BY <1>21, <2>1, <2>2 DEF RvFree
<1>22. ASSUME NEW m \in Master, Ends(m) PROVE TypeOK' BY <1>22 DEF Ends
<1>23. QED
  BY <1>1, <1>2, <1>3, <1>4, <1>5, <1>6, <1>7, <1>8, <1>9, <1>10, <1>11, <1>12, <1>13, <1>14,
     <1>15, <1>16, <1>17, <1>18, <1>19, <1>20, <1>21, <1>22
     DEF Step, Service, Netmap, Recv, Push, Thread

(* What a step does that leaves the list, and who is at it, alone.         *)
Busy == Pushing \union Removing

Frame ==
    /\ UNCHANGED <<last, next, prev, n_node, conn, freed>>
    /\ \A t \in Thread : pc[t] \in Busy \/ pc'[t] \in Busy =>
            pc'[t] = pc[t] /\ at'[t] = at[t] /\ want'[t] = want[t]
    /\ pc["recv"] \in Removing => loop' = loop

LEMMA FrameLinked == ASSUME Good, Frame PROVE Linked' = Linked
  BY DEF Frame, Busy, Pushing, Removing, Linked, Thread

LEMMA FrameStep ==
    ASSUME Good, Frame
    PROVE  /\ Linked' = Linked /\ Forward' /\ Backward' /\ LastIs' /\ Adding'
           /\ UNCHANGED <<closed, gone>> => Nodes'
<1>1. Linked' = Linked BY FrameLinked
<1>2. Forward' BY <1>1 DEF Good, Shape, Forward, Frame, Follows
<1>3. Backward' BY <1>1 DEF Good, Shape, Backward, Frame, Busy, Pushing, Removing, Thread
<1>4. LastIs' BY <1>1 DEF Good, Shape, LastIs, Frame, Busy, Pushing, Removing, Thread, Highest
<1>5. Adding' BY <1>1 DEF Good, Shape, Adding, Frame, Busy, Pushing, Removing, Thread
<1>6. UNCHANGED <<closed, gone>> => Nodes' BY <1>1 DEF Good, Shape, Nodes, Frame
<1>7. QED BY <1>1, <1>2, <1>3, <1>4, <1>5, <1>6

(* Where every thread stands.                                              *)
LEMMA Places ==
    ASSUME Good
    PROVE  /\ \A n \in Linked : /\ n \in Node /\ n \in Nat /\ n >= 1 /\ n <= n_node /\ n # Null
                                /\ Live(n) /\ (next[n] = Null \/ (next[n] \in Linked /\ next[n] > n))
           /\ n_node \in Nat /\ n_node >= 2 /\ n_node <= MaxNode /\ MaxNode \in Nat
           /\ N2C \in Linked /\ I2C \in Linked
<1>1. n_node \in Nat /\ n_node <= MaxNode /\ MaxNode \in Nat
      BY ConnAssumption DEF Good, TypeOK, Node
<1>2. \A n \in Linked : n \in 1 .. n_node /\ n \notin freed BY DEF Linked
<1>3. Pipes \subseteq Linked /\ n_node >= 2
  <2>1. Pipes \subseteq Linked BY DEF Good, Shape, Nodes
  <2>2. I2C \in Linked BY <2>1 DEF Pipes
  <2>3. QED BY <1>1, <1>2, <2>1, <2>2 DEF I2C
<1>4. \A n \in Linked : n \in Node /\ n # Null
      BY <1>1, <1>2, ConnAssumption DEF Node
<1>5. \A n \in Linked : Live(n) BY <1>1, <1>2, <1>4 DEF Good, Shape, Nodes, Live
<1>6. \A n \in Linked : next[n] = Null \/ (next[n] \in Linked /\ next[n] > n)
      BY DEF Good, Shape, Forward, Follows
<1>7. QED BY <1>1, <1>2, <1>3, <1>4, <1>5, <1>6 DEF Pipes

StepInv == Where' /\ Kept' /\ Shape'

(* The rest, where nothing it speaks of has changed.                       *)
LEMMA Rest ==
    ASSUME Good, Linked' = Linked
    PROVE  /\ /\ UNCHANGED <<conn, gone, apps>>
              /\ pc'["recv"] = pc["recv"] \/ pc'["recv"] \notin Busy
              => Kept'
           /\ /\ UNCHANGED <<next, prev, last, freed, n_node, closed>>
              /\ UNCHANGED <<loop, after, readable, writable>>
              /\ \/ pc'["recv"] = pc["recv"]
                 \/ /\ pc["recv"] \notin {"scan", "select"} /\ pc'["recv"] \notin Removing
              => Pass'
           /\ UNCHANGED <<fds_p, conn, n2c>> => Bound'
           /\ /\ UNCHANGED <<i2c, apps>>
              /\ pc'["recv"] \notin Using \/ (pc["recv"] \in Using /\ app'["recv"] = app["recv"])
              => Asking'
           /\ UNCHANGED <<crash, gone, clean>> => Fates'
           /\ \A t \in Thread :
                  UNCHANGED <<conn, pc[t], at[t], want[t], app[t]>> => Finds(t)'
<1>1. /\ UNCHANGED <<conn, gone, apps>>
      /\ pc'["recv"] = pc["recv"] \/ pc'["recv"] \notin Busy
      => Kept'
      BY DEF Good, Kept, Busy
<1>2. /\ UNCHANGED <<next, prev, last, freed, n_node, closed>>
      /\ UNCHANGED <<loop, after, readable, writable>>
      /\ \/ pc'["recv"] = pc["recv"]
         \/ /\ pc["recv"] \notin {"scan", "select"} /\ pc'["recv"] \notin Removing
      => Pass'
      BY DEF Good, Shape, Pass, Removing
<1>3. UNCHANGED <<fds_p, conn, n2c>> => Bound' BY DEF Good, Shape, Bound
<1>4. /\ UNCHANGED <<i2c, apps>>
      /\ pc'["recv"] \notin Using \/ (pc["recv"] \in Using /\ app'["recv"] = app["recv"])
      => Asking'
      BY DEF Good, Shape, Asking
<1>5. UNCHANGED <<crash, gone, clean>> => Fates' BY DEF Good, Shape, Fates
<1>6. \A t \in Thread :
          UNCHANGED <<conn, pc[t], at[t], want[t], app[t]>> => Finds(t)'
      BY DEF Good, Shape, Searching, Finds
<1>7. QED BY <1>1, <1>2, <1>3, <1>4, <1>5, <1>6

LEMMA SearchStep ==
    ASSUME Good, NEW t \in Thread, Search(t)
    PROVE  StepInv
<1> DEFINE n == at[t]
<1>0. n \in Linked /\ pc[t] = "search" BY DEF Search, Good, Shape, Searching, Finds
<1>1. crash' = crash
  <2>1. Live(n) BY <1>0, Places
  <2>2. QED BY <2>1 DEF Search
<1>2. \/ conn[n] = want[t] /\ pc' = [pc EXCEPT ![t] = "found"] /\ at' = at
      \/ conn[n] # want[t] /\ pc' = pc /\ at' = [at EXCEPT ![t] = next[n]]
  <2>1. Live(n) BY <1>0, Places
  <2>2. QED BY <2>1 DEF Search, Goes
<1>3. UNCHANGED <<list, want, app, select, shared, pipe, outside, clean>>
      BY DEF Search
<1>4. Frame
      BY <1>0, <1>2, <1>3 DEF Frame, Busy, Pushing, Removing, list, select, Good, TypeOK
<1>5. Linked' = Linked /\ Forward' /\ Backward' /\ LastIs' /\ Adding' /\ Nodes'
      BY <1>3, <1>4, FrameStep DEF outside
<1>6. Searching'
  <2>1. ASSUME NEW u \in Thread PROVE Finds(u)'
    <3>1. CASE u # t
      <4>1. UNCHANGED <<conn, pc[u], at[u], want[u], app[u]>>
            BY <1>2, <1>3, <3>1 DEF Good, TypeOK, list
      <4>2. QED BY <1>5, <4>1, Rest
    <3>2. CASE u = t /\ conn[n] = want[t]
          BY <1>0, <1>2, <1>3, <1>5, <3>2 DEF Good, TypeOK, Shape, Searching, Finds, Using, list
    <3>3. CASE u = t /\ conn[n] # want[t]
      <4>1. pc'[u] = "search" /\ at'[u] = next[n] /\ app'[u] = app[u] /\ want'[u] = want[u]
            BY <1>0, <1>2, <1>3, <3>3 DEF Good, TypeOK
      <4>2. app'[u] \in App /\ want'[u] = MasterOf[app'[u]]
            BY <1>0, <3>3, <4>1 DEF Good, Shape, Searching, Finds, Using
      <4>3. next[n] = Null \/ next[n] \in Linked BY <1>0, Places
      <4>4. ASSUME u # "netmap", NEW m \in Linked, next[n] = Null \/ m < next[n] PROVE conn[m] # want[u]
        <5>1. Follows(Linked, n, next[n]) BY <1>0 DEF Good, Shape, Forward
        <5>2. m <= n BY <1>0, <4>4, <5>1, Places DEF Follows
        <5>3. m < n => conn[m] # want[u]
              BY <1>0, <3>3, <4>4 DEF Good, Shape, Searching, Finds
        <5>4. m = n => conn[m] # want[u] BY <3>3
        <5>5. QED BY <1>0, <5>2, <5>3, <5>4, Places
      <4>5. conn' = conn BY <1>3 DEF list
      <4>6. QED BY <1>5, <4>1, <4>2, <4>3, <4>4, <4>5 DEF Finds
    <3>4. QED BY <3>1, <3>2, <3>3
  <2>2. QED BY <2>1 DEF Searching
<1>7. Where' BY <1>0, <1>2 DEF Where, Good, TypeOK, Thread, Using
<1>8. Kept' /\ Pass' /\ Bound' /\ Asking' /\ Fates'
  <2>1. /\ pc'["recv"] = pc["recv"] \/ (pc["recv"] = "search" /\ pc'["recv"] = "found")
        /\ app'["recv"] = app["recv"]
        BY <1>0, <1>2, <1>3 DEF Good, TypeOK, Thread
  <2>2. UNCHANGED <<conn, gone, apps, next, prev, last, freed, n_node, closed, loop, after,
                    readable, writable, fds_p, n2c, i2c, crash, clean>>
        BY <1>1, <1>3 DEF list, select, shared, pipe, outside
  <2>3. QED BY <1>5, <2>1, <2>2, Rest DEF Busy, Pushing, Removing, Using
<1>9. QED BY <1>5, <1>6, <1>7, <1>8 DEF Shape, StepInv

(* The service thread begins with a client.                                *)
LEMMA SvIntStep ==
    ASSUME Good, NEW a \in App, SvInt(a)
    PROVE  StepInv
<1>1. /\ pc["service"] = "idle" /\ pc' = [pc EXCEPT !["service"] = "search"]
      /\ at' = [at EXCEPT !["service"] = N2C] /\ want' = [want EXCEPT !["service"] = MasterOf[a]]
      /\ app' = [app EXCEPT !["service"] = a]
      BY DEF SvInt, LookFor
<1>2. UNCHANGED <<last, next, prev, n_node, conn, freed, clean, loop, after, readable, writable,
                  apps, fds_p, pulled, n2c, i2c, gone, closed, crash>>
      BY DEF SvInt, list, select, shared, pipe
<1>3. Frame
      BY <1>1, <1>2 DEF Frame, Busy, Pushing, Removing, Thread, Good, TypeOK
<1>4. Linked' = Linked /\ Forward' /\ Backward' /\ LastIs' /\ Adding' /\ Nodes'
      BY <1>2, <1>3, FrameStep
<1>5. Searching'
  <2>1. ASSUME NEW u \in Thread PROVE Finds(u)'
    <3>1. CASE u # "service"
      <4>1. UNCHANGED <<conn, pc[u], at[u], want[u], app[u]>>
            BY <1>1, <1>2, <3>1 DEF Good, TypeOK
      <4>2. QED BY <1>4, <4>1, Rest
    <3>2. CASE u = "service"
      <4>1. pc'[u] = "search" /\ at'[u] = N2C /\ want'[u] = MasterOf[a] /\ app'[u] = a
            BY <1>1, <3>2 DEF Good, TypeOK
      <4>2. N2C \in Linked /\ N2C # Null /\ \A m \in Linked : ~(m < N2C) BY Places DEF N2C
      <4>3. QED BY <1>4, <4>1, <4>2 DEF Finds
    <3>3. QED BY <3>1, <3>2
  <2>2. QED BY <2>1 DEF Searching
<1>6. pc'["recv"] = pc["recv"] /\ app'["recv"] = app["recv"] BY <1>1 DEF Good, TypeOK, Thread
<1>7. Where' BY <1>1 DEF Where, Good, TypeOK, Thread, Using
<1>8. Kept' /\ Pass' /\ Bound' /\ Asking' /\ Fates' BY <1>2, <1>4, <1>6, Rest
<1>9. QED BY <1>4, <1>5, <1>7, <1>8 DEF Shape, StepInv

LEMMA SvJoinedStep ==
    ASSUME Good, SvJoined
    PROVE  StepInv
<1>1. pc["service"] = "found" /\ pc' = [pc EXCEPT !["service"] = "idle"]
      /\ apps' = apps \union {app["service"]}
      BY DEF SvJoined, Goes
<1>2. UNCHANGED <<last, next, prev, n_node, conn, freed, clean, loop, after, readable, writable,
                  fds_p, pulled, n2c, i2c, gone, closed, crash, at, want, app>>
      BY DEF SvJoined, list, select, shared, pipe, outside
<1>3. Frame
      BY <1>1, <1>2 DEF Frame, Busy, Pushing, Removing, Thread, Good, TypeOK
<1>4. Linked' = Linked /\ Forward' /\ Backward' /\ LastIs' /\ Adding' /\ Nodes'
      BY <1>2, <1>3, FrameStep
<1>5. pc'["service"] = "idle" /\ \A u \in Thread \ {"service"} : pc'[u] = pc[u]
      BY <1>1 DEF Good, TypeOK, Thread
<1>6. Searching'
  <2>1. ASSUME NEW u \in Thread PROVE Finds(u)'
    <3>1. CASE u # "service" BY <1>2, <1>4, <1>5, <3>1, Rest
    <3>2. CASE u = "service" BY <1>5, <3>2 DEF Finds, Using
    <3>3. QED BY <3>1, <3>2
  <2>2. QED BY <2>1 DEF Searching
<1>7. pc'["recv"] = pc["recv"] BY <1>5 DEF Thread
<1>8. Where' BY <1>5 DEF Where, Good, Thread
<1>9. Kept'
  <2>1. at["service"] \in Linked /\ conn[at["service"]] = MasterOf[app["service"]]
        BY <1>1 DEF Good, Shape, Searching, Finds, Thread, Using
  <2>2. QED BY <1>1, <1>2, <1>4, <1>7, <2>1 DEF Kept, Good
<1>10. Asking' BY <1>1, <1>2, <1>7 DEF Asking, Good, Shape
<1>11. Pass' /\ Bound' /\ Fates' BY <1>2, <1>4, <1>7, Rest
<1>12. QED BY <1>4, <1>6, <1>8, <1>9, <1>10, <1>11 DEF Shape, StepInv

LEMMA SvReadStep ==
    ASSUME Good, NEW a \in App, SvRead(a)
    PROVE  StepInv
<1>1. a \in apps /\ i2c' = Append(i2c, a) BY DEF SvRead
<1>2. UNCHANGED <<last, next, prev, n_node, conn, freed, clean, loop, after, readable, writable,
                  apps, fds_p, n2c, gone, closed, crash, pc, at, want, app>>
      BY DEF SvRead, list, select, thread, outside
<1>3. Frame BY <1>2 DEF Frame
<1>4. Linked' = Linked /\ Forward' /\ Backward' /\ LastIs' /\ Adding' /\ Nodes'
      BY <1>2, <1>3, FrameStep
<1>5. Searching' BY <1>2, <1>4, Rest DEF Searching
<1>6. Where' BY <1>2 DEF Where, Good
<1>7. Asking'
  <2>1. i2c \in Seq(App) /\ \A i \in DOMAIN i2c : i2c[i] \in apps BY DEF Good, TypeOK, Shape, Asking
  <2>2. \A i \in DOMAIN i2c' : i2c'[i] \in apps BY <1>1, <2>1, AppendProperties
  <2>3. QED BY <1>2, <2>2 DEF Asking, Good, Shape
<1>8. Kept' /\ Pass' /\ Bound' /\ Fates' BY <1>2, <1>4, Rest
<1>9. QED BY <1>4, <1>5, <1>6, <1>7, <1>8 DEF Shape, StepInv

(* The netmap thread.                                                      *)
LEMMA NmPacketStep ==
    ASSUME Good, NEW a \in App, NmPacket(a)
    PROVE  StepInv
<1>1. /\ pc["netmap"] = "idle" /\ pc' = [pc EXCEPT !["netmap"] = "search"]
      /\ at' = [at EXCEPT !["netmap"] = N2C] /\ want' = [want EXCEPT !["netmap"] = MasterOf[a]]
      /\ app' = [app EXCEPT !["netmap"] = a]
      BY DEF NmPacket, LookFor
<1>2. UNCHANGED <<last, next, prev, n_node, conn, freed, clean, loop, after, readable, writable,
                  apps, fds_p, pulled, n2c, i2c, gone, closed, crash>>
      BY DEF NmPacket, list, select, shared, pipe, outside
<1>3. Frame
      BY <1>1, <1>2 DEF Frame, Busy, Pushing, Removing, Thread, Good, TypeOK
<1>4. Linked' = Linked /\ Forward' /\ Backward' /\ LastIs' /\ Adding' /\ Nodes'
      BY <1>2, <1>3, FrameStep
<1>5. Searching'
  <2>1. ASSUME NEW u \in Thread PROVE Finds(u)'
    <3>1. CASE u # "netmap"
      <4>1. UNCHANGED <<conn, pc[u], at[u], want[u], app[u]>>
            BY <1>1, <1>2, <3>1 DEF Good, TypeOK
      <4>2. QED BY <1>4, <4>1, Rest
    <3>2. CASE u = "netmap"
      <4>1. pc'[u] = "search" /\ at'[u] = N2C /\ want'[u] = MasterOf[a] /\ app'[u] = a
            BY <1>1, <3>2 DEF Good, TypeOK
      <4>2. N2C \in Linked BY Places
      <4>3. QED BY <1>4, <3>2, <4>1, <4>2 DEF Finds
    <3>3. QED BY <3>1, <3>2
  <2>2. QED BY <2>1 DEF Searching
<1>6. pc'["recv"] = pc["recv"] /\ app'["recv"] = app["recv"] BY <1>1 DEF Good, TypeOK, Thread
<1>7. Where' BY <1>1 DEF Where, Good, TypeOK, Thread, Using
<1>8. Kept' /\ Pass' /\ Bound' /\ Asking' /\ Fates' BY <1>2, <1>4, <1>6, Rest
<1>9. QED BY <1>4, <1>5, <1>7, <1>8 DEF Shape, StepInv

LEMMA NmMissedStep ==
    ASSUME Good, NmMissed
    PROVE  StepInv
<1>1. pc["netmap"] = "search" /\ pc' = [pc EXCEPT !["netmap"] = "idle"]
      BY DEF NmMissed, Missed, Goes
<1>2. UNCHANGED <<last, next, prev, n_node, conn, freed, clean, loop, after, readable, writable,
                  apps, fds_p, pulled, n2c, i2c, gone, closed, crash, at, want, app>>
      BY DEF NmMissed, list, select, shared, pipe, outside
<1>3. Frame
      BY <1>1, <1>2 DEF Frame, Busy, Pushing, Removing, Thread, Good, TypeOK
<1>4. Linked' = Linked /\ Forward' /\ Backward' /\ LastIs' /\ Adding' /\ Nodes'
      BY <1>2, <1>3, FrameStep
<1>5. pc'["netmap"] = "idle" /\ \A u \in Thread \ {"netmap"} : pc'[u] = pc[u]
      BY <1>1 DEF Good, TypeOK, Thread
<1>6. Searching'
  <2>1. ASSUME NEW u \in Thread PROVE Finds(u)'
    <3>1. CASE u # "netmap" BY <1>2, <1>4, <1>5, <3>1, Rest
    <3>2. CASE u = "netmap" BY <1>5, <3>2 DEF Finds, Using
    <3>3. QED BY <3>1, <3>2
  <2>2. QED BY <2>1 DEF Searching
<1>7. pc'["recv"] = pc["recv"] BY <1>5 DEF Thread
<1>8. Where' BY <1>5 DEF Where, Good, Thread
<1>9. Kept' /\ Pass' /\ Bound' /\ Asking' /\ Fates' BY <1>2, <1>4, <1>7, Rest
<1>10. QED BY <1>4, <1>6, <1>8, <1>9 DEF Shape, StepInv

LEMMA NmBindStep ==
    ASSUME Good, NmBind
    PROVE  StepInv
<1> DEFINE a == app["netmap"]
           n == at["netmap"]
<1>1. /\ pc["netmap"] = "found" /\ pc' = [pc EXCEPT !["netmap"] = "idle"]
      /\ fds_p' = [fds_p EXCEPT ![a] = n] /\ n2c' = Append(n2c, a)
      BY DEF NmBind, Goes
<1>2. UNCHANGED <<last, next, prev, n_node, conn, freed, clean, loop, after, readable, writable,
                  apps, i2c, gone, closed, crash, at, want, app>>
      BY DEF NmBind, list, select, shared, pipe, outside
<1>3. Frame
      BY <1>1, <1>2 DEF Frame, Busy, Pushing, Removing, Thread, Good, TypeOK
<1>4. Linked' = Linked /\ Forward' /\ Backward' /\ LastIs' /\ Adding' /\ Nodes'
      BY <1>2, <1>3, FrameStep
<1>5. pc'["netmap"] = "idle" /\ \A u \in Thread \ {"netmap"} : pc'[u] = pc[u]
      BY <1>1 DEF Good, TypeOK, Thread
<1>6. Searching'
  <2>1. ASSUME NEW u \in Thread PROVE Finds(u)'
    <3>1. CASE u # "netmap" BY <1>2, <1>4, <1>5, <3>1, Rest
    <3>2. CASE u = "netmap" BY <1>5, <3>2 DEF Finds, Using
    <3>3. QED BY <3>1, <3>2
  <2>2. QED BY <2>1 DEF Searching
<1>7. pc'["recv"] = pc["recv"] BY <1>5 DEF Thread
<1>8. Where' BY <1>5 DEF Where, Good, Thread
<1>9. Bound'
  <2>1. a \in App /\ n \in Linked /\ conn[n] = MasterOf[a] /\ n # Null
    <3>1. a \in App /\ n \in Linked /\ conn[n] = MasterOf[a]
          BY <1>1 DEF Good, Shape, Searching, Finds, Thread, Using
    <3>2. QED BY <3>1, Places
  <2>2. \A b \in App : fds_p'[b] = IF b = a THEN n ELSE fds_p[b] BY <1>1 DEF Good, TypeOK
  <2>3. n2c \in Seq(App) /\ \A i \in DOMAIN n2c : fds_p[n2c[i]] # Null
        BY DEF Good, TypeOK, Shape, Bound
  <2>4. \A i \in DOMAIN n2c : n2c[i] \in App BY <2>3, ElementOfSeq
  <2>5. \A i \in DOMAIN n2c' : n2c'[i] = a \/ \E j \in DOMAIN n2c : n2c'[i] = n2c[j]
    <3> HIDE DEF a
    <3>1. QED BY <1>1, <2>1, <2>3, AppendProperties
  <2>6. \A i \in DOMAIN n2c' : fds_p'[n2c'[i]] # Null BY <2>1, <2>2, <2>3, <2>4, <2>5
  <2>7. \A b \in App : fds_p'[b] # Null => fds_p'[b] \in Linked' /\ conn'[fds_p'[b]] = MasterOf[b]
        BY <1>2, <1>4, <2>1, <2>2 DEF Good, Shape, Bound
  <2>8. QED BY <2>6, <2>7 DEF Bound
<1>10. Kept' /\ Pass' /\ Asking' /\ Fates' BY <1>2, <1>4, <1>7, Rest
<1>11. QED BY <1>4, <1>6, <1>8, <1>9, <1>10 DEF Shape, StepInv

(* An agent ends.                                                          *)
LEMMA EndsStep ==
    ASSUME Good, NEW m \in Master, Ends(m)
    PROVE  StepInv
<1>1. gone' = gone \union {m} /\ closed' = closed \union {n \in Node : conn[n] = m}
      BY DEF Ends
<1>2. UNCHANGED <<last, next, prev, n_node, conn, freed, clean, loop, after, readable, writable,
                  apps, fds_p, pulled, n2c, i2c, crash, pc, at, want, app>>
      BY DEF Ends, list, select, shared, pipe, thread
<1>3. Frame BY <1>2 DEF Frame
<1>4. Linked' = Linked /\ Forward' /\ Backward' /\ LastIs' /\ Adding'
      BY <1>3, FrameStep
<1>5. Nodes'
  <2>1. \A n \in Node : conn[n] = m => n <= n_node
    <3>1. \A n \in Node : n \in Nat /\ n_node \in Nat BY Places DEF Node
    <3>2. \A n \in Node : conn[n] = Null <=> n > n_node BY DEF Good, Shape, Nodes
    <3>3. m # Null BY ConnAssumption
    <3>4. QED BY <3>1, <3>2, <3>3
  <2>2. \A n \in closed' : n <= n_node' /\ conn'[n] \in gone'
        BY <1>1, <1>2, <2>1 DEF Good, Shape, Nodes
  <2>3. QED BY <1>2, <1>4, <2>2 DEF Good, Shape, Nodes
<1>6. Searching' BY <1>2, <1>4, Rest DEF Searching
<1>7. Where' BY <1>2 DEF Where, Good
<1>8. Bound' /\ Asking' BY <1>2, <1>4, Rest
<1>9. Pass' BY <1>1, <1>2, <1>4 DEF Good, Shape, Pass
<1>10. Kept' /\ Fates' BY <1>1, <1>2 DEF Kept, Fates, Good, Shape
<1>11. QED BY <1>4, <1>5, <1>6, <1>7, <1>8, <1>9, <1>10 DEF Shape, StepInv

(* The receive thread's pass over the list.                                *)
LEMMA RvScanStep ==
    ASSUME Good, RvScan
    PROVE  StepInv
<1>1. /\ pc["recv"] = "scan" /\ pc' = [pc EXCEPT !["recv"] = "select"]
      /\ readable' = InList /\ writable' \subseteq InList
      /\ crash' = IF clean THEN "no" ELSE "garbage"
      BY DEF RvScan, Goes
<1>2. UNCHANGED <<last, next, prev, n_node, conn, freed, clean, loop, after,
                  apps, fds_p, pulled, n2c, i2c, gone, closed, at, want, app>>
      BY DEF RvScan, list, shared, pipe, outside
<1>3. Frame
      BY <1>1, <1>2 DEF Frame, Busy, Pushing, Removing, Thread, Good, TypeOK
<1>4. Linked' = Linked /\ Forward' /\ Backward' /\ LastIs' /\ Adding' /\ Nodes'
      BY <1>2, <1>3, FrameStep
<1>5. pc'["recv"] = "select" /\ \A u \in Thread \ {"recv"} : pc'[u] = pc[u]
      BY <1>1 DEF Good, TypeOK, Thread
<1>6. Searching'
  <2>1. ASSUME NEW u \in Thread PROVE Finds(u)'
    <3>1. CASE u # "recv" BY <1>2, <1>4, <1>5, <3>1, Rest
    <3>2. CASE u = "recv" BY <1>5, <3>2 DEF Finds, Using
    <3>3. QED BY <3>1, <3>2
  <2>2. QED BY <2>1 DEF Searching
<1>7. Where' BY <1>5 DEF Where, Good, Thread
<1>8. Pass' BY <1>1, <1>4, <1>5, GoodList DEF Pass, Removing
<1>9. Fates' BY <1>1, <1>2 DEF Fates
<1>10. Kept' /\ Bound' /\ Asking'
       BY <1>2, <1>4, <1>5, Rest DEF Busy, Pushing, Removing, Using
<1>11. QED BY <1>4, <1>6, <1>7, <1>8, <1>9, <1>10 DEF Shape, StepInv

LEMMA RvSelectStep ==
    ASSUME Good, RvSelect
    PROVE  StepInv
<1>1. /\ pc["recv"] = "select" /\ pc' = [pc EXCEPT !["recv"] = "each"]
      /\ readable' = {n \in readable : HasInput(n)} /\ writable' \subseteq writable
      /\ loop' = N2C /\ after' = next[N2C]
      BY DEF RvSelect, Goes
<1>2. UNCHANGED <<last, next, prev, n_node, conn, freed, clean, crash,
                  apps, fds_p, pulled, n2c, i2c, gone, closed, at, want, app>>
      BY DEF RvSelect, list, shared, pipe, outside
<1>3. Frame
      BY <1>1, <1>2 DEF Frame, Busy, Pushing, Removing, Thread, Good, TypeOK
<1>4. Linked' = Linked /\ Forward' /\ Backward' /\ LastIs' /\ Adding' /\ Nodes'
      BY <1>2, <1>3, FrameStep
<1>5. pc'["recv"] = "each" /\ \A u \in Thread \ {"recv"} : pc'[u] = pc[u]
      BY <1>1 DEF Good, TypeOK, Thread
<1>6. Searching'
  <2>1. ASSUME NEW u \in Thread PROVE Finds(u)'
    <3>1. CASE u # "recv" BY <1>2, <1>4, <1>5, <3>1, Rest
    <3>2. CASE u = "recv" BY <1>5, <3>2 DEF Finds, Using
    <3>3. QED BY <3>1, <3>2
  <2>2. QED BY <2>1 DEF Searching
<1>7. Where' BY <1>5 DEF Where, Good, Thread
<1>8. Pass'
  <2>1. readable' \union writable' \subseteq Linked BY <1>1 DEF Good, Shape, Pass
  <2>2. readable' \ Pipes \subseteq closed BY <1>1 DEF HasInput, Pipes
  <2>3. N2C \in 1 .. n_node /\ (after' = Null \/ after' \in Linked) /\ after' # N2C
        BY <1>1, Places DEF N2C
  <2>4. QED BY <1>1, <1>2, <1>4, <1>5, <2>1, <2>2, <2>3 DEF Pass, Removing
<1>9. Kept' /\ Bound' /\ Asking' /\ Fates'
      BY <1>2, <1>4, <1>5, Rest DEF Busy, Pushing, Removing, Using
<1>10. QED BY <1>4, <1>6, <1>7, <1>8, <1>9 DEF Shape, StepInv

LEMMA RvNextStep ==
    ASSUME Good, RvNext
    PROVE  StepInv
<1>1. /\ pc["recv"] = "each"
      /\ \/ after = Null /\ pc' = [pc EXCEPT !["recv"] = "scan"] /\ UNCHANGED <<loop, after>>
         \/ after # Null /\ pc' = pc /\ loop' = after /\ after' = next[after]
      /\ crash' = crash
  <2>1. after = Null \/ (after \in Linked /\ Live(after))
    <3>1. pc["recv"] = "each" BY DEF RvNext
    <3>2. after = Null \/ after \in Linked BY <3>1 DEF Good, Shape, Pass
    <3>3. QED BY <3>2, Places
  <2>2. QED BY <2>1 DEF RvNext, Goes
<1>2. UNCHANGED <<last, next, prev, n_node, conn, freed, clean, readable, writable,
                  apps, fds_p, pulled, n2c, i2c, gone, closed, at, want, app>>
      BY DEF RvNext, list, shared, pipe, outside
<1>3. Frame
      BY <1>1, <1>2 DEF Frame, Busy, Pushing, Removing, Thread, Good, TypeOK
<1>4. Linked' = Linked /\ Forward' /\ Backward' /\ LastIs' /\ Adding' /\ Nodes'
      BY <1>2, <1>3, FrameStep
<1>5. pc'["recv"] \in {"scan", "each"} /\ \A u \in Thread \ {"recv"} : pc'[u] = pc[u]
      BY <1>1 DEF Good, TypeOK, Thread
<1>6. Searching'
  <2>1. ASSUME NEW u \in Thread PROVE Finds(u)'
    <3>1. CASE u # "recv" BY <1>2, <1>4, <1>5, <3>1, Rest
    <3>2. CASE u = "recv" BY <1>5, <3>2 DEF Finds, Using
    <3>3. QED BY <3>1, <3>2
  <2>2. QED BY <2>1 DEF Searching
<1>7. Where' BY <1>5 DEF Where, Good, Thread
<1>8. Pass'
  <2>1. readable \union writable \subseteq Linked /\ readable \ Pipes \subseteq closed
        BY <1>1 DEF Good, Shape, Pass
  <2>2. CASE after = Null
    <3>1. pc'["recv"] = "scan" BY <1>1, <2>2 DEF Good, TypeOK, Thread
    <3>2. QED BY <1>2, <1>4, <2>1, <3>1 DEF Pass, Removing
  <2>3. CASE after # Null
    <3>1. after \in Linked BY <1>1, <2>3 DEF Good, Shape, Pass
    <3>2. after \in 1 .. n_node /\ next[after] # after
          /\ (next[after] = Null \/ next[after] \in Linked)
          BY <3>1, Places
    <3>3. pc'["recv"] = "each" BY <1>1, <2>3
    <3>4. QED BY <1>1, <1>2, <1>4, <2>1, <2>3, <3>2, <3>3 DEF Pass, Removing
  <2>4. QED BY <2>2, <2>3
<1>9. Kept' /\ Bound' /\ Asking' /\ Fates'
      BY <1>1, <1>2, <1>4, <1>5, Rest DEF Busy, Pushing, Removing, Using
<1>10. QED BY <1>4, <1>6, <1>7, <1>8, <1>9 DEF Shape, StepInv

LEMMA RvWriteStep ==
    ASSUME Good, RvWrite
    PROVE  StepInv
<1>1. pc["recv"] = "each" /\ writable' = writable \ {loop} BY DEF RvWrite
<1>2. UNCHANGED <<last, next, prev, n_node, conn, freed, clean, loop, after, readable,
                  apps, fds_p, pulled, n2c, i2c, gone, closed, pc, at, want, app>>
      BY DEF RvWrite, list, thread, shared, pipe
<1>3. Frame BY <1>2 DEF Frame
<1>4. Linked' = Linked /\ Forward' /\ Backward' /\ LastIs' /\ Adding' /\ Nodes'
      BY <1>2, <1>3, FrameStep
<1>5. Searching' BY <1>2, <1>4, Rest DEF Searching
<1>6. Where' BY <1>2 DEF Where, Good
<1>7. Pass' BY <1>1, <1>2, <1>4 DEF Good, Shape, Pass, Removing
<1>8. Kept' /\ Bound' /\ Asking' BY <1>2, <1>4, Rest
<1>9. Fates'
  <2>1. CASE crash' = crash BY <1>2, <2>1 DEF Good, Shape, Fates
  <2>2. CASE loop \in closed /\ crash' = "sigpipe"
    <3>1. gone # {} BY <2>2 DEF Good, Shape, Nodes
    <3>2. QED BY <1>2, <2>2, <3>1 DEF Fates
  <2>3. QED BY <2>1, <2>2 DEF RvWrite
<1>10. QED BY <1>4, <1>5, <1>6, <1>7, <1>8, <1>9 DEF Shape, StepInv

(* What is read from the pipes.                                            *)
LEMMA RvPullStep ==
    ASSUME Good, RvPull
    PROVE  StepInv
<1> DEFINE a == Head(i2c)
<1>1. /\ pc["recv"] = "each" /\ pc' = [pc EXCEPT !["recv"] = "search"]
      /\ at' = [at EXCEPT !["recv"] = N2C] /\ want' = [want EXCEPT !["recv"] = MasterOf[a]]
      /\ app' = [app EXCEPT !["recv"] = a] /\ i2c' = Tail(i2c) /\ i2c # <<>>
      /\ readable' \subseteq readable
      BY DEF RvPull, Reads, LookFor
<1>2. UNCHANGED <<last, next, prev, n_node, conn, freed, clean, loop, after, writable,
                  apps, fds_p, pulled, n2c, gone, closed, crash>>
      BY DEF RvPull, list, shared, pipe, outside
<1>3. Frame
      BY <1>1, <1>2 DEF Frame, Busy, Pushing, Removing, Thread, Good, TypeOK
<1>4. Linked' = Linked /\ Forward' /\ Backward' /\ LastIs' /\ Adding' /\ Nodes'
      BY <1>2, <1>3, FrameStep
<1>5. /\ i2c \in Seq(App) /\ \A i \in DOMAIN i2c : i2c[i] \in apps
      /\ a \in App /\ a \in apps /\ \A i \in DOMAIN i2c' : i2c'[i] \in apps
  <2>1. i2c \in Seq(App) /\ \A i \in DOMAIN i2c : i2c[i] \in apps BY DEF Good, TypeOK, Shape, Asking
  <2>2. a \in App /\ Len(i2c) \in Nat /\ Len(i2c) # 0 /\ a = i2c[1] /\ DOMAIN i2c = 1 .. Len(i2c)
        BY <1>1, <2>1, HeadTailProperties
  <2>3. 1 \in DOMAIN i2c BY <2>2
  <2>4. Len(i2c') = Len(i2c) - 1 /\ (\A i \in 1 .. Len(i2c') : i2c'[i] = i2c[i + 1])
        /\ DOMAIN i2c' = 1 .. Len(i2c')
        BY <1>1, <2>1, HeadTailProperties
  <2>5. \A i \in 1 .. Len(i2c) - 1 : i + 1 \in 1 .. Len(i2c) BY <2>2
  <2>6. QED BY <2>1, <2>2, <2>3, <2>4, <2>5
<1>6. /\ pc'["recv"] = "search" /\ at'["recv"] = N2C /\ want'["recv"] = MasterOf[a]
      /\ app'["recv"] = a
      BY <1>1 DEF Good, TypeOK, Thread
<1>7. Searching'
  <2>1. ASSUME NEW u \in Thread PROVE Finds(u)'
    <3>1. CASE u # "recv"
      <4>1. UNCHANGED <<conn, pc[u], at[u], want[u], app[u]>>
            BY <1>1, <1>2, <3>1 DEF Good, TypeOK
      <4>2. QED BY <1>4, <4>1, Rest
    <3>2. CASE u = "recv"
      <4>1. N2C \in Linked /\ N2C # Null /\ \A m \in Linked : ~(m < N2C) BY Places DEF N2C
      <4> HIDE DEF a
      <4>2. QED BY <1>4, <1>5, <1>6, <3>2, <4>1 DEF Finds
    <3>3. QED BY <3>1, <3>2
  <2>2. QED BY <2>1 DEF Searching
<1>8. Where' BY <1>1 DEF Where, Good, TypeOK, Thread, Using
<1>9. Asking' BY <1>2, <1>5, <1>6 DEF Asking
<1>10. Pass' BY <1>1, <1>2, <1>4, <1>6 DEF Good, Shape, Pass, Removing
<1>11. Kept' /\ Bound' /\ Fates' BY <1>2, <1>4, <1>6, Rest DEF Busy, Pushing, Removing
<1>12. QED BY <1>4, <1>7, <1>8, <1>9, <1>10, <1>11 DEF Shape, StepInv

LEMMA RvPulledStep ==
    ASSUME Good, RvPulled
    PROVE  StepInv
<1>1. pc["recv"] = "found" /\ pc' = [pc EXCEPT !["recv"] = "each"]
      BY DEF RvPulled, Goes
<1>2. UNCHANGED <<last, next, prev, n_node, conn, freed, clean, loop, after, readable, writable,
                  apps, fds_p, pulled, n2c, i2c, gone, closed, crash, at, want, app>>
      BY DEF RvPulled, list, select, shared, pipe, outside
<1>3. Frame
      BY <1>1, <1>2 DEF Frame, Busy, Pushing, Removing, Thread, Good, TypeOK
<1>4. Linked' = Linked /\ Forward' /\ Backward' /\ LastIs' /\ Adding' /\ Nodes'
      BY <1>2, <1>3, FrameStep
<1>5. pc'["recv"] = "each" /\ \A u \in Thread \ {"recv"} : pc'[u] = pc[u]
      BY <1>1 DEF Good, TypeOK, Thread
<1>6. Searching'
  <2>1. ASSUME NEW u \in Thread PROVE Finds(u)'
    <3>1. CASE u # "recv" BY <1>2, <1>4, <1>5, <3>1, Rest
    <3>2. CASE u = "recv" BY <1>5, <3>2 DEF Finds, Using
    <3>3. QED BY <3>1, <3>2
  <2>2. QED BY <2>1 DEF Searching
<1>7. Where' BY <1>5 DEF Where, Good, Thread
<1>8. Kept' /\ Pass' /\ Bound' /\ Asking' /\ Fates'
      BY <1>1, <1>2, <1>4, <1>5, Rest DEF Busy, Pushing, Removing, Using
<1>9. QED BY <1>4, <1>6, <1>7, <1>8 DEF Shape, StepInv

LEMMA RvFirstStep ==
    ASSUME Good, RvFirst
    PROVE  StepInv
<1> DEFINE a == Head(n2c)
<1>1. pc["recv"] = "each" /\ n2c' = Tail(n2c) /\ n2c # <<>> /\ readable' \subseteq readable
      BY DEF RvFirst, Reads
<1>2. UNCHANGED <<last, next, prev, n_node, conn, freed, clean, loop, after, writable,
                  apps, fds_p, pulled, i2c, gone, closed, pc, at, want, app>>
      BY DEF RvFirst, list, shared, thread, outside
<1>3. Frame BY <1>2 DEF Frame
<1>4. Linked' = Linked /\ Forward' /\ Backward' /\ LastIs' /\ Adding' /\ Nodes'
      BY <1>2, <1>3, FrameStep
<1>5. /\ n2c \in Seq(App) /\ \A i \in DOMAIN n2c : fds_p[n2c[i]] # Null
      /\ a \in App /\ fds_p[a] # Null /\ \A i \in DOMAIN n2c' : fds_p[n2c'[i]] # Null
  <2>1. n2c \in Seq(App) /\ \A i \in DOMAIN n2c : fds_p[n2c[i]] # Null
        BY DEF Good, TypeOK, Shape, Bound
  <2>2. a \in App /\ Len(n2c) \in Nat /\ Len(n2c) # 0 /\ a = n2c[1] /\ DOMAIN n2c = 1 .. Len(n2c)
        BY <1>1, <2>1, HeadTailProperties
  <2>3. 1 \in DOMAIN n2c BY <2>2
  <2>4. Len(n2c') = Len(n2c) - 1 /\ (\A i \in 1 .. Len(n2c') : n2c'[i] = n2c[i + 1])
        /\ DOMAIN n2c' = 1 .. Len(n2c')
        BY <1>1, <2>1, HeadTailProperties
  <2>5. \A i \in 1 .. Len(n2c) - 1 : i + 1 \in 1 .. Len(n2c) BY <2>2
  <2>6. QED BY <2>1, <2>2, <2>3, <2>4, <2>5
<1>6. crash' = crash
  <2>1. fds_p[a] \in Linked BY <1>5 DEF Good, Shape, Bound
  <2>2. Live(fds_p[a]) BY <2>1, Places
  <2>3. QED BY <2>2 DEF RvFirst
<1>7. Searching' BY <1>2, <1>4, Rest DEF Searching
<1>8. Where' BY <1>2 DEF Where, Good
<1>9. Bound' BY <1>2, <1>4, <1>5 DEF Bound, Good, Shape
<1>10. Pass' BY <1>1, <1>2, <1>4 DEF Good, Shape, Pass, Removing
<1>11. Kept' /\ Asking' /\ Fates' BY <1>2, <1>4, <1>6, Rest
<1>12. QED BY <1>4, <1>7, <1>8, <1>9, <1>10, <1>11 DEF Shape, StepInv

(* Without an overlap whoever adds or removes a node is alone with that.   *)
LEMMA Alone ==
    ASSUME Good
    PROVE  /\ \A t \in Thread : pc[t] \in Pushing =>
                    t # "netmap" /\ \A u \in Thread \ {t} : pc[u] \notin Busy
           /\ pc["recv"] \in Removing =>
                    /\ pc["service"] = "idle" /\ pc["netmap"] = "idle"
                    /\ \A a \in App : fds_p[a] # loop
           /\ Missed("recv") => pc["service"] = "idle"
  BY DEF Good, Where, Overlap, Busy, Pushing, Removing, Thread

LEMMA ConnectStep ==
    ASSUME Good, NEW t \in Thread, Connect(t)
    PROVE  StepInv
<1>1. /\ pc[t] = "search" /\ at[t] = Null /\ t # "netmap"
      /\ UNCHANGED <<last, next, prev, freed, clean, want, app, loop, after, readable, writable,
                     apps, fds_p, pulled, n2c, i2c, gone, closed>>
      BY DEF Connect, Missed, select, shared, pipe, outside
<1>2. ASSUME want[t] \in gone, crash' = "refused", UNCHANGED <<n_node, conn, at, pc>>
      PROVE  StepInv
  <2>1. Frame BY <1>1, <1>2 DEF Frame
  <2>2. Linked' = Linked /\ Forward' /\ Backward' /\ LastIs' /\ Adding' /\ Nodes'
        BY <1>1, <2>1, FrameStep
  <2>3. Searching' BY <1>1, <1>2, <2>2, Rest DEF Searching
  <2>4. Where' BY <1>2 DEF Where, Good
  <2>5. Fates' BY <1>1, <1>2 DEF Fates
  <2>6. Kept' /\ Pass' /\ Bound' /\ Asking' BY <1>1, <1>2, <2>2, Rest
  <2>7. QED BY <2>2, <2>3, <2>4, <2>5, <2>6 DEF Shape, StepInv
<1>3. ASSUME n_node < MaxNode, n_node' = n_node + 1, conn' = [conn EXCEPT ![n_node'] = want[t]],
             at' = [at EXCEPT ![t] = n_node'], pc' = [pc EXCEPT ![t] = "link"], crash' = crash
      PROVE  StepInv
  <2> DEFINE n == n_node + 1
  <2>1. /\ n_node \in Nat /\ n_node >= 2 /\ n \in Node /\ n \in Nat /\ n > n_node /\ n \notin freed
        /\ n # Null /\ n \notin Pipes /\ next[n] = Null /\ n \notin Linked
    <3>1. n_node \in Nat /\ n_node >= 2 /\ n \in Node /\ n \in Nat /\ n > n_node
          BY <1>3, Places DEF Node
    <3>2. n \notin freed /\ next[n] = Null
          BY <3>1 DEF Good, Shape, Nodes
    <3>3. n # Null /\ n \notin Pipes /\ n \notin Linked
          BY <3>1, ConnAssumption, Places DEF Pipes, N2C, I2C
    <3>4. QED BY <3>1, <3>2, <3>3
  <2>2. /\ pc'[t] = "link" /\ at'[t] = n
        /\ \A u \in Thread \ {t} : pc'[u] = pc[u] /\ at'[u] = at[u]
        BY <1>3 DEF Good, TypeOK
  <2>3. \A u \in Thread \ {t} : pc[u] \notin Busy
    <3>1. CASE t = "recv"
      <4>1. Missed("recv") BY <3>1 DEF Connect
      <4>2. pc["service"] = "idle" BY <4>1, Alone
      <4>3. QED BY <3>1, <4>2 DEF Good, Where, Thread, Busy, Pushing, Removing
    <3>2. CASE t = "service"
      <4>1. pc["recv"] \notin Busy
            BY <1>1, <3>2 DEF Good, Overlap, Pushing, Removing, Busy
      <4>2. QED BY <3>2, <4>1 DEF Good, Where, Thread, Busy, Pushing, Removing
    <3>3. QED BY <1>1, <3>1, <3>2 DEF Thread
  <2>4. Linked' = Linked
    <3>1. \A k \in 1 .. n_node : k \in 1 .. n_node' /\ k # n BY <1>3, <2>1
    <3>2. \A k \in 1 .. n_node' : k \in 1 .. n_node \/ k = n BY <1>3, <2>1
    <3>3. pc["recv"] # "free" /\ pc'["recv"] # "free"
          BY <1>1, <2>2, <2>3 DEF Busy, Removing, Thread
    <3>4. \A k \in 1 .. n_node : k \in Linked <=> k \notin freed
          BY <1>1, <2>3, <3>3 DEF Linked, Busy, Pushing
    <3>5. \A k \in 1 .. n_node : k \in Linked' <=> k \notin freed'
          BY <1>1, <2>2, <2>3, <3>1, <3>3 DEF Linked, Busy, Pushing
    <3>6. n \notin Linked' BY <2>2 DEF Linked
    <3>7. Linked \subseteq 1 .. n_node /\ Linked' \subseteq 1 .. n_node' BY DEF Linked
    <3> HIDE DEF n
    <3>8. QED BY <1>1, <3>1, <3>2, <3>4, <3>5, <3>6, <3>7
  <2>5. want[t] \in Master /\ want[t] # Null /\ want[t] # "pipe" /\ app[t] \in App
        /\ want[t] = MasterOf[app[t]]
    <3>1. app[t] \in App /\ want[t] = MasterOf[app[t]]
          BY <1>1 DEF Good, Shape, Searching, Finds, Using
    <3>2. QED BY <3>1, ConnAssumption
  <2>6. conn'[n] = want[t] /\ \A k \in Node \ {n} : conn'[k] = conn[k]
        BY <1>3, <2>1 DEF Good, TypeOK
  <2>7. \A k \in Linked : conn'[k] = conn[k] BY <2>1, <2>6, Places
  <2>8. Forward' BY <1>1, <2>4 DEF Good, Shape, Forward, Follows
  <2>9. Backward'
        BY <1>1, <2>2, <2>3, <2>4 DEF Good, Shape, Backward, Busy, Pushing, Removing, Thread
  <2>10. LastIs'
    <3>1. Highest(Linked, last)
          BY <1>1, <2>3 DEF Good, Shape, LastIs, Busy, Pushing, Removing, Thread
    <3>2. \A u \in Thread : pc'[u] \notin {"back", "last", "cut"}
          BY <2>2, <2>3 DEF Busy, Pushing, Removing
    <3>3. QED BY <1>1, <2>4, <3>1, <3>2 DEF LastIs, Highest, Thread
  <2>11. Adding'
    <3>1. \A u \in Thread \ {t} : pc'[u] \notin Pushing BY <2>2, <2>3 DEF Busy
    <3>2. n > I2C BY <2>1 DEF I2C
    <3>3. \A k \in Linked : conn'[k] # want[t]
          BY <1>1, <2>7 DEF Good, Shape, Searching, Finds
    <3>4. QED BY <1>1, <1>3, <2>1, <2>2, <2>4, <2>6, <3>1, <3>2, <3>3 DEF Adding
  <2>12. Nodes'
    <3>1. \A k \in Node : k \in Nat BY Places DEF Node
    <3>2. \A k \in Node : conn'[k] = Null <=> k > n_node'
      <4>1. \A k \in Node \ {n} : k > n_node' <=> k > n_node BY <1>3, <2>1, <3>1
      <4>2. \A k \in Node \ {n} : conn[k] = Null <=> k > n_node BY DEF Good, Shape, Nodes
      <4>3. ~(n > n_node') BY <1>3, <2>1
      <4>4. QED BY <2>5, <2>6, <4>1, <4>2, <4>3
    <3>3. \A k \in Node : conn'[k] = "pipe" <=> k \in Pipes
          BY <2>1, <2>5, <2>6 DEF Good, Shape, Nodes
    <3>4. \A k \in Node : k > n_node' => next'[k] = Null
          BY <1>1, <1>3, <2>1, <3>1 DEF Good, Shape, Nodes
    <3>5. freed' \subseteq 1 .. n_node' BY <1>1, <1>3, <2>1 DEF Good, Shape, Nodes
    <3>6. \A k \in closed' : k <= n_node' /\ conn'[k] \in gone'
      <4>1. \A k \in closed : k \in Node /\ k <= n_node /\ conn[k] \in gone
            BY DEF Good, Shape, Nodes, TypeOK
      <4>2. \A k \in closed : k # n /\ k <= n_node' BY <1>3, <2>1, <3>1, <4>1
      <4>3. QED BY <1>1, <2>6, <4>1, <4>2
    <3>7. QED BY <2>4, <3>2, <3>3, <3>4, <3>5, <3>6 DEF Good, Shape, Nodes
  <2>13. Searching'
    <3>1. ASSUME NEW u \in Thread PROVE Finds(u)'
      <4>1. CASE u = t BY <1>1, <2>2, <2>5, <4>1 DEF Finds, Using
      <4>2. CASE u # t
        <5>1. pc'[u] = pc[u] /\ at'[u] = at[u] /\ want'[u] = want[u] /\ app'[u] = app[u]
              BY <1>1, <2>2, <4>2
        <5>2. Finds(u) BY DEF Good, Shape, Searching
        <5>3. QED BY <2>4, <2>7, <5>1, <5>2 DEF Finds
      <4>3. QED BY <4>1, <4>2
    <3>2. QED BY <3>1 DEF Searching
  <2>14. Where' BY <1>1, <2>2 DEF Where, Good, Thread, Using
  <2>15. Pass'
    <3>1. /\ pc'["recv"] = pc["recv"] \/ (pc["recv"] = "search" /\ pc'["recv"] = "link")
          /\ pc'["recv"] \notin Removing
          BY <1>1, <2>2, <2>3 DEF Thread, Busy, Removing
    <3>2. 1 .. n_node \subseteq 1 .. n_node' BY <1>3, <2>1
    <3>3. QED BY <1>1, <2>4, <3>1, <3>2 DEF Good, Shape, Pass, Removing
  <2>16. Bound' BY <1>1, <2>4, <2>7 DEF Good, Shape, Bound
  <2>17. Asking' BY <1>1, <2>2 DEF Good, Shape, Asking, Using, Thread
  <2>18. Kept'
    <3>1. ASSUME gone = {}, t = "recv" PROVE FALSE
      <4>1. app["recv"] \in apps BY <1>1, <3>1 DEF Good, Shape, Asking, Using
      <4>2. PICK k \in Linked : conn[k] = MasterOf[app["recv"]] BY <3>1, <4>1 DEF Good, Kept
      <4>3. conn[k] # want[t] BY <1>1 DEF Good, Shape, Searching, Finds
      <4>4. QED BY <2>5, <3>1, <4>2, <4>3
    <3>2. gone = {} => pc'["recv"] = pc["recv"] BY <1>1, <2>2, <3>1 DEF Thread
    <3>3. QED BY <1>1, <2>4, <2>7, <3>2 DEF Good, Kept
  <2>19. Fates' BY <1>1, <1>3 DEF Good, Shape, Fates
  <2>20. QED BY <2>8, <2>9, <2>10, <2>11, <2>12, <2>13, <2>14, <2>15, <2>16, <2>17, <2>18, <2>19
         DEF Shape, StepInv
<1>4. QED BY <1>2, <1>3 DEF Connect, Goes

(* A node that is about to be linked comes after the last one.             *)
LEMMA PushLinkStep ==
    ASSUME Good, NEW t \in Thread, PushLink(t)
    PROVE  StepInv
<1> DEFINE n == n_node
<1>1. /\ pc[t] = "link" /\ last # Null /\ t # "netmap"
      /\ next' = [next EXCEPT ![last] = at[t]] /\ pc' = [pc EXCEPT ![t] = "back"]
      /\ UNCHANGED <<last, prev, n_node, conn, freed, clean, at, want, app, loop, after, readable,
                     writable, apps, fds_p, pulled, n2c, i2c, gone, closed, crash>>
  <2>1. pc[t] = "link" BY DEF PushLink
  <2>2. t # "netmap" BY <2>1, Alone DEF Pushing
  <2>3. QED BY <2>1, <2>2 DEF PushLink, Goes, select, shared, pipe, outside
<1>2. \A u \in Thread \ {t} : pc[u] \notin Busy /\ pc'[u] = pc[u]
  <2>1. \A u \in Thread \ {t} : pc[u] \notin Busy BY <1>1, Alone DEF Pushing
  <2>2. QED BY <1>1, <2>1 DEF Good, TypeOK
<1>3. pc'[t] = "back" BY <1>1 DEF Good, TypeOK
<1>4. /\ at[t] = n /\ n > I2C /\ n \notin freed /\ conn[n] = want[t] /\ next[n] = Null
      /\ \A k \in Linked : conn[k] # want[t]
      BY <1>1 DEF Good, Shape, Adding, Pushing
<1>5. n \in Node /\ n \in Nat /\ n # Null /\ n \notin Linked
  <2>1. n \in Node /\ n \in Nat /\ n # Null BY ConnAssumption, Places DEF Good, TypeOK
  <2>2. n \notin Linked BY <1>1, <1>4 DEF Linked
  <2>3. QED BY <2>1, <2>2
<1>6. Linked' = Linked \union {n}
  <2>1. pc["recv"] # "free" /\ pc'["recv"] # "free"
        BY <1>1, <1>2, <1>3 DEF Busy, Removing, Thread
  <2>2. \A k \in 1 .. n_node : k \in Linked <=> k \notin freed /\ k # n
        BY <1>1, <1>2, <1>4, <2>1 DEF Linked, Busy, Pushing
  <2>3. \A k \in 1 .. n_node : k \in Linked' <=> k \notin freed
        BY <1>1, <1>2, <1>3, <2>1 DEF Linked, Busy, Pushing
  <2>4. Linked \subseteq 1 .. n_node /\ Linked' \subseteq 1 .. n_node
        BY <1>1 DEF Linked
  <2>5. n \in 1 .. n_node BY <1>4, <1>5 DEF I2C
  <2> HIDE DEF n
  <2>6. QED BY <1>4, <2>2, <2>3, <2>4, <2>5
<1>7. /\ Highest(Linked, last) /\ last \in Node
      /\ \A k \in Linked : k < n /\ k # n
  <2>1. Highest(Linked, last)
        BY <1>1, <1>2 DEF Good, Shape, LastIs, Busy, Pushing, Removing, Thread
  <2>2. \A k \in Linked : k < n /\ k # n BY <1>5, Places
  <2>3. QED BY <2>1, <2>2, Places DEF Highest
<1>8. next'[last] = n /\ \A k \in Node \ {last} : next'[k] = next[k]
      BY <1>1, <1>4, <1>7 DEF Good, TypeOK
<1> HIDE DEF n
<1>9. Forward'
  <2>1. ASSUME NEW k \in Linked' PROVE Follows(Linked', k, next'[k])
    <3>1. CASE k = n
      <4>1. n # last BY <1>5, <1>7 DEF Highest
      <4>2. next'[k] = Null BY <1>4, <1>5, <1>8, <3>1, <4>1
      <4>3. \A j \in Linked' : j <= n BY <1>5, <1>6, <1>7, Places
      <4>4. QED BY <3>1, <4>2, <4>3 DEF Follows
    <3>2. CASE k = last
      <4>1. \A j \in Linked' : j <= last \/ n <= j BY <1>5, <1>6, <1>7 DEF Highest
      <4>2. n \in Linked' /\ n > last BY <1>6, <1>7, Places DEF Highest
      <4>3. QED BY <1>5, <1>8, <3>2, <4>1, <4>2 DEF Follows
    <3>3. CASE k # n /\ k # last
      <4>1. k \in Linked /\ k \in Node BY <1>6, <3>3, Places
      <4>2. next'[k] = next[k] /\ Follows(Linked, k, next[k])
            BY <1>8, <3>3, <4>1 DEF Good, Shape, Forward
      <4>3. next[k] # Null
        <5>1. last \in Linked /\ k <= last BY <1>7, <4>1 DEF Highest
        <5>2. ~(last <= k) BY <3>3, <4>1, <5>1, Places
        <5>3. QED BY <4>2, <5>1, <5>2 DEF Follows
      <4>4. next[k] \in Linked /\ next[k] > k /\ (\A j \in Linked : j <= k \/ next[k] <= j)
            BY <4>2, <4>3 DEF Follows
      <4>5. next[k] <= n BY <1>5, <1>7, <4>4, Places
      <4>6. QED BY <1>6, <4>2, <4>3, <4>4, <4>5 DEF Follows
    <3>4. QED BY <3>1, <3>2, <3>3
  <2>2. QED BY <2>1 DEF Forward
<1>10. Backward'
  <2>1. ASSUME NEW k \in Linked' \ {N2C}
        PROVE  \/ \E u \in Thread : pc'[u] = "back" /\ at'[u] = k
               \/ prev'[k] \in Linked' /\ next'[prev'[k]] = k
    <3>1. CASE k = n BY <1>1, <1>3, <1>4, <3>1
    <3>2. CASE k # n
      <4>1. k \in Linked \ {N2C} BY <1>6, <3>2
      <4>2. ~\E u \in Thread : pc[u] = "back" /\ at[u] = k BY <1>1, <1>2 DEF Busy, Pushing
      <4>3. pc["recv"] # "join" BY <1>1, <1>2 DEF Busy, Removing, Thread
      <4>4. prev[k] \in Linked /\ next[prev[k]] = k
            BY <4>1, <4>2, <4>3 DEF Good, Shape, Backward
      <4>5. prev[k] # last
        <5>1. Follows(Linked, prev[k], k) BY <4>4 DEF Good, Shape, Forward
        <5>2. k > prev[k] BY <4>1, <5>1, Places DEF Follows
        <5>3. k <= last BY <1>7, <4>1 DEF Highest
        <5>4. QED BY <1>7, <4>1, <4>4, <5>2, <5>3, Places DEF Highest
      <4>6. next'[prev[k]] = k BY <1>8, <4>4, <4>5, Places
      <4>7. QED BY <1>1, <1>6, <4>4, <4>6
    <3>3. QED BY <3>1, <3>2
  <2>2. QED BY <2>1 DEF Backward
<1>11. LastIs'
  <2>1. Linked' \ {n} = Linked BY <1>5, <1>6
  <2>2. QED BY <1>1, <1>3, <1>7, <2>1 DEF LastIs, Highest, n
<1>12. Adding'
       BY <1>1, <1>2, <1>3, <1>4 DEF Adding, Busy, n
<1>13. Nodes'
  <2>1. \A k \in Node : k > n_node => next'[k] = Null
    <3>1. ~(last > n_node) BY <1>7, Places DEF Highest
    <3>2. QED BY <1>8, <3>1 DEF Good, Shape, Nodes
  <2>2. QED BY <1>1, <1>6, <2>1 DEF Good, Shape, Nodes
<1>14. Searching'
  <2>1. ASSUME NEW u \in Thread PROVE Finds(u)'
    <3>0. Finds(u) BY DEF Good, Shape, Searching
    <3>1. CASE u = t
      <4>1. pc[u] \in Using /\ pc'[u] \notin {"search", "found"} BY <1>1, <1>3, <3>1 DEF Using
      <4>2. QED BY <1>1, <3>0, <4>1 DEF Finds
    <3>2. CASE u # t
      <4>1. pc'[u] = pc[u] BY <1>2, <3>2
      <4>2. ASSUME pc[u] = "search", u # "netmap" PROVE at[u] # Null
        <5>1. CASE u = "service"
          <6>1. t = "recv" BY <1>1, <3>2, <5>1 DEF Thread
          <6>2. QED BY <1>1, <4>2, <5>1, <6>1 DEF Good, Overlap
        <5>2. CASE u = "recv"
          <6>1. pc["service"] # "idle" BY <1>1, <3>2, <5>2 DEF Thread
          <6>2. Running BY DEF PushLink
          <6>3. QED BY <4>2, <5>2, <6>1, <6>2, Alone DEF Missed
        <5>3. QED BY <4>2, <5>1, <5>2 DEF Thread
      <4>3. ASSUME pc[u] = "search", u # "netmap", NEW k \in Linked', at[u] = Null \/ k < at[u]
            PROVE  conn[k] # want[u]
        <5>1. at[u] # Null /\ k < at[u] /\ at[u] \in Linked BY <3>0, <4>2, <4>3 DEF Finds
        <5>2. k # n BY <1>5, <1>7, <5>1, Places
        <5>3. QED BY <1>6, <3>0, <4>3, <5>1, <5>2 DEF Finds
      <4>4. QED BY <1>1, <1>6, <3>0, <4>1, <4>3 DEF Finds
    <3>3. QED BY <3>1, <3>2
  <2>2. QED BY <2>1 DEF Searching
<1>15. Where' BY <1>1, <1>2, <1>3 DEF Where, Good, Thread, Using
<1>16. Pass'
  <2>1. /\ pc'["recv"] = pc["recv"] \/ (pc["recv"] = "link" /\ pc'["recv"] = "back")
        /\ pc'["recv"] \notin Removing
        BY <1>1, <1>2, <1>3 DEF Thread, Busy, Removing
  <2>2. QED BY <1>1, <1>6, <2>1 DEF Good, Shape, Pass, Removing
<1>17. Bound' BY <1>1, <1>6 DEF Good, Shape, Bound
<1>18. Asking' BY <1>1, <1>2, <1>3 DEF Good, Shape, Asking, Using, Thread
<1>19. Kept' BY <1>1, <1>2, <1>3, <1>6 DEF Good, Kept, Pushing, Thread
<1>20. Fates' BY <1>1 DEF Good, Shape, Fates
<1>21. QED BY <1>9, <1>10, <1>11, <1>12, <1>13, <1>14, <1>15, <1>16, <1>17, <1>18, <1>19, <1>20
       DEF Shape, StepInv

(* Who has linked a node has it at the end of the list, after the last one *)
(* that was there.                                                         *)
LEMMA AtTheEnd ==
    ASSUME Good, NEW t \in Thread, pc[t] \in {"back", "last"}
    PROVE  /\ at[t] = n_node /\ n_node \in Linked /\ n_node \in Node /\ conn[n_node] = want[t]
           /\ last \in Linked /\ last < n_node /\ next[last] = n_node /\ n_node # N2C
           /\ \A k \in Linked : k = n_node \/ k <= last
<1> DEFINE n == n_node
<1>1. at[t] = n /\ n > I2C /\ n \notin freed /\ conn[n] = want[t]
      BY DEF Good, Shape, Adding, Pushing
<1>2. n \in Node /\ n \in Nat BY Places DEF Good, TypeOK
<1>3. n \in Linked
  <2>1. \A u \in Thread : pc[u] # "link"
    <3>1. \A u \in Thread \ {t} : pc[u] \notin Busy BY Alone DEF Pushing
    <3>2. QED BY <3>1 DEF Busy, Pushing
  <2>2. pc["recv"] # "free"
    <3>1. t # "recv" => pc["recv"] \notin Busy BY Alone DEF Pushing, Thread
    <3>2. QED BY <3>1 DEF Busy, Removing
  <2>3. n \in 1 .. n_node BY <1>1, <1>2 DEF I2C
  <2>4. QED BY <1>1, <2>1, <2>2, <2>3 DEF Linked
<1>4. Highest(Linked \ {n}, last) BY DEF Good, Shape, LastIs
<1>5. last \in Linked /\ last # n /\ last < n /\ \A k \in Linked : k = n \/ k <= last
  <2>1. last \in Linked /\ last # n /\ \A k \in Linked : k = n \/ k <= last BY <1>4 DEF Highest
  <2>2. last < n BY <1>2, <2>1, Places
  <2>3. QED BY <2>1, <2>2
<1>6. next[last] = n
  <2>1. Follows(Linked, last, next[last]) BY <1>5 DEF Good, Shape, Forward
  <2>2. ~(n <= last) BY <1>2, <1>5, Places
  <2>3. next[last] # Null BY <1>3, <2>1, <2>2 DEF Follows
  <2>4. next[last] \in Linked /\ next[last] > last BY <2>1, <2>3 DEF Follows
  <2>5. ~(next[last] <= last) BY <1>5, <2>4, Places
  <2>6. QED BY <1>5, <2>4, <2>5
<1>7. n # N2C BY <1>1, <1>2 DEF I2C, N2C
<1>8. QED BY <1>1, <1>2, <1>3, <1>5, <1>6, <1>7

(* The last two stores change nothing of what is linked.                   *)
LEMMA PushOnStep ==
    ASSUME Good, NEW t \in Thread, NEW a, NEW b, pc[t] = a, pc' = [pc EXCEPT ![t] = b],
           a \in {"back", "last"}, b \in {"last", "found"},
           UNCHANGED <<next, n_node, conn, freed, clean, at, want, app, loop, after, readable, writable,
                       apps, fds_p, pulled, n2c, i2c, gone, closed, crash>>
    PROVE  /\ Linked' = Linked /\ pc'[t] = b
           /\ \A u \in Thread \ {t} : pc[u] \notin Busy /\ pc'[u] = pc[u] /\ pc'[u] \notin Busy
           /\ Where' /\ Kept' /\ Nodes' /\ Forward' /\ Searching'
           /\ Pass' /\ Bound' /\ Asking' /\ Fates'
<1>1. \A u \in Thread \ {t} : pc[u] \notin Busy /\ pc'[u] = pc[u] /\ pc'[u] \notin Busy
  <2>1. \A u \in Thread \ {t} : pc[u] \notin Busy BY Alone DEF Pushing
  <2>2. QED BY <2>1 DEF Good, TypeOK
<1>2. pc'[t] = b /\ t # "netmap"
  <2>1. t # "netmap" BY Alone DEF Pushing
  <2>2. QED BY <2>1 DEF Good, TypeOK
<1>3. Linked' = Linked
  <2>1. pc["recv"] # "free" /\ pc'["recv"] # "free"
        BY <1>1, <1>2 DEF Busy, Removing, Thread
  <2>2. \A u \in Thread : pc[u] # "link" /\ pc'[u] # "link" BY <1>1, <1>2 DEF Busy, Pushing
  <2>3. QED BY <2>1, <2>2 DEF Linked
<1>4. Where' BY <1>1, <1>2 DEF Where, Good, Thread, Using
<1>5. Searching'
  <2>1. ASSUME NEW u \in Thread PROVE Finds(u)'
    <3>1. CASE u # t BY <1>1, <1>3, <3>1, Rest
    <3>2. CASE u = t
      <4>1. at[t] \in Linked /\ conn[at[t]] = want[t] BY AtTheEnd
      <4>2. app[t] \in App /\ want[t] = MasterOf[app[t]]
            BY DEF Good, Shape, Searching, Finds, Using
      <4>3. QED BY <1>2, <1>3, <3>2, <4>1, <4>2 DEF Finds
    <3>3. QED BY <3>1, <3>2
  <2>2. QED BY <2>1 DEF Searching
<1>6. Kept' BY <1>1, <1>2, <1>3 DEF Good, Kept, Pushing, Removing, Thread
<1>7. Nodes' /\ Forward' BY <1>3 DEF Good, Shape, Nodes, Forward, Follows
<1>8. Pass'
  <2>1. /\ pc'["recv"] = pc["recv"] \/ (pc["recv"] = a /\ pc'["recv"] = b)
        /\ pc'["recv"] \notin Removing
        BY <1>1, <1>2 DEF Thread, Busy, Removing
  <2>2. QED BY <1>3, <2>1 DEF Good, Shape, Pass, Removing
<1>9. Bound' /\ Fates' BY <1>3, Rest
<1>10. Asking' BY <1>1, <1>2 DEF Good, Shape, Asking, Using, Thread
<1>11. QED BY <1>1, <1>2, <1>3, <1>4, <1>5, <1>6, <1>7, <1>8, <1>9, <1>10

LEMMA PushBackStep ==
    ASSUME Good, NEW t \in Thread, PushBack(t)
    PROVE  StepInv
<1>1. /\ pc[t] = "back" /\ pc' = [pc EXCEPT ![t] = "last"] /\ last' = last
      /\ prev' = [prev EXCEPT ![at[t]] = last]
      /\ UNCHANGED <<next, n_node, conn, freed, clean, at, want, app, loop, after, readable, writable,
                       apps, fds_p, pulled, n2c, i2c, gone, closed, crash>>
      BY DEF PushBack, Goes, select, shared, pipe, outside
<1>2. /\ Linked' = Linked /\ pc'[t] = "last"
      /\ \A u \in Thread \ {t} : pc[u] \notin Busy /\ pc'[u] = pc[u] /\ pc'[u] \notin Busy
      /\ Where' /\ Kept' /\ Nodes' /\ Forward' /\ Searching'
      /\ Pass' /\ Bound' /\ Asking' /\ Fates'
  <2>1. "back" \in {"back", "last"} /\ "last" \in {"last", "found"} OBVIOUS
  <2>2. QED BY ONLY <1>1, <2>1, PushOnStep, Good, t \in Thread
<1>3. /\ at[t] = n_node /\ n_node \in Linked /\ n_node \in Node /\ conn[n_node] = want[t]
      /\ last \in Linked /\ last < n_node /\ next[last] = n_node
      /\ \A k \in Linked : k = n_node \/ k <= last
      BY <1>1, AtTheEnd
<1>4. Backward'
  <2>1. ASSUME NEW k \in Linked \ {N2C}
        PROVE  prev'[k] \in Linked /\ next[prev'[k]] = k
    <3>1. CASE k = n_node BY <1>1, <1>3, <3>1 DEF Good, TypeOK
    <3>2. CASE k # n_node
      <4>1. prev'[k] = prev[k] BY <1>1, <1>3, <3>2, Places DEF Good, TypeOK
      <4>2. ~\E u \in Thread : pc[u] = "back" /\ at[u] = k
            BY <1>2, <1>3, <3>2 DEF Busy, Pushing
      <4>3. pc["recv"] # "join" BY <1>1, <1>2 DEF Busy, Removing, Thread
      <4>4. QED BY <4>1, <4>2, <4>3 DEF Good, Shape, Backward
    <3>3. QED BY <3>1, <3>2
  <2>2. QED BY <1>1, <1>2, <2>1 DEF Backward
<1>5. LastIs'
  <2>1. Highest(Linked \ {n_node}, last) BY <1>1 DEF Good, Shape, LastIs
  <2>2. QED BY <1>1, <1>2, <2>1 DEF LastIs, Highest
<1>6. Adding' BY <1>1, <1>2 DEF Good, Shape, Adding, Busy, Pushing
<1>7. QED BY <1>2, <1>4, <1>5, <1>6 DEF Shape, StepInv

LEMMA PushLastStep ==
    ASSUME Good, NEW t \in Thread, PushLast(t)
    PROVE  StepInv
<1>1. /\ pc[t] = "last" /\ pc' = [pc EXCEPT ![t] = "found"] /\ last' = at[t] /\ prev' = prev
      /\ UNCHANGED <<next, n_node, conn, freed, clean, at, want, app, loop, after, readable, writable,
                       apps, fds_p, pulled, n2c, i2c, gone, closed, crash>>
      BY DEF PushLast, Goes, select, shared, pipe, outside
<1>2. /\ Linked' = Linked /\ pc'[t] = "found"
      /\ \A u \in Thread \ {t} : pc[u] \notin Busy /\ pc'[u] = pc[u] /\ pc'[u] \notin Busy
      /\ Where' /\ Kept' /\ Nodes' /\ Forward' /\ Searching'
      /\ Pass' /\ Bound' /\ Asking' /\ Fates'
  <2>1. "last" \in {"back", "last"} /\ "found" \in {"last", "found"} OBVIOUS
  <2>2. QED BY ONLY <1>1, <2>1, PushOnStep, Good, t \in Thread
<1>3. /\ at[t] = n_node /\ n_node \in Linked /\ last \in Linked /\ last < n_node
      /\ \A k \in Linked : k = n_node \/ k <= last
      BY <1>1, AtTheEnd
<1>4. Backward'
  <2>1. ASSUME NEW k \in Linked \ {N2C}
        PROVE  prev[k] \in Linked /\ next[prev[k]] = k
    <3>1. ~\E u \in Thread : pc[u] = "back" /\ at[u] = k
          BY <1>1, <1>2 DEF Busy, Pushing
    <3>2. pc["recv"] # "join" BY <1>1, <1>2 DEF Busy, Removing, Thread
    <3>3. QED BY <3>1, <3>2 DEF Good, Shape, Backward
  <2>2. QED BY <1>1, <1>2, <2>1 DEF Backward
<1>5. LastIs'
  <2>1. Highest(Linked, n_node)
    <3>1. \A k \in Linked : k <= n_node BY Places
    <3>2. QED BY <1>3, <3>1 DEF Highest
  <2>2. \A u \in Thread : pc'[u] \notin {"back", "last", "cut"}
        BY <1>2 DEF Busy, Pushing, Removing
  <2>3. QED BY <1>1, <1>2, <1>3, <2>1, <2>2 DEF LastIs, Highest, Thread
<1>6. Adding' BY <1>1, <1>2 DEF Adding, Busy, Pushing
<1>7. QED BY <1>2, <1>4, <1>5, <1>6 DEF Shape, StepInv

(* Whoever is to be taken out has ended.                                   *)
LEMMA EndedFirst ==
    ASSUME Good, NEW n \in closed
    PROVE  gone # {} /\ conn[n] \in gone
  BY DEF Good, Shape, Nodes

(* The nodes before and after one in the list.                             *)
LEMMA Between ==
    ASSUME Good, NEW p \in Linked, NEW n \in Linked, next[p] = n
    PROVE  /\ p < n /\ p # n /\ \A k \in Linked : k <= p \/ n <= k
           /\ \A q \in Linked : next[q] = n => q = p
<1>1. ASSUME NEW q \in Linked, next[q] = n
      PROVE  q < n /\ q # n /\ \A k \in Linked : k <= q \/ n <= k
  <2>1. Follows(Linked, q, n) BY <1>1 DEF Good, Shape, Forward
  <2>2. n # Null BY Places
  <2>3. n > q /\ \A k \in Linked : k <= q \/ n <= k BY <2>1, <2>2 DEF Follows
  <2>4. QED BY <2>3, Places
<1>2. ASSUME NEW q \in Linked, next[q] = n PROVE q = p
  <2>1. q < n /\ p < n /\ (q <= p \/ n <= q) /\ (p <= q \/ n <= p) BY <1>1, <1>2
  <2>2. QED BY <2>1, Places
<1>3. QED BY <1>1, <1>2

LEMMA RvClosedStep ==
    ASSUME Good, RvClosed
    PROVE  Where' /\ Kept' /\ gone' # {} /\ (~Overlap' => Shape')
<1> DEFINE p == prev[loop]
           m == next[loop]
<1>1. /\ pc["recv"] = "each" /\ loop \in readable \ (writable \union Pipes)
      /\ readable' = readable \ {loop}
      /\ \/ loop = last /\ last' = p /\ pc' = [pc EXCEPT !["recv"] = "cut"]
            /\ prev' = prev /\ crash' = crash
         \/ /\ loop # last /\ last' = last /\ pc' = [pc EXCEPT !["recv"] = "join"]
            /\ \/ m = Null
               \/ m # Null /\ prev' = [prev EXCEPT ![m] = p] /\ crash' = crash
      BY DEF RvClosed, Goes
<1>2. UNCHANGED <<next, n_node, conn, freed, clean, at, want, app, loop, after, writable,
                  apps, fds_p, pulled, n2c, i2c, gone, closed>>
      BY DEF RvClosed, shared, pipe, outside
<1>3. loop \in Linked /\ loop \in closed /\ loop \notin Pipes /\ loop \in Node
  <2>1. loop \in Linked /\ loop \in closed /\ loop \notin Pipes BY <1>1 DEF Good, Shape, Pass
  <2>2. QED BY <2>1, Places
<1>4. gone # {} BY <1>3, EndedFirst
<1>5. pc'["recv"] \in {"cut", "join"} /\ \A u \in Thread \ {"recv"} : pc'[u] = pc[u]
      BY <1>1 DEF Good, TypeOK, Thread
<1>6. Where' BY <1>5 DEF Where, Good, Thread, Removing
<1>7. Kept' BY <1>2, <1>4 DEF Kept
<1>8. ASSUME ~Overlap' PROVE Shape'
  <2>1. pc["service"] = "idle" /\ pc["netmap"] = "idle"
        /\ pc'["service"] = "idle" /\ pc'["netmap"] = "idle"
        BY <1>5, <1>8 DEF Overlap, Thread
  <2>2. Linked' = Linked
        BY <1>1, <1>2, <1>5, <2>1 DEF Linked, Thread
  <2>3. Highest(Linked, last) BY <1>1, <2>1 DEF Good, Shape, LastIs, Thread
  <2>4. p \in Linked /\ next[p] = loop
    <3>1. loop \in Linked \ {N2C} BY <1>3 DEF Pipes
    <3>2. QED BY <1>1, <2>1, <3>1 DEF Good, Shape, Backward, Thread
  <2>5. Follows(Linked, loop, m) BY <1>3 DEF Good, Shape, Forward
  <2>6. loop = last <=> m = Null
    <3>1. loop <= last /\ last \in Linked BY <1>3, <2>3 DEF Highest
    <3>2. ASSUME m = Null PROVE loop = last
      <4>1. last <= loop BY <2>5, <3>1, <3>2 DEF Follows
      <4>2. QED BY <1>3, <3>1, <4>1, Places
    <3>3. ASSUME loop = last, m # Null PROVE FALSE
      <4>1. m \in Linked /\ m > loop BY <2>5, <3>3 DEF Follows
      <4>2. m <= loop BY <2>3, <3>3, <4>1 DEF Highest
      <4>3. QED BY <1>3, <4>1, <4>2, Places
    <3>4. QED BY <3>2, <3>3
  <2>7. crash' = crash BY <1>1, <2>6
  <2>8. Nodes' /\ Forward' BY <1>2, <2>2 DEF Good, Shape, Nodes, Forward, Follows
  <2>9. Backward'
    <3>1. ASSUME NEW k \in Linked \ {N2C}
          PROVE  \/ pc'["recv"] = "join" /\ next[loop] = k /\ prev'[k] = prev'[loop]
                 \/ prev'[k] \in Linked /\ next[prev'[k]] = k
      <4>1. prev[k] \in Linked /\ next[prev[k]] = k
            BY <1>1, <2>1 DEF Good, Shape, Backward, Thread
      <4>2. CASE prev' = prev BY <4>1, <4>2
      <4>3. CASE loop # last /\ m # Null /\ prev' = [prev EXCEPT ![m] = p]
        <5>1. m # loop BY <1>3, Places
        <5>2. k \in Node BY Places
        <5>3. k # m => prev'[k] = prev[k] BY <4>3, <5>2 DEF Good, TypeOK
        <5>4. k = m => prev'[k] = p /\ prev'[loop] = p BY <1>3, <4>3, <5>1, <5>2 DEF Good, TypeOK
        <5>5. pc'["recv"] = "join" BY <1>1, <4>3 DEF Good, TypeOK, Thread
        <5>6. QED BY <4>1, <5>3, <5>4, <5>5
      <4>4. QED BY <1>1, <2>6, <4>2, <4>3
    <3>2. QED BY <1>2, <2>2, <3>1 DEF Backward
  <2>10. LastIs'
    <3>1. CASE loop = last
      <4>1. pc'["recv"] = "cut" /\ last' = p BY <1>1, <3>1 DEF Good, TypeOK, Thread
      <4>2. p # loop /\ \A k \in Linked : k <= p \/ loop <= k BY <1>3, <2>4, Between
      <4>3. ASSUME NEW k \in Linked \ {loop} PROVE k <= p
        <5>1. k <= loop BY <2>3, <3>1 DEF Highest
        <5>2. ~(loop <= k) BY <1>3, <5>1, Places
        <5>3. QED BY <4>2, <5>2
      <4>4. Highest(Linked \ {loop}, p) BY <2>4, <4>2, <4>3 DEF Highest
      <4>5. \A u \in Thread : pc'[u] \notin {"back", "last"} BY <1>5, <2>1 DEF Thread
      <4>6. QED BY <1>2, <2>2, <4>1, <4>4, <4>5 DEF LastIs, Highest
    <3>2. CASE loop # last
      <4>1. pc'["recv"] = "join" /\ last' = last BY <1>1, <3>2 DEF Good, TypeOK, Thread
      <4>2. QED BY <1>5, <2>1, <2>2, <2>3, <4>1 DEF LastIs, Highest, Thread
    <3>3. QED BY <3>1, <3>2
  <2>11. Adding' BY <1>5, <2>1 DEF Adding, Pushing, Thread
  <2>12. Searching' BY <1>5, <2>1 DEF Searching, Finds, Thread, Using
  <2>13. Pass'
    <3>1. /\ loop' \in 1 .. n_node' /\ after' # loop' /\ (after' = Null \/ after' \in Linked)
          /\ readable' \ Pipes \subseteq closed'
          /\ readable' \union writable' \subseteq Linked
          BY <1>1, <1>2 DEF Good, Shape, Pass
    <3>2. loop' \notin Pipes /\ loop' \in closed' /\ loop' \notin freed'
          /\ loop' \notin readable' \union writable'
          BY <1>1, <1>2, <1>3 DEF Linked
    <3>3. pc'["recv"] = "join" => next'[loop'] # Null /\ prev'[next'[loop']] = prev'[loop']
      <4>1. ASSUME pc'["recv"] = "join" PROVE m # Null /\ prev'[m] = prev'[loop]
        <5>1. loop # last BY <1>1, <4>1 DEF Good, TypeOK, Thread
        <5>2. m # Null /\ prev' = [prev EXCEPT ![m] = p] BY <1>1, <2>6, <5>1
        <5>3. m # loop /\ m \in Linked BY <1>3, <5>2, Places
        <5>4. m \in Node BY <5>3, Places
        <5>5. prev'[m] = p /\ prev'[loop] = p BY <1>3, <5>2, <5>3, <5>4 DEF Good, TypeOK
        <5>6. QED BY <5>2, <5>5
      <4>2. QED BY <1>2, <4>1
    <3>4. pc'["recv"] = "cut" => next'[loop'] = Null /\ last' = prev'[loop']
      <4>1. ASSUME pc'["recv"] = "cut" PROVE loop = last /\ last' = p /\ prev' = prev
            BY <1>1, <4>1 DEF Good, TypeOK, Thread
      <4>2. QED BY <1>2, <2>6, <4>1
    <3>5. QED BY <2>2, <3>1, <3>2, <3>3, <3>4 DEF Pass
  <2>14. Bound' /\ Asking' /\ Fates' BY <1>2, <1>5, <2>2, <2>7, Rest DEF Using
  <2>15. QED BY <2>8, <2>9, <2>10, <2>11, <2>12, <2>13, <2>14 DEF Shape
<1>9. QED BY <1>2, <1>4, <1>6, <1>7, <1>8

(* The node is taken out of the list.                                      *)
LEMMA RvUnlinkStep ==
    ASSUME Good, RvUnlink
    PROVE  StepInv /\ loop \in Linked /\ Linked' = Linked \ {loop}
           /\ prev[loop] \in Linked /\ next[prev[loop]] = loop
           /\ next' = [next EXCEPT ![prev[loop]] = next[loop]]
<1> DEFINE p == prev[loop]
           m == next[loop]
           L == Linked \ {loop}
<1>1. pc["recv"] \in {"cut", "join"} BY DEF RvUnlink
<1>2. UNCHANGED <<last, prev, n_node, conn, freed, clean, at, want, app, loop, after, readable,
                  writable, apps, fds_p, pulled, n2c, i2c, gone, closed>>
      BY DEF RvUnlink, select, shared, pipe, outside
<1>3. /\ loop \in 1 .. n_node /\ after # loop /\ (after = Null \/ after \in Linked)
      /\ readable \union writable \subseteq Linked /\ readable \ Pipes \subseteq closed
      /\ loop \notin Pipes /\ loop \in closed /\ loop \notin freed
      /\ loop \notin readable \union writable
      /\ pc["recv"] = "join" => m # Null /\ prev[m] = p
      /\ pc["recv"] = "cut" => m = Null /\ last = p
      BY <1>1 DEF Good, Shape, Pass, Removing
<1>4. /\ pc["service"] = "idle" /\ pc["netmap"] = "idle" /\ \A a \in App : fds_p[a] # loop
      BY <1>1, Alone DEF Removing
<1>5. loop \in Linked /\ loop \in Node
  <2>1. loop \in Linked BY <1>1, <1>3, <1>4 DEF Linked, Thread
  <2>2. QED BY <2>1, Places
<1>6. p \in Linked /\ next[p] = loop
  <2>1. loop \in Linked \ {N2C} BY <1>3, <1>5 DEF Pipes
  <2>2. next[loop] # loop BY <1>5, Places
  <2>3. QED BY <1>1, <1>4, <2>1, <2>2 DEF Good, Shape, Backward, Thread
<1>7. p \in Node /\ last \in Linked /\ last # Null
  <2>1. pc["recv"] = "cut" => last \in Linked BY <1>3, <1>6
  <2>2. pc["recv"] = "join" => last \in Linked
        BY <1>4 DEF Good, Shape, LastIs, Highest, Thread
  <2>3. QED BY <1>1, <1>6, <2>1, <2>2, Places
<1>8. /\ next' = [next EXCEPT ![p] = m] /\ pc' = [pc EXCEPT !["recv"] = "free"] /\ crash' = crash
      BY <1>1, <1>3, <1>7 DEF RvUnlink, Goes
<1>9. pc'["recv"] = "free" /\ pc'["service"] = "idle" /\ pc'["netmap"] = "idle"
      BY <1>4, <1>8 DEF Good, TypeOK, Thread
<1>10. Linked' = L
  <2>1. \A k \in 1 .. n_node : k \in Linked <=> k \notin freed
        BY <1>1, <1>4 DEF Linked, Thread
  <2>2. \A k \in 1 .. n_node : k \in Linked' <=> k \notin freed /\ k # loop
        BY <1>2, <1>9 DEF Linked, Thread
  <2>3. Linked \subseteq 1 .. n_node /\ Linked' \subseteq 1 .. n_node BY <1>2 DEF Linked
  <2>4. QED BY <2>1, <2>2, <2>3
<1>11. /\ next'[p] = m /\ \A k \in Node \ {p} : next'[k] = next[k]
       BY <1>7, <1>8 DEF Good, TypeOK
<1>12. /\ p < loop /\ p # loop /\ \A k \in Linked : k <= p \/ loop <= k
       /\ \A q \in Linked : next[q] = loop => q = p
       BY <1>5, <1>6, Between
<1>13. Follows(Linked, loop, m) BY <1>5 DEF Good, Shape, Forward
<1>14. Forward'
  <2>1. ASSUME NEW k \in L PROVE Follows(L, k, next'[k])
    <3>1. CASE k = p
      <4>1. CASE m = Null
        <5>1. \A j \in L : j <= p
          <6>1. ASSUME NEW j \in L PROVE j <= p
            <7>1. j <= loop BY <1>13, <4>1 DEF Follows
            <7>2. j <= p \/ loop <= j BY <1>12
            <7>3. QED BY <1>5, <7>1, <7>2, Places
          <6>2. QED BY <6>1
        <5>2. QED BY <1>11, <3>1, <4>1, <5>1 DEF Follows
      <4>2. CASE m # Null
        <5>1. m \in Linked /\ m > loop /\ \A j \in Linked : j <= loop \/ m <= j
              BY <1>13, <4>2 DEF Follows
        <5>2. m \in L /\ m > p BY <1>5, <1>6, <1>12, <5>1, Places
        <5>3. ASSUME NEW j \in L PROVE j <= p \/ m <= j
          <6>1. (j <= p \/ loop <= j) /\ (j <= loop \/ m <= j) BY <1>12, <5>1
          <6>2. QED BY <1>5, <6>1, Places
        <5>4. QED BY <1>11, <3>1, <4>2, <5>2, <5>3 DEF Follows
      <4>3. QED BY <4>1, <4>2
    <3>2. CASE k # p
      <4>1. k \in Linked /\ k \in Node BY Places
      <4>2. next'[k] = next[k] /\ next[k] # loop BY <1>11, <1>12, <3>2, <4>1
      <4>3. Follows(Linked, k, next[k]) BY <4>1 DEF Good, Shape, Forward
      <4>4. QED BY <4>2, <4>3 DEF Follows
    <3>3. QED BY <3>1, <3>2
  <2>2. QED BY <1>10, <2>1 DEF Forward
<1>15. Backward'
  <2>1. ASSUME NEW k \in L \ {N2C}
        PROVE  prev[k] \in L /\ next'[prev[k]] = k
    <3>1. \/ pc["recv"] = "join" /\ m = k /\ prev[k] = p
          \/ prev[k] \in Linked /\ next[prev[k]] = k
          BY <1>1, <1>4 DEF Good, Shape, Backward, Thread
    <3>2. CASE pc["recv"] = "join" /\ m = k /\ prev[k] = p
          BY <1>6, <1>11, <1>12, <3>2
    <3>3. CASE prev[k] \in Linked /\ next[prev[k]] = k /\ ~(pc["recv"] = "join" /\ m = k)
      <4>1. prev[k] # loop
        <5>1. k # Null BY Places
        <5>2. ~(m = k) BY <1>1, <1>3, <3>3, <5>1
        <5>3. QED BY <3>3, <5>2
      <4>2. prev[k] # p BY <1>6, <3>3
      <4>3. prev[k] \in Node BY <3>3, Places
      <4>4. QED BY <1>11, <3>3, <4>1, <4>2, <4>3
    <3>4. CASE pc["recv"] = "join" /\ m = k /\ prev[k] # p BY <1>3, <3>4
    <3>5. QED BY <3>1, <3>2, <3>3, <3>4
  <2>2. QED BY <1>2, <1>10, <2>1 DEF Backward
<1>16. LastIs'
  <2>1. Highest(L, last)
    <3>1. CASE pc["recv"] = "cut" BY <1>4, <3>1 DEF Good, Shape, LastIs, Thread
    <3>2. CASE pc["recv"] = "join"
      <4>1. Highest(Linked, last) BY <1>4, <3>2 DEF Good, Shape, LastIs, Thread
      <4>2. m \in Linked /\ m > loop BY <1>3, <1>13, <3>2 DEF Follows
      <4>3. m <= last BY <4>1, <4>2 DEF Highest
      <4>4. last # loop BY <1>5, <1>7, <4>2, <4>3, Places
      <4>5. QED BY <4>1, <4>4 DEF Highest
    <3>3. QED BY <1>1, <3>1, <3>2
  <2>2. QED BY <1>2, <1>9, <1>10, <2>1 DEF LastIs, Highest, Thread
<1>17. Nodes'
  <2>1. Pipes \subseteq L BY <1>3 DEF Good, Shape, Nodes
  <2>2. \A k \in Node : k > n_node => next'[k] = Null
    <3>1. ~(p > n_node) BY <1>6, Places
    <3>2. QED BY <1>11, <3>1 DEF Good, Shape, Nodes
  <2>3. QED BY <1>2, <1>10, <2>1, <2>2 DEF Good, Shape, Nodes
<1>18. Adding' BY <1>9 DEF Adding, Pushing, Thread
<1>19. Searching' BY <1>9 DEF Searching, Finds, Thread, Using
<1>20. Where' BY <1>9 DEF Where, Removing
<1>21. Pass' BY <1>2, <1>3, <1>9, <1>10 DEF Pass, Removing
<1>22. Bound' BY <1>2, <1>4, <1>10 DEF Good, Shape, Bound
<1>23. Asking' BY <1>2, <1>9 DEF Good, Shape, Asking, Using
<1>24. Kept'
  <2>1. gone # {} BY <1>3, EndedFirst
  <2>2. QED BY <1>2, <2>1 DEF Kept
<1>25. Fates' BY <1>2, <1>8 DEF Good, Shape, Fates
<1>26. QED
  BY <1>5, <1>6, <1>8, <1>10, <1>14, <1>15, <1>16, <1>17, <1>18, <1>19, <1>20, <1>21, <1>22, <1>23,
     <1>24, <1>25
     DEF Shape, StepInv

LEMMA RvFreeStep ==
    ASSUME Good, RvFree
    PROVE  StepInv
<1>1. /\ pc["recv"] = "free" /\ pc' = [pc EXCEPT !["recv"] = "each"]
      /\ freed' = freed \union {loop}
      BY DEF RvFree, Goes
<1>2. UNCHANGED <<last, next, prev, n_node, conn, clean, at, want, app, loop, after, readable,
                  writable, apps, fds_p, pulled, n2c, i2c, gone, closed, crash>>
      BY DEF RvFree, select, shared, pipe, outside
<1>3. /\ loop \in 1 .. n_node /\ after # loop /\ (after = Null \/ after \in Linked)
      /\ readable \union writable \subseteq Linked /\ readable \ Pipes \subseteq closed
      /\ loop \in closed
      BY <1>1 DEF Good, Shape, Pass, Removing
<1>4. pc["service"] = "idle" /\ pc["netmap"] = "idle" BY <1>1, Alone DEF Removing
<1>5. pc'["recv"] = "each" /\ pc'["service"] = "idle" /\ pc'["netmap"] = "idle"
      BY <1>1, <1>4 DEF Good, TypeOK, Thread
<1>6. Linked' = Linked
      BY <1>1, <1>2, <1>4, <1>5 DEF Linked, Thread
<1>7. Forward' BY <1>2, <1>6 DEF Good, Shape, Forward, Follows
<1>8. Backward' BY <1>1, <1>2, <1>4, <1>6 DEF Good, Shape, Backward, Thread
<1>9. LastIs' BY <1>1, <1>2, <1>4, <1>5, <1>6 DEF Good, Shape, LastIs, Highest, Thread
<1>10. Nodes' BY <1>1, <1>2, <1>3, <1>6 DEF Good, Shape, Nodes
<1>11. Adding' BY <1>5 DEF Adding, Pushing, Thread
<1>12. Searching' BY <1>5 DEF Searching, Finds, Thread, Using
<1>13. Where' BY <1>5 DEF Where
<1>14. Pass' BY <1>2, <1>3, <1>5, <1>6 DEF Pass, Removing
<1>15. Bound' BY <1>2, <1>6, Rest
<1>16. Asking' BY <1>2, <1>5 DEF Good, Shape, Asking, Using
<1>17. Kept'
  <2>1. gone # {} BY <1>3, EndedFirst
  <2>2. QED BY <1>2, <2>1 DEF Kept
<1>18. Fates' BY <1>2 DEF Good, Shape, Fates
<1>19. QED BY <1>7, <1>8, <1>9, <1>10, <1>11, <1>12, <1>13, <1>14, <1>15, <1>16, <1>17, <1>18
       DEF Shape, StepInv

-----------------------------------------------------------------------------
(* The invariant holds.                                                    *)

LEMMA Quiet == Kept /\ Shape /\ gone = {} => ~Overlap
<1> SUFFICES ASSUME Kept, Shape, gone = {}, Overlap PROVE FALSE OBVIOUS
<1>1. pc["recv"] \notin Pushing \union Removing BY DEF Kept
<1>2. pc["recv"] = "search" /\ at["recv"] = Null
      BY <1>1 DEF Overlap, Missed, Pushing, Removing
<1>3. app["recv"] \in apps BY <1>2 DEF Shape, Asking, Using
<1>4. /\ want["recv"] = MasterOf[app["recv"]]
      /\ \A n \in Linked : conn[n] # want["recv"]
      BY <1>2 DEF Shape, Searching, Finds, Thread, Using
<1>5. QED BY <1>3, <1>4 DEF Kept

LEMMA InitInv == Init => CInv
<1> SUFFICES ASSUME Init PROVE CInv OBVIOUS
<1>1. Node = 1 .. MaxNode /\ MaxNode \in Nat /\ MaxNode >= 2 /\ Null \notin Node /\ Null # "pipe"
      /\ "pipe" \notin Master /\ Null \notin Master
      BY ConnAssumption DEF Node
<1>2. 1 \in Node /\ 2 \in Node /\ N2C = 1 /\ I2C = 2 /\ Pipes = {1, 2} /\ 1 # Null /\ 2 # Null
      BY <1>1 DEF N2C, I2C, Pipes
<1>3. /\ last = 2 /\ n_node = 2
      /\ next \in [Node -> Maybe(Node)] /\ prev \in [Node -> Maybe(Node)]
      /\ next[1] = 2 /\ \A n \in Node : n # 1 => next[n] = Null
      /\ prev[2] = 1 /\ conn \in [Node -> Master \union {"pipe", Null}]
      /\ conn[1] = "pipe" /\ conn[2] = "pipe" /\ \A n \in Node : n \notin {1, 2} => conn[n] = Null
      BY <1>2 DEF Init, Maybe
<1>4. /\ pc \in [Thread -> {"idle", "scan"}]
      /\ pc["recv"] = "scan" /\ pc["service"] = "idle" /\ pc["netmap"] = "idle"
      /\ at \in [Thread -> {Null}] /\ want \in [Thread -> {Null}] /\ app \in [Thread -> {Null}]
      BY DEF Init, Thread
<1>5. /\ freed = {} /\ loop = Null /\ after = Null /\ readable = {} /\ writable = {}
      /\ apps = {} /\ fds_p \in [App -> {Null}] /\ pulled = {} /\ n2c = <<>> /\ i2c = <<>>
      /\ sent = {} /\ gone = {} /\ closed = {} /\ joined = 0 /\ crash = "no" /\ clash = FALSE
      /\ clean \in BOOLEAN
      BY DEF Init
<1>6. TypeOK
  <2>1. queue \in [Node -> Seq({"PULL", "FIRST_SEQ"} \X App)]
    <3>1. <<>> \in Seq({"PULL", "FIRST_SEQ"} \X App) BY EmptySeq
    <3>2. QED BY <3>1 DEF Init
  <2>2. <<>> \in Seq(App) BY EmptySeq
  <2>3. pc \in [Thread -> {"idle", "search", "link", "back", "last", "found",
                          "scan", "select", "each", "cut", "join", "free"}]
        BY <1>4
  <2>4. joined \in 0 .. MaxInt BY <1>5, ConnAssumption
  <2>5. /\ last \in Maybe(Node) /\ n_node \in Node /\ loop \in Maybe(Node) /\ after \in Maybe(Node)
        /\ at \in [Thread -> Maybe(Node)] /\ want \in [Thread -> Maybe(Master)]
        /\ app \in [Thread -> Maybe(App)] /\ fds_p \in [App -> Maybe(Node)]
        BY <1>2, <1>3, <1>4, <1>5 DEF Maybe
  <2>6. n2c \in Seq(App) /\ i2c \in Seq(App) BY <1>5, <2>2
  <2>7. crash \in {"no", "dangling", "null", "abort", "refused", "sigpipe", "garbage"} /\ clash \in BOOLEAN
        BY <1>5
  <2>8. QED BY <1>3, <1>5, <2>1, <2>3, <2>4, <2>5, <2>6, <2>7 DEF TypeOK
<1>7. Linked = {1, 2}
  <2>1. \A n \in 1 .. 2 : n = 1 \/ n = 2 OBVIOUS
  <2>2. 1 \in 1 .. 2 /\ 2 \in 1 .. 2 OBVIOUS
  <2>3. \A n \in 1 .. 2 : n \in Linked BY <1>3, <1>4, <1>5 DEF Linked, Thread
  <2>4. Linked \subseteq 1 .. 2 BY <1>3 DEF Linked
  <2>5. QED BY <2>1, <2>2, <2>3, <2>4
<1>8. Nodes
  <2>1. \A n \in Node : n \notin {1, 2} <=> n > 2 BY <1>1
  <2>2. \A n \in Node : conn[n] = Null <=> n > 2 BY <1>1, <1>2, <1>3, <2>1
  <2>3. \A n \in Node : conn[n] = "pipe" <=> n \in {1, 2} BY <1>1, <1>2, <1>3
  <2>4. \A n \in Node : n > 2 => next[n] = Null BY <1>3, <2>1
  <2>5. QED BY <1>2, <1>3, <1>5, <1>7, <2>2, <2>3, <2>4 DEF Nodes
<1>9. Forward
  <2>1. Follows({1, 2}, 1, 2) BY <1>2 DEF Follows
  <2>2. Follows({1, 2}, 2, Null) BY DEF Follows
  <2>3. QED BY <1>2, <1>3, <1>7, <2>1, <2>2 DEF Forward
<1>10. Backward BY <1>2, <1>3, <1>7 DEF Backward
<1>11. LastIs BY <1>3, <1>4, <1>7 DEF LastIs, Highest, Thread
<1>12. Adding /\ Searching BY <1>4 DEF Adding, Searching, Finds, Pushing, Using, Thread
<1>13. Pass /\ Bound /\ Asking /\ Fates /\ Kept
       BY <1>4, <1>5 DEF Pass, Bound, Asking, Fates, Kept, Removing, Pushing, Using
<1>14. Where BY <1>4 DEF Where
<1>15. Shape BY <1>8, <1>9, <1>10, <1>11, <1>12, <1>13 DEF Shape
<1>16. ~Overlap BY <1>5, <1>13, <1>15, Quiet
<1>17. QED BY <1>5, <1>6, <1>13, <1>14, <1>15, <1>16 DEF CInv

LEMMA GoodStep ==
    ASSUME Good, Step
    PROVE  Where' /\ Kept' /\ (Overlap' => gone' # {}) /\ (~Overlap' => Shape')
<1>1. ASSUME StepInv PROVE Where' /\ Kept' /\ (Overlap' => gone' # {}) /\ (~Overlap' => Shape')
  <2>1. (Kept /\ Shape /\ gone = {} => ~Overlap)' BY Quiet, PTL
  <2>2. QED BY <1>1, <2>1 DEF StepInv
<1>2. ASSUME NEW t \in Thread, Push(t) PROVE StepInv
  <2>1. CASE Search(t) BY <2>1, SearchStep
  <2>2. CASE Connect(t) BY <2>2, ConnectStep
  <2>3. CASE PushLink(t) BY <2>3, PushLinkStep
  <2>4. CASE PushBack(t) BY <2>4, PushBackStep
  <2>5. CASE PushLast(t) BY <2>5, PushLastStep
  <2>6. QED BY <1>2, <2>1, <2>2, <2>3, <2>4, <2>5 DEF Push
<1>3. CASE Service BY <1>1, <1>2, <1>3, SvJoinedStep DEF Service, Thread
<1>4. CASE Netmap BY <1>1, <1>4, SearchStep, NmMissedStep, NmBindStep DEF Netmap, Thread
<1>5. CASE Recv
  <2>1. CASE Push("recv") BY <1>1, <1>2, <2>1 DEF Thread
  <2>2. CASE RvScan \/ RvSelect \/ RvNext \/ RvWrite
        BY <1>1, <2>2, RvScanStep, RvSelectStep, RvNextStep, RvWriteStep
  <2>3. CASE RvPull \/ RvPulled \/ RvFirst BY <1>1, <2>3, RvPullStep, RvPulledStep, RvFirstStep
  <2>4. CASE RvClosed BY <2>4, RvClosedStep
  <2>5. CASE RvUnlink \/ RvFree BY <1>1, <2>5, RvUnlinkStep, RvFreeStep
  <2>6. QED BY <1>5, <2>1, <2>2, <2>3, <2>4, <2>5 DEF Recv
<1>6. ASSUME NEW a \in App, SvInt(a) \/ SvRead(a) \/ NmPacket(a) PROVE StepInv
      BY <1>6, SvIntStep, SvReadStep, NmPacketStep
<1>7. ASSUME NEW m \in Master, Ends(m) PROVE StepInv BY <1>7, EndsStep
<1>8. QED BY <1>1, <1>3, <1>4, <1>5, <1>6, <1>7 DEF Step

LEMMA InvIsGood == CInv /\ ~clash => Good
  BY DEF CInv, Good

LEMMA NextInv == CInv /\ [Next]_vars => CInv'
<1> SUFFICES ASSUME CInv, [Next]_vars PROVE CInv' OBVIOUS
<1>1. CASE Step /\ Mark
  <2>1. Good BY <1>1, InvIsGood DEF Mark
  <2>2. clash' \in BOOLEAN /\ (clash' <=> Overlap') BY <1>1 DEF Mark, Overlap
  <2>3. TypeOK' BY <1>1, <2>1, <2>2, TypeStep
  <2>4. Where' /\ Kept' /\ (Overlap' => gone' # {}) /\ (~Overlap' => Shape')
        BY <1>1, <2>1, GoodStep
  <2>5. QED BY <2>2, <2>3, <2>4 DEF CInv
<1>2. CASE UNCHANGED vars
  <2>1. UNCHANGED <<last, next, prev, n_node, conn, freed, queue, clean, pc, at, want, app, loop,
                    after, readable, writable, apps, fds_p, pulled, n2c, i2c, sent, gone, closed,
                    joined, crash, clash>>
        BY <1>2 DEF vars, list, thread, select, shared, pipe, outside
  <2>2. TypeOK' BY <2>1 DEF CInv, TypeOK
  <2>3. Linked' = Linked BY <2>1 DEF Linked
  <2>4. Where' /\ Kept' /\ (Overlap' <=> Overlap)
        BY <2>1, <2>3 DEF CInv, Where, Kept, Overlap, Missed, Running
  <2>5. ASSUME Shape PROVE Shape'
    <3>1. Nodes' /\ Forward' /\ Backward' /\ LastIs'
          BY <2>1, <2>3, <2>5 DEF Shape, Nodes, Forward, Follows, Backward, LastIs, Highest
    <3>2. Adding' /\ Searching'
          BY <2>1, <2>3, <2>5 DEF Shape, Adding, Searching, Finds
    <3>3. Pass' /\ Bound' /\ Asking' /\ Fates'
          BY <2>1, <2>3, <2>5 DEF Shape, Pass, Bound, Asking, Fates
    <3>4. QED BY <3>1, <3>2, <3>3 DEF Shape
  <2>6. QED BY <2>1, <2>2, <2>4, <2>5 DEF CInv
<1>3. QED BY <1>1, <1>2 DEF Next

(* ConnsInvariant: in every reachable state either a removal has           *)
(* overlapped with another use, or the nodes are linked in order, back     *)
(* pointers and rsockList->last follow at most a store behind, and each    *)
(* thread's position is still in the list (CInv).                          *)
THEOREM ConnsInvariant == Spec => []CInv
<1>1. QED BY InitInv, NextInv, PTL DEF Spec

(* TypeCorrect: the pointers of rsockList point to nodes or nowhere, the   *)
(* queues hold pulls and reports, each thread is at a place of its code.   *)
THEOREM TypeCorrect == Spec => []TypeOK
<1>1. CInv => TypeOK BY DEF CInv
<1>2. QED BY <1>1, ConnsInvariant, PTL

(* NobodyFalls: no thread walking through rsockList or through fds_p meets *)
(* a node that is half linked, has no connection in it or is freed, and    *)
(* the checks of List_remove do not fail: only a connection that is        *)
(* refused or a write to one that is closed may end the process, and while *)
(* all agents stay nothing does.                                           *)
THEOREM NobodyFalls == Spec => []Survives
<1>1. CInv => Survives BY DEF CInv, Shape, Fates, Survives, AllStay, Running
<1>2. QED BY <1>1, ConnsInvariant, PTL

(* MastersStay: while all agents stay, an application in hashApp has its   *)
(* connection in rsockList, a broadcast reports to its own master, and the *)
(* receive thread never has to connect (thread_recv.c:251).                *)
THEOREM MastersStay == Spec => []AppsConnected
<1>1. CInv => AppsConnected
  <2> SUFFICES ASSUME CInv, gone = {} PROVE AppsConnected BY DEF AppsConnected, AllStay
  <2>1. ~clash BY DEF CInv
  <2>2. InList = Linked BY <2>1, InvIsGood, GoodList
  <2>3. Kept /\ Bound BY <2>1 DEF CInv, Shape
  <2>4. QED BY <2>2, <2>3 DEF AppsConnected, Kept, Bound, Pushing
<1>2. QED BY <1>1, ConnsInvariant, PTL

(* OverlapNeedsAnEnd: service, receive and netmap thread come into each    *)
(* other's way in rsockList only after an agent of a master has ended.     *)
THEOREM OverlapNeedsAnEnd == Spec => [](AllStay => ~clash)
<1>1. CInv => (AllStay => ~clash) BY DEF CInv, AllStay
<1>2. QED BY <1>1, ConnsInvariant, PTL

-----------------------------------------------------------------------------
(* The table that the list stands for.                                     *)

(* The chain climbs for l places and ends.                                 *)
ReachesAt(l) ==
    /\ l \in 2 .. MaxNode
    /\ \A k \in Node : Chain[k] # Null <=> k <= l
    /\ \A k \in 1 .. l : Chain[k] \in Linked /\ k <= Chain[k]
    /\ \A j, k \in 1 .. l : j < k => Chain[j] < Chain[k]
    /\ Chain[1] = N2C /\ Chain[2] = I2C
    /\ \A n \in Linked : \E k \in 1 .. l : Chain[k] = n

LEMMA ChainEnds == Good => \E l \in 2 .. MaxNode : ReachesAt(l)
<1> SUFFICES ASSUME Good PROVE \E l \in 2 .. MaxNode : ReachesAt(l) OBVIOUS
<1> DEFINE c == Chain
           T == {k \in Node : c[k] # Null}
<1>1. c \in [Node -> Maybe(Node)] /\ Walks(c, MaxNode) BY GoodSizes, ChainIs
<1>2. \A k \in Node : c[k] = Null \/ (c[k] \in Linked /\ k <= c[k])
      BY GoodSizes, GoodOrder, Climbs
<1>3. \A n \in Linked : \E k \in Node : c[k] = n BY GoodSizes, GoodOrder, Reaches
<1>4. Node = 1 .. MaxNode /\ MaxNode \in Nat /\ MaxNode >= 2 /\ Null \notin Node
      BY GoodSizes DEF Sizes, Node
<1> HIDE DEF c
<1>5. 1 \in Node /\ 2 \in Node /\ c[1] = N2C /\ N2C # Null BY <1>1, <1>4, Places DEF Walks
<1>6. c[2] = I2C
  <2>1. c[2] = next[N2C] BY <1>1, <1>4, <1>5 DEF Walks
  <2>2. Follows(Linked, N2C, next[N2C]) /\ I2C \in Linked BY Places DEF Good, Shape, Forward
  <2>3. next[N2C] # Null BY <2>2 DEF Follows, N2C, I2C
  <2>4. next[N2C] \in Linked /\ next[N2C] > N2C /\ (I2C <= N2C \/ next[N2C] <= I2C)
        BY <2>2, <2>3 DEF Follows
  <2>5. next[N2C] \in Nat BY <2>4, Places
  <2>6. QED BY <2>1, <2>4, <2>5 DEF N2C, I2C
<1>7. PICK l \in T : \A k \in T : k <= l
  <2>1. T \subseteq 1 .. MaxNode /\ T # {} BY <1>4, <1>5
  <2> HIDE DEF T
  <2>2. QED BY <1>4, <2>1, Greatest
<1>8. l \in Node /\ c[l] # Null /\ l \in Nat /\ l >= 2
  <2>1. 2 \in T BY <1>5, <1>6, Places
  <2>2. QED BY <1>4, <1>7, <2>1
<1>9. ASSUME NEW k \in Node, k <= l PROVE c[k] # Null
  <2> DEFINE B == {j \in Node : j <= l /\ c[j] = Null}
  <2>1. ASSUME B # {} PROVE FALSE
    <3>1. PICK b \in B : \A j \in B : j <= b
      <4>1. B \subseteq 1 .. MaxNode BY <1>4
      <4> HIDE DEF B
      <4>2. QED BY <1>4, <2>1, <4>1, Greatest
    <3>2. b \in 1 .. MaxNode /\ b < l /\ c[b] = Null BY <1>4, <1>8
    <3>3. b + 1 \in 1 .. MaxNode /\ b + 1 # 1 /\ (b + 1) - 1 = b /\ b + 1 <= l /\ ~(b + 1 <= b)
          BY <1>4, <1>8, <3>2
    <3>4. c[b + 1] = Null BY <1>1, <3>2, <3>3 DEF Walks
    <3>5. b + 1 \in B BY <1>4, <3>3, <3>4
    <3>6. QED BY <3>1, <3>3, <3>5
  <2>2. QED BY <1>9, <2>1
<1>10. \A k \in Node : c[k] # Null <=> k <= l BY <1>7, <1>9
<1>11. \A k \in 1 .. l : k \in Node /\ c[k] \in Linked /\ k <= c[k]
  <2>1. \A k \in 1 .. l : k \in Node /\ k <= l BY <1>4, <1>8
  <2>2. QED BY <1>2, <1>10, <2>1
<1>12. \A k \in 2 .. l : c[k - 1] \in Linked /\ c[k - 1] \in Nat /\ c[k] \in Nat
                         /\ c[k] = next[c[k - 1]] /\ c[k - 1] < c[k]
  <2>1. ASSUME NEW k \in 2 .. l
        PROVE  c[k - 1] \in Linked /\ c[k] \in Linked /\ c[k] = next[c[k - 1]]
    <3>1. k \in 1 .. l /\ k - 1 \in 1 .. l /\ k # 1 /\ k \in 1 .. MaxNode BY <1>4, <1>8
    <3>2. c[k - 1] \in Linked /\ c[k] \in Linked BY <1>11, <3>1
    <3>3. c[k - 1] # Null BY <3>2, Places
    <3>4. QED BY <1>1, <3>1, <3>2, <3>3 DEF Walks
  <2>2. QED BY <2>1, Places
<1>13. ASSUME NEW i \in 1 .. l, NEW k \in 1 .. l, i < k PROVE c[i] < c[k]
  <2> DEFINE B == {j \in 1 .. l : i < j /\ ~(c[i] < c[j])}
  <2>1. ASSUME B # {} PROVE FALSE
    <3>1. PICK b \in B : \A j \in B : b <= j
      <4>1. B \subseteq Nat BY <1>8
      <4> HIDE DEF B
      <4>2. QED BY <2>1, <4>1, Least
    <3>2. b \in 2 .. l /\ b - 1 \in 1 .. l /\ i < b /\ ~(c[i] < c[b]) /\ b - 1 < b /\ i \in Nat
          BY <1>8
    <3>3. c[b - 1] < c[b] /\ c[b - 1] \in Nat /\ c[b] \in Nat BY <1>12, <3>2
    <3>4. c[i] \in Nat BY <1>11, Places
    <3>5. CASE i = b - 1 BY <3>2, <3>3, <3>5
    <3>6. CASE i # b - 1
      <4>1. i < b - 1 BY <3>2, <3>6
      <4>2. b - 1 \notin B BY <3>1, <3>2
      <4>3. c[i] < c[b - 1] BY <3>2, <4>1, <4>2
      <4>4. QED BY <3>2, <3>3, <3>4, <4>3
    <3>7. QED BY <3>5, <3>6
  <2>2. QED BY <1>13, <2>1
<1>14. \A n \in Linked : \E k \in 1 .. l : c[k] = n
  <2>1. ASSUME NEW n \in Linked PROVE \E k \in 1 .. l : c[k] = n
    <3>1. PICK k \in Node : c[k] = n BY <1>3
    <3>2. k <= l BY <1>10, <3>1, Places
    <3>3. k \in 1 .. l BY <1>4, <1>8, <3>2
    <3>4. QED BY <3>1, <3>3
  <2>2. QED BY <2>1
<1>15. l \in 2 .. MaxNode BY <1>4, <1>8
<1>16. ReachesAt(l) BY <1>5, <1>6, <1>10, <1>11, <1>13, <1>14, <1>15 DEF ReachesAt, c
<1>17. QED BY <1>15, <1>16

(* A table of length n.                                                    *)
LEMMA SeqOf ==
    ASSUME NEW S, NEW n \in Nat, NEW f \in [1 .. n -> S]
    PROVE  f \in Seq(S) /\ Len(f) = n
  BY SeqDef, LenProperties

LEMMA TableIs ==
    ASSUME Good, NEW l \in 2 .. MaxNode, ReachesAt(l)
    PROVE  /\ Conns = [i \in 1 .. l - 2 |-> conn[Chain[i + 2]]]
           /\ Conns \in Seq(Master) /\ Len(Conns) = l - 2 /\ l - 2 \in Nat
<1> DEFINE c == Chain
           D == {i \in 1 .. MaxNode - 2 : c[i + 2] # Null}
<1>1. Node = 1 .. MaxNode /\ MaxNode \in Nat /\ l \in Nat /\ l >= 2 /\ l <= MaxNode
      BY GoodSizes DEF Sizes, Node
<1>2. /\ \A k \in Node : c[k] # Null <=> k <= l
      /\ \A k \in 1 .. l : c[k] \in Linked /\ k <= c[k]
      BY DEF ReachesAt
<1>3. Conns = [i \in D |-> conn[c[i + 2]]] BY DEF Conns
<1> HIDE DEF c
<1>4. D = 1 .. l - 2
  <2>1. \A i \in 1 .. MaxNode - 2 : i + 2 \in Node /\ (i + 2 <= l <=> i \in 1 .. l - 2) BY <1>1
  <2>2. \A i \in 1 .. l - 2 : i \in 1 .. MaxNode - 2 BY <1>1
  <2>3. QED BY <1>2, <2>1, <2>2
<1>5. \A i \in 1 .. l - 2 : conn[c[i + 2]] \in Master
  <2>1. ASSUME NEW i \in 1 .. l - 2 PROVE conn[c[i + 2]] \in Master
    <3>1. i + 2 \in 1 .. l /\ i + 2 >= 3 BY <1>1
    <3>2. c[i + 2] \in Linked /\ i + 2 <= c[i + 2] BY <1>2, <3>1
    <3>3. c[i + 2] \in Node /\ c[i + 2] \in Nat /\ Live(c[i + 2]) BY <3>2, Places
    <3>4. c[i + 2] \notin Pipes BY <3>1, <3>2, <3>3 DEF Pipes, N2C, I2C
    <3>5. conn[c[i + 2]] # "pipe" /\ conn[c[i + 2]] # Null
          BY <3>3, <3>4 DEF Good, Shape, Nodes, Live
    <3>6. QED BY <3>3, <3>5 DEF Good, TypeOK
  <2>2. QED BY <2>1
<1>6. l - 2 \in Nat BY <1>1
<1>7. Conns = [i \in 1 .. l - 2 |-> conn[c[i + 2]]] BY <1>3, <1>4
<1>8. Conns \in [1 .. l - 2 -> Master] BY <1>5, <1>7
<1>9. QED BY <1>6, <1>7, <1>8, SeqOf DEF c

LEMMA SameTable ==
    ASSUME Good, next' = next, \A n \in Linked : conn'[n] = conn[n]
    PROVE  Conns' = Conns
<1> DEFINE c == Chain
<1>1. Chain' = Chain BY DEF Chain
<1>2. \A k \in Node : c[k] = Null \/ c[k] \in Linked BY GoodSizes, GoodOrder, Climbs
<1>3. \A i \in 1 .. MaxNode - 2 : i + 2 \in Node BY GoodSizes DEF Sizes, Node
<1>4. Conns = [i \in {i \in 1 .. MaxNode - 2 : c[i + 2] # Null} |-> conn[c[i + 2]]] BY DEF Conns
<1>5. Conns' = [i \in {i \in 1 .. MaxNode - 2 : c[i + 2] # Null} |-> conn'[c[i + 2]]]
      BY <1>1 DEF Conns
<1> HIDE DEF c
<1>6. \A i \in {i \in 1 .. MaxNode - 2 : c[i + 2] # Null} : conn'[c[i + 2]] = conn[c[i + 2]]
      BY <1>2, <1>3
<1>7. QED BY <1>4, <1>5, <1>6

OnlyChain == \A d \in [Node -> Maybe(Node)] : Walks(d, MaxNode) => Chain = d

LEMMA Unique == Sizes => OnlyChain
  BY ChainUnique DEF OnlyChain

(* What follows the new pointers is the new chain.                         *)
LEMMA NewChain ==
    ASSUME Good, next' \in [Node -> Maybe(Node)], NEW c \in [Node -> Maybe(Node)],
           \A k \in Node : c[k] = IF k = 1 THEN N2C
                                  ELSE IF c[k - 1] = Null THEN Null ELSE next'[c[k - 1]]
    PROVE  Chain' = c
<1>1. Sizes' => OnlyChain' BY Unique, PTL
<1>2. Sizes' BY GoodSizes DEF Sizes
<1>3. \A d \in [Node -> Maybe(Node)] : Walks(d, MaxNode)' => Chain' = d
      BY <1>1, <1>2 DEF OnlyChain
<1>4. Walks(c, MaxNode)' BY DEF Walks, Node
<1>5. QED BY <1>3, <1>4

(* A connection that is linked is added to the table.                      *)
LEMMA Connects ==
    ASSUME Good, NEW t \in Thread, PushLink(t), TypeOK'
    PROVE  Table!Connect(conn[n_node]) /\ conn[n_node] \in Master
<1> DEFINE n == n_node
           c == Chain
<1>1. /\ pc[t] = "link" /\ last # Null /\ next' = [next EXCEPT ![last] = at[t]]
      /\ conn' = conn /\ gone' = gone
      BY DEF PushLink, outside
<1>2. /\ at[t] = n /\ conn[n] = want[t] /\ next[n] = Null
      /\ \A k \in Linked : conn[k] # want[t]
      BY <1>1 DEF Good, Shape, Adding, Pushing
<1>3. want[t] \in Master
  <2>1. app[t] \in App /\ want[t] = MasterOf[app[t]]
        BY <1>1 DEF Good, Shape, Searching, Finds, Using
  <2>2. QED BY <2>1, ConnAssumption
<1>4. Highest(Linked, last)
  <2>1. \A u \in Thread \ {t} : pc[u] \notin Busy BY <1>1, Alone DEF Pushing
  <2>2. QED BY <1>1, <2>1 DEF Good, Shape, LastIs, Busy, Pushing, Removing, Thread
<1>5. n \in Node /\ n # Null /\ n \in Nat /\ n \notin Linked /\ n <= MaxNode
  <2>1. n \in Node /\ n \in Nat /\ n # Null /\ n <= MaxNode
        BY ConnAssumption, Places DEF Good, TypeOK
  <2>2. n \notin Linked BY <1>1, <1>2 DEF Linked
  <2>3. QED BY <2>1, <2>2
<1>6. last \in Linked /\ last \in Node /\ next[last] = Null /\ last < n /\ last # n
  <2>1. last \in Linked BY <1>4 DEF Highest
  <2>2. Follows(Linked, last, next[last]) BY <2>1 DEF Good, Shape, Forward
  <2>3. ASSUME next[last] # Null PROVE FALSE
    <3>1. next[last] \in Linked /\ next[last] > last BY <2>2, <2>3 DEF Follows
    <3>2. next[last] <= last BY <1>4, <3>1 DEF Highest
    <3>3. QED BY <2>1, <3>1, <3>2, Places
  <2>4. last <= n /\ last \in Node BY <2>1, Places
  <2>5. QED BY <1>5, <2>1, <2>3, <2>4, Places
<1>7. PICK l \in 2 .. MaxNode : ReachesAt(l) BY ChainEnds
<1>8. /\ \A k \in Node : c[k] # Null <=> k <= l
      /\ \A k \in 1 .. l : c[k] \in Linked /\ k <= c[k]
      /\ \A j, k \in 1 .. l : j < k => c[j] < c[k]
      BY <1>7 DEF ReachesAt
<1>9. c \in [Node -> Maybe(Node)]
      /\ \A k \in Node : c[k] = IF k = 1 THEN N2C ELSE IF c[k - 1] = Null THEN Null ELSE next[c[k - 1]]
      BY GoodSizes, ChainIs DEF Walks, Node
<1>10. /\ Conns = [i \in 1 .. l - 2 |-> conn[c[i + 2]]]
       /\ Conns \in Seq(Master) /\ Len(Conns) = l - 2 /\ l - 2 \in Nat
       BY <1>7, TableIs
<1>11. PICK x \in 1 .. l : c[x] = last BY <1>6, <1>7 DEF ReachesAt
<1>12. Node = 1 .. MaxNode /\ MaxNode \in Nat /\ l \in Nat /\ l >= 2 /\ l <= MaxNode /\ Null \notin Node
       BY GoodSizes DEF Sizes, Node
<1> DEFINE g == [c EXCEPT ![l + 1] = n]
<1>13. next' \in [Node -> Maybe(Node)] /\ next'[last] = n
       /\ \A k \in Node \ {last} : next'[k] = next[k]
       BY <1>1, <1>2, <1>5, <1>6 DEF Good, TypeOK, Maybe
<1> HIDE DEF n, c, g
<1>14. c[l] = last
  <2>1. CASE x = l BY <1>11, <2>1
  <2>2. CASE x # l
    <3>1. l \in 1 .. l /\ x < l /\ x \in Nat BY <1>11, <1>12, <2>2
    <3>2. c[x] < c[l] /\ c[l] \in Linked BY <1>8, <1>11, <3>1
    <3>3. c[l] <= last BY <1>4, <3>2 DEF Highest
    <3>4. QED BY <1>6, <1>11, <3>2, <3>3, Places
  <2>3. QED BY <2>1, <2>2
<1>15. l + 1 \in Node /\ l < MaxNode
  <2>1. l <= last BY <1>8, <1>12, <1>14
  <2>2. last \in Nat BY <1>6, Places
  <2>3. QED BY <1>5, <1>6, <1>12, <2>1, <2>2
<1>16. g \in [Node -> Maybe(Node)] /\ g[l + 1] = n /\ \A k \in Node \ {l + 1} : g[k] = c[k]
       BY <1>5, <1>9, <1>15 DEF g, Maybe
<1>17. ASSUME NEW k \in Node
       PROVE  g[k] = IF k = 1 THEN N2C ELSE IF g[k - 1] = Null THEN Null ELSE next'[g[k - 1]]
  <2>0. k \in Nat /\ k >= 1 /\ 1 \in Node /\ l + 1 # 1 BY <1>12
  <2>1. CASE k = 1 BY <1>9, <1>16, <2>0, <2>1
  <2>2. CASE k # 1 /\ k <= l
    <3>1. k - 1 \in Node /\ k - 1 \in 1 .. l /\ l \in 1 .. l /\ k - 1 < l /\ k # l + 1 /\ k - 1 # l + 1
          BY <1>12, <2>0, <2>2
    <3>2. c[k - 1] \in Linked /\ c[k - 1] < c[l] BY <1>8, <3>1
    <3>3. c[k - 1] # last /\ c[k - 1] \in Node /\ c[k - 1] # Null
          BY <1>6, <1>14, <3>2, Places
    <3>4. next'[c[k - 1]] = next[c[k - 1]] BY <1>13, <3>3
    <3>5. g[k] = c[k] /\ g[k - 1] = c[k - 1] BY <1>16, <3>1
    <3>6. c[k] = next[c[k - 1]] BY <1>9, <2>2, <3>3
    <3>7. QED BY <2>2, <3>3, <3>4, <3>5, <3>6
  <2>3. CASE k = l + 1
    <3>1. k # 1 /\ k - 1 = l /\ l \in Node /\ l # l + 1 BY <1>12, <2>3
    <3>2. g[k] = n /\ g[k - 1] = last BY <1>14, <1>16, <2>3, <3>1
    <3>3. last # Null BY <1>6, Places
    <3>4. QED BY <1>13, <3>1, <3>2, <3>3
  <2>4. CASE k = l + 2
    <3>1. k # 1 /\ k - 1 = l + 1 /\ k # l + 1 /\ ~(k <= l) BY <1>12, <2>4
    <3>2. g[k] = Null BY <1>8, <1>16, <3>1
    <3>3. next'[n] = Null BY <1>2, <1>5, <1>6, <1>13 DEF n
    <3>4. QED BY <1>5, <1>16, <3>1, <3>2, <3>3
  <2>5. CASE ~(k <= l + 2)
    <3>1. k # 1 /\ k - 1 \in Node /\ k - 1 # l + 1 /\ k # l + 1 /\ ~(k <= l) /\ ~(k - 1 <= l)
          BY <1>12, <2>0, <2>5
    <3>2. g[k] = Null /\ g[k - 1] = Null BY <1>8, <1>16, <3>1
    <3>3. QED BY <3>1, <3>2
  <2>6. k <= l \/ k = l + 1 \/ k = l + 2 \/ ~(k <= l + 2) BY <1>12, <2>0
  <2>7. QED BY <2>1, <2>2, <2>3, <2>4, <2>5, <2>6
<1>18. Chain' = g BY <1>13, <1>16, <1>17, NewChain
<1>19. Conns' = Append(Conns, conn[n])
  <2>1. Conns' = [i \in {i \in 1 .. MaxNode - 2 : g[i + 2] # Null} |-> conn[g[i + 2]]]
        BY <1>1, <1>18 DEF Conns
  <2>2. {i \in 1 .. MaxNode - 2 : g[i + 2] # Null} = 1 .. l - 1
    <3>1. ASSUME NEW i \in 1 .. MaxNode - 2 PROVE g[i + 2] # Null <=> i \in 1 .. l - 1
      <4>1. i + 2 \in Node /\ (i + 2 <= l + 1 <=> i \in 1 .. l - 1) BY <1>12
      <4>2. CASE i + 2 = l + 1 BY <1>5, <1>12, <1>16, <4>1, <4>2
      <4>3. CASE i + 2 # l + 1
        <5>1. g[i + 2] = c[i + 2] BY <1>16, <4>1, <4>3
        <5>2. i + 2 <= l <=> i + 2 <= l + 1 BY <1>12, <4>3
        <5>3. QED BY <1>8, <4>1, <5>1, <5>2
      <4>4. QED BY <4>2, <4>3
    <3>2. \A i \in 1 .. l - 1 : i \in 1 .. MaxNode - 2 BY <1>12, <1>15
    <3>3. QED BY <3>1, <3>2
  <2>3. Conns' = [i \in 1 .. l - 1 |-> conn[g[i + 2]]] BY <2>1, <2>2
  <2>4. l - 1 \in Nat /\ l - 1 = (l - 2) + 1 /\ l - 1 >= 1 BY <1>12
  <2>5. conn[n] \in Master BY <1>2, <1>3 DEF n
  <2>6. /\ Append(Conns, conn[n]) \in Seq(Master) /\ Len(Append(Conns, conn[n])) = l - 1
        /\ Append(Conns, conn[n])[l - 1] = conn[n]
        /\ \A i \in 1 .. l - 2 : Append(Conns, conn[n])[i] = Conns[i]
        BY <1>10, <2>4, <2>5, AppendProperties
  <2>7. ASSUME NEW i \in 1 .. l - 1 PROVE Conns'[i] = Append(Conns, conn[n])[i]
    <3>1. Conns'[i] = conn[g[i + 2]] BY <2>3
    <3>2. CASE i = l - 1
      <4>1. i + 2 = l + 1 BY <1>12, <3>2
      <4>2. QED BY <1>16, <2>6, <3>1, <3>2, <4>1
    <3>3. CASE i # l - 1
      <4>1. i \in 1 .. l - 2 /\ i + 2 # l + 1 /\ i + 2 \in Node BY <1>12, <3>3
      <4>2. g[i + 2] = c[i + 2] BY <1>16, <4>1
      <4>3. QED BY <1>10, <2>6, <3>1, <4>1, <4>2
    <3>4. QED BY <3>2, <3>3
  <2>8. Append(Conns, conn[n]) = [i \in 1 .. l - 1 |-> Append(Conns, conn[n])[i]]
    <3> DEFINE s == Append(Conns, conn[n])
    <3>1. s \in Seq(Master) /\ Len(s) = l - 1 BY <2>6
    <3> HIDE DEF s
    <3>2. s = [i \in 1 .. l - 1 |-> s[i]] BY <3>1
    <3>3. QED BY <3>2 DEF s
  <2>9. QED BY <2>3, <2>7, <2>8
<1>20. \A i \in DOMAIN Conns : Conns[i] # conn[n]
  <2>1. ASSUME NEW i \in 1 .. l - 2 PROVE Conns[i] # conn[n]
    <3>1. i + 2 \in 1 .. l BY <1>12
    <3>2. QED BY <1>2, <1>8, <1>10, <3>1 DEF n
  <2>2. QED BY <1>10, <2>1
<1>21. conn[n] \in Master BY <1>2, <1>3 DEF n
<1>22. QED BY <1>1, <1>19, <1>20, <1>21 DEF Table!Connect, n

(* What SubSeq and \o make of a sequence without its i-th element.         *)
LEMMA Without ==
    ASSUME NEW S, NEW s \in Seq(S), NEW i \in 1 .. Len(s)
    PROVE  /\ Table!RemoveAt(s, i) \in Seq(S) /\ Len(Table!RemoveAt(s, i)) = Len(s) - 1
           /\ \A j \in 1 .. Len(s) - 1 : Table!RemoveAt(s, i)[j] = IF j < i THEN s[j] ELSE s[j + 1]
<1> DEFINE n == Len(s)
           a == SubSeq(s, 1, i - 1)
           b == SubSeq(s, i + 1, n)
<1>1. n \in Nat /\ i \in Nat /\ 1 <= i /\ i <= n /\ \A j \in 1 .. n : s[j] \in S
      BY LenProperties, ElementOfSeq
<1>2. Table!RemoveAt(s, i) = a \o b BY DEF Table!RemoveAt
<1>3. a \in Seq(S) /\ Len(a) = i - 1 /\ \A j \in 1 .. i - 1 : a[j] = s[j]
  <2>1. \A j \in 1 .. i - 1 : s[j] \in S BY <1>1
  <2>2. 1 \in Int /\ i - 1 \in Int BY <1>1
  <2>3. /\ a \in Seq(S) /\ Len(a) = IF 1 <= i - 1 THEN (i - 1) - 1 + 1 ELSE 0
        /\ \A j \in 1 .. (i - 1) - 1 + 1 : a[j] = s[1 + j - 1]
        BY <2>1, <2>2, SubSeqProperties
  <2>4. (i - 1) - 1 + 1 = i - 1 /\ (1 <= i - 1 \/ i - 1 = 0)
        /\ \A j \in 1 .. i - 1 : 1 + j - 1 = j
        BY <1>1
  <2> HIDE DEF a
  <2>5. QED BY <2>3, <2>4
<1>4. b \in Seq(S) /\ Len(b) = n - i /\ \A j \in 1 .. n - i : b[j] = s[i + j]
  <2>1. \A j \in i + 1 .. n : s[j] \in S BY <1>1
  <2>2. i + 1 \in Int /\ n \in Int BY <1>1
  <2>3. /\ b \in Seq(S) /\ Len(b) = IF i + 1 <= n THEN n - (i + 1) + 1 ELSE 0
        /\ \A j \in 1 .. n - (i + 1) + 1 : b[j] = s[(i + 1) + j - 1]
        BY <2>1, <2>2, SubSeqProperties
  <2>4. n - (i + 1) + 1 = n - i /\ (i + 1 <= n \/ n - i = 0)
        /\ \A j \in 1 .. n - i : (i + 1) + j - 1 = i + j
        BY <1>1
  <2> HIDE DEF b, n
  <2>5. QED BY <2>3, <2>4
<1> HIDE DEF a, b, n
<1>5. /\ a \o b \in Seq(S) /\ Len(a \o b) = Len(a) + Len(b)
      /\ \A j \in 1 .. Len(a) + Len(b) : (a \o b)[j] = IF j <= Len(a) THEN a[j] ELSE b[j - Len(a)]
      BY <1>3, <1>4, ConcatProperties
<1>6. Len(a) + Len(b) = n - 1 BY <1>1, <1>3, <1>4
<1>7. ASSUME NEW j \in 1 .. n - 1 PROVE (a \o b)[j] = IF j < i THEN s[j] ELSE s[j + 1]
  <2>1. (a \o b)[j] = IF j <= i - 1 THEN a[j] ELSE b[j - (i - 1)] BY <1>3, <1>5, <1>6
  <2>2. CASE j < i
    <3>1. j \in 1 .. i - 1 /\ j <= i - 1 BY <1>1, <2>2
    <3>2. QED BY <1>3, <2>1, <2>2, <3>1
  <2>3. CASE ~(j < i)
    <3>1. ~(j <= i - 1) /\ j - (i - 1) \in 1 .. n - i /\ i + (j - (i - 1)) = j + 1 BY <1>1, <2>3
    <3>2. QED BY <1>4, <2>1, <2>3, <3>1
  <2>4. QED BY <2>2, <2>3
<1>8. QED BY <1>2, <1>5, <1>6, <1>7 DEF n

(* A node that is taken out is taken out of the table, and the others keep *)
(* their order.                                                            *)
LEMMA Leaves ==
    ASSUME Good, RvUnlink, TypeOK'
    PROVE  \E i \in DOMAIN Conns : Table!Leave(i)
<1> DEFINE p == prev[loop]
           m == next[loop]
           c == Chain
<1>1. /\ loop \in Linked /\ p \in Linked /\ next[p] = loop
      /\ next' = [next EXCEPT ![p] = m]
      BY RvUnlinkStep
<1>2. conn' = conn /\ gone' = gone /\ pc["recv"] \in {"cut", "join"} BY DEF RvUnlink, outside
<1>3. loop \notin Pipes /\ conn[loop] \in gone
  <2>1. loop \notin Pipes /\ loop \in closed BY <1>2 DEF Good, Shape, Pass, Removing
  <2>2. QED BY <2>1, EndedFirst
<1>4. PICK l \in 2 .. MaxNode : ReachesAt(l) BY ChainEnds
<1>5. /\ \A k \in Node : c[k] # Null <=> k <= l
      /\ \A k \in 1 .. l : c[k] \in Linked /\ k <= c[k]
      /\ \A j, k \in 1 .. l : j < k => c[j] < c[k]
      /\ c[1] = N2C /\ c[2] = I2C
      BY <1>4 DEF ReachesAt
<1>6. c \in [Node -> Maybe(Node)]
      /\ \A k \in Node : c[k] = IF k = 1 THEN N2C ELSE IF c[k - 1] = Null THEN Null ELSE next[c[k - 1]]
      BY GoodSizes, ChainIs DEF Walks, Node
<1>7. /\ Conns = [i \in 1 .. l - 2 |-> conn[c[i + 2]]]
      /\ Conns \in Seq(Master) /\ Len(Conns) = l - 2 /\ l - 2 \in Nat
      BY <1>4, TableIs
<1>8. PICK x \in 1 .. l : c[x] = loop BY <1>1, <1>4 DEF ReachesAt
<1>9. Node = 1 .. MaxNode /\ MaxNode \in Nat /\ l \in Nat /\ l >= 2 /\ l <= MaxNode /\ Null \notin Node
      BY GoodSizes DEF Sizes, Node
<1>10. p \in Node /\ p # Null /\ loop \in Node /\ loop # Null /\ m \in Maybe(Node) /\ p # loop
       /\ \A n \in Linked : n \in Node /\ n \in Nat /\ n # Null
  <2>1. p # loop BY <1>1, Between
  <2>2. p \in Linked /\ loop \in Linked BY <1>1
  <2>3. m \in Maybe(Node) BY <2>2, Places DEF Maybe
  <2>4. QED BY <2>1, <2>2, <2>3, Places
<1>11. next' \in [Node -> Maybe(Node)] /\ next'[p] = m
       /\ \A k \in Node \ {p} : next'[k] = next[k]
       BY <1>1, <1>10 DEF Good, TypeOK, Maybe
<1>12. \A k \in Linked : next[k] = Null \/ (next[k] \in Linked /\ next[k] > k) BY Places
<1>13. \A q \in Linked : next[q] = loop => q = p BY <1>1, Between
<1> DEFINE g == [k \in Node |-> IF k < x THEN c[k] ELSE IF k < MaxNode THEN c[k + 1] ELSE Null]
<1> HIDE DEF c, p, m, g
<1>14. x >= 3 /\ x \in Nat /\ x <= l /\ x \in Node
  <2>1. x # 1 /\ x # 2 BY <1>3, <1>5, <1>8 DEF Pipes
  <2>2. QED BY <1>9, <2>1
<1>15. x - 1 \in 1 .. l /\ c[x - 1] = p
  <2>1. x - 1 \in 1 .. l /\ x # 1 BY <1>9, <1>14
  <2>2. c[x - 1] \in Linked BY <1>5, <2>1
  <2>3. loop = next[c[x - 1]] BY <1>6, <1>8, <1>10, <1>14, <2>1, <2>2
  <2>4. QED BY <1>13, <2>1, <2>2, <2>3
<1>16. ASSUME NEW k \in 1 .. l, c[k] = p PROVE k = x - 1
  <2>1. CASE k < x - 1
    <3>1. c[k] < c[x - 1] BY <1>5, <1>15, <2>1
    <3>2. QED BY <1>1, <1>10, <1>15, <1>16, <3>1
  <2>2. CASE x - 1 < k
    <3>1. c[x - 1] < c[k] BY <1>5, <1>15, <2>2
    <3>2. QED BY <1>1, <1>10, <1>15, <1>16, <3>1
  <2>3. k \in Nat /\ x - 1 \in Nat BY <1>9, <1>14
  <2>4. QED BY <2>1, <2>2, <2>3
<1>17. \A k \in Node : k < MaxNode => k + 1 \in Node /\ (k + 1) - 1 = k /\ k + 1 # 1 BY <1>9
<1>18. g \in [Node -> Maybe(Node)]
       /\ \A k \in Node : g[k] = IF k < x THEN c[k] ELSE IF k < MaxNode THEN c[k + 1] ELSE Null
       BY <1>6, <1>17 DEF g, Maybe
(* The last place of the chain leads nowhere.                              *)
<1>19. c[MaxNode] # Null => next[c[MaxNode]] = Null
  <2>1. ASSUME c[MaxNode] # Null, next[c[MaxNode]] # Null PROVE FALSE
    <3>1. MaxNode \in Node /\ MaxNode \in 1 .. l BY <1>5, <1>9, <2>1
    <3>2. c[MaxNode] \in Linked /\ MaxNode <= c[MaxNode] BY <1>5, <3>1
    <3>3. next[c[MaxNode]] \in Linked /\ next[c[MaxNode]] > c[MaxNode] BY <1>12, <2>1, <3>2
    <3>4. next[c[MaxNode]] \in Nat /\ next[c[MaxNode]] <= MaxNode /\ c[MaxNode] \in Nat
          BY <1>9, <1>10, <3>2, <3>3
    <3>5. QED BY <1>9, <3>2, <3>3, <3>4
  <2>2. QED BY <2>1
<1>20. ASSUME NEW k \in Node, c[k] # p
       PROVE  IF k < MaxNode
              THEN c[k + 1] = IF c[k] = Null THEN Null ELSE next'[c[k]]
              ELSE c[k] # Null => next'[c[k]] = Null
  <2>1. c[k] # Null => next'[c[k]] = next[c[k]]
    <3>1. c[k] \in Maybe(Node) BY <1>6
    <3>2. QED BY <1>11, <1>20, <3>1 DEF Maybe
  <2>2. CASE k < MaxNode
    <3>1. k + 1 \in Node /\ (k + 1) - 1 = k /\ k + 1 # 1 BY <1>17, <2>2
    <3>2. c[k + 1] = IF c[k] = Null THEN Null ELSE next[c[k]] BY <1>6, <3>1
    <3>3. QED BY <2>1, <2>2, <3>2
  <2>3. CASE ~(k < MaxNode)
    <3>1. k = MaxNode BY <1>9, <2>3
    <3>2. QED BY <1>19, <2>1, <2>3, <3>1
  <2>4. QED BY <2>2, <2>3
<1>21. ASSUME NEW k \in Node
       PROVE  g[k] = IF k = 1 THEN N2C ELSE IF g[k - 1] = Null THEN Null ELSE next'[g[k - 1]]
  <2>0. k \in Nat /\ k >= 1 /\ 1 \in Node BY <1>9
  <2>1. CASE k = 1 BY <1>6, <1>14, <1>18, <2>0, <2>1
  <2>2. CASE k # 1 /\ k < x
    <3>1. k - 1 \in Node /\ k - 1 < MaxNode /\ (k - 1) + 1 = k /\ k - 1 < x /\ k - 1 # x - 1
          /\ k - 1 \in 1 .. l
          BY <1>9, <1>14, <2>0, <2>2
    <3>2. c[k - 1] # p BY <1>16, <3>1
    <3>3. c[k] = IF c[k - 1] = Null THEN Null ELSE next'[c[k - 1]] BY <1>20, <3>1, <3>2
    <3>4. g[k] = c[k] /\ g[k - 1] = c[k - 1] BY <1>18, <2>2, <3>1
    <3>5. QED BY <2>2, <3>3, <3>4
  <2>3. CASE k = x
    <3>1. k - 1 \in Node /\ k - 1 < x /\ k # 1 /\ ~(k < x) BY <1>9, <1>14, <2>0, <2>3
    <3>2. g[k - 1] = p BY <1>15, <1>18, <2>3, <3>1
    <3>3. g[k] = m
      <4>1. CASE x < MaxNode
        <5>1. x + 1 \in Node /\ (x + 1) - 1 = x /\ x + 1 # 1 BY <1>14, <1>17, <4>1
        <5>2. c[x + 1] = next[loop] BY <1>6, <1>8, <1>10, <5>1
        <5>3. QED BY <1>18, <2>3, <3>1, <4>1, <5>2 DEF m
      <4>2. CASE ~(x < MaxNode)
        <5>1. x = MaxNode BY <1>9, <1>14, <4>2
        <5>2. m = Null BY <1>8, <1>10, <1>19, <5>1 DEF m
        <5>3. QED BY <1>18, <2>3, <3>1, <4>2, <5>2
      <4>3. QED BY <4>1, <4>2
    <3>4. QED BY <1>10, <1>11, <3>1, <3>2, <3>3
  <2>4. CASE x < k
    <3>1. /\ k - 1 \in Node /\ ~(k - 1 < x) /\ k - 1 < MaxNode /\ (k - 1) + 1 = k
          /\ ~(k < x) /\ k # 1 /\ k # x - 1
          BY <1>9, <1>14, <2>0, <2>4
    <3>2. g[k - 1] = c[k] BY <1>18, <3>1
    <3>3. c[k] # p
      <4>1. ASSUME c[k] = p PROVE FALSE
        <5>1. k <= l BY <1>5, <1>10, <4>1
        <5>2. k \in 1 .. l BY <1>9, <2>0, <5>1
        <5>3. QED BY <1>16, <3>1, <4>1, <5>2
      <4>2. QED BY <4>1
    <3>4. IF k < MaxNode
          THEN c[k + 1] = IF c[k] = Null THEN Null ELSE next'[c[k]]
          ELSE c[k] # Null => next'[c[k]] = Null
          BY <1>20, <3>3
    <3>5. g[k] = IF k < MaxNode THEN c[k + 1] ELSE Null BY <1>18, <3>1
    <3>6. QED BY <3>1, <3>2, <3>4, <3>5
  <2>5. QED BY <1>14, <2>0, <2>1, <2>2, <2>3, <2>4
<1>22. Chain' = g BY <1>11, <1>18, <1>21, NewChain
<1> DEFINE y == x - 2
           r == Table!RemoveAt(Conns, y)
<1>23. y \in 1 .. l - 2 /\ y \in Nat /\ y + 2 = x /\ y \in DOMAIN Conns /\ Conns[y] \in gone
  <2>1. y \in 1 .. l - 2 /\ y \in Nat /\ y + 2 = x BY <1>9, <1>14
  <2>2. y \in DOMAIN Conns /\ Conns[y] = conn[c[y + 2]] BY <1>7, <2>1
  <2> HIDE DEF y
  <2>3. QED BY <1>3, <1>8, <2>1, <2>2
<1>24. r \in Seq(Master) /\ Len(r) = l - 3 /\ l - 3 \in Nat
       /\ \A j \in 1 .. l - 3 : r[j] = IF j < y THEN Conns[j] ELSE Conns[j + 1]
  <2>1. (l - 2) - 1 = l - 3 /\ l - 3 \in Nat BY <1>9, <1>14
  <2> HIDE DEF y
  <2>2. y \in 1 .. Len(Conns) BY <1>7, <1>23
  <2>3. /\ r \in Seq(Master) /\ Len(r) = Len(Conns) - 1
        /\ \A j \in 1 .. Len(Conns) - 1 : r[j] = IF j < y THEN Conns[j] ELSE Conns[j + 1]
        BY <1>7, <2>2, Without
  <2>4. QED BY <1>7, <2>1, <2>3
<1> HIDE DEF y, r
<1>25. Conns' = r
  <2>1. Conns' = [i \in {i \in 1 .. MaxNode - 2 : g[i + 2] # Null} |-> conn[g[i + 2]]]
        BY <1>2, <1>22 DEF Conns
  <2>2. ASSUME NEW i \in 1 .. MaxNode - 2 PROVE g[i + 2] # Null <=> i \in 1 .. l - 3
    <3>1. i + 2 \in Node /\ i \in Nat /\ i >= 1 BY <1>9
    <3>2. CASE i + 2 < x
      <4>1. i + 2 <= l /\ i \in 1 .. l - 3 BY <1>9, <1>14, <3>1, <3>2
      <4>2. QED BY <1>5, <1>18, <3>1, <3>2, <4>1
    <3>3. CASE ~(i + 2 < x) /\ i + 2 < MaxNode
      <4>1. i + 3 \in Node /\ (i + 2) + 1 = i + 3 /\ (i + 3 <= l <=> i \in 1 .. l - 3)
            BY <1>9, <3>1, <3>3
      <4>2. g[i + 2] = c[i + 3] BY <1>18, <3>1, <3>3, <4>1
      <4>3. QED BY <1>5, <4>1, <4>2
    <3>4. CASE ~(i + 2 < x) /\ ~(i + 2 < MaxNode)
      <4>1. i \notin 1 .. l - 3 BY <1>9, <3>1, <3>4
      <4>2. QED BY <1>18, <3>1, <3>4, <4>1
    <3>5. QED BY <3>2, <3>3, <3>4
  <2>3. \A i \in 1 .. l - 3 : i \in 1 .. MaxNode - 2 BY <1>9
  <2>4. {i \in 1 .. MaxNode - 2 : g[i + 2] # Null} = 1 .. l - 3 BY <2>2, <2>3
  <2>5. Conns' = [i \in 1 .. l - 3 |-> conn[g[i + 2]]] BY <2>1, <2>4
  <2>6. ASSUME NEW i \in 1 .. l - 3 PROVE conn[g[i + 2]] = r[i]
    <3>1. i + 2 \in Node /\ i + 2 < MaxNode /\ i \in 1 .. l - 2 /\ i + 1 \in 1 .. l - 2
          /\ (i + 2) + 1 = (i + 1) + 2 /\ (i + 2 < x <=> i < y)
          BY <1>9, <1>14, <1>23
    <3>2. CASE i < y
      <4>1. g[i + 2] = c[i + 2] BY <1>18, <3>1, <3>2
      <4>2. Conns[i] = conn[c[i + 2]] BY <1>7, <3>1
      <4>3. QED BY <1>24, <3>2, <4>1, <4>2
    <3>3. CASE ~(i < y)
      <4>1. g[i + 2] = c[(i + 1) + 2] BY <1>18, <3>1, <3>3
      <4>2. Conns[i + 1] = conn[c[(i + 1) + 2]] BY <1>7, <3>1
      <4>3. QED BY <1>24, <3>3, <4>1, <4>2
    <3>4. QED BY <3>2, <3>3
  <2>7. r = [i \in 1 .. l - 3 |-> r[i]] BY <1>24
  <2>8. QED BY <2>5, <2>6, <2>7
<1>26. Table!Leave(y) BY <1>2, <1>23, <1>25 DEF Table!Leave, r
<1>27. QED BY <1>23, <1>26

(* A step that leaves the next pointers and the linked nodes' connections  *)
(* alone leaves the table alone.                                           *)
LEMMA TableKept ==
    ASSUME Good, Step, \A t \in Thread : ~PushLink(t), ~RvUnlink
    PROVE  Conns' = Conns
<1>1. next' = next
  <2>1. ASSUME NEW t \in Thread, Push(t) PROVE next' = next
        BY <2>1 DEF Push, Search, Connect, PushBack, PushLast, list
  <2>2. CASE Service BY <2>1, <2>2 DEF Service, Thread, SvJoined, list
  <2>3. CASE Netmap BY <2>3 DEF Netmap, Search, NmMissed, NmBind, list
  <2>4. CASE Recv
        BY <2>1, <2>4 DEF Recv, Thread, RvScan, RvSelect, RvNext, RvWrite, RvPull, RvPulled,
                          RvFirst, RvClosed, RvFree, list
  <2>5. ASSUME NEW a \in App, SvInt(a) \/ SvRead(a) \/ NmPacket(a) PROVE next' = next
        BY <2>5 DEF SvInt, SvRead, NmPacket, list
  <2>6. ASSUME NEW m \in Master, Ends(m) PROVE next' = next BY <2>6 DEF Ends, list
  <2>7. QED BY <2>2, <2>3, <2>4, <2>5, <2>6 DEF Step
<1>2. \A n \in Linked : conn'[n] = conn[n]
  <2>1. ASSUME NEW t \in Thread, Push(t) PROVE \A n \in Linked : conn'[n] = conn[n]
    <3>1. CASE Connect(t)
      <4>1. CASE conn' = conn BY <4>1
      <4>2. CASE n_node' = n_node + 1 /\ conn' = [conn EXCEPT ![n_node'] = want[t]]
        <5>1. conn \in [Node -> Master \union {"pipe", Null}] BY DEF Good, TypeOK
        <5>2. n_node \in Nat BY ConnAssumption DEF Good, TypeOK, Node
        <5>3. \A n \in Linked : n \in Node /\ n <= n_node /\ n # n_node + 1
              BY <5>2, Places DEF Linked
        <5>4. QED BY <4>2, <5>1, <5>3
      <4>3. QED BY <3>1, <4>1, <4>2 DEF Connect
    <3>2. CASE ~Connect(t) BY <2>1, <3>2 DEF Push, Search, PushLink, PushBack, PushLast, list
    <3>3. QED BY <3>1, <3>2
  <2>2. CASE Service BY <2>1, <2>2 DEF Service, Thread, SvJoined, list
  <2>3. CASE Netmap BY <2>3 DEF Netmap, Search, NmMissed, NmBind, list
  <2>4. CASE Recv
        BY <2>1, <2>4 DEF Recv, Thread, RvScan, RvSelect, RvNext, RvWrite, RvPull, RvPulled,
                          RvFirst, RvClosed, RvFree, list
  <2>5. ASSUME NEW a \in App, SvInt(a) \/ SvRead(a) \/ NmPacket(a)
        PROVE  \A n \in Linked : conn'[n] = conn[n]
        BY <2>5 DEF SvInt, SvRead, NmPacket, list
  <2>6. ASSUME NEW m \in Master, Ends(m) PROVE \A n \in Linked : conn'[n] = conn[n]
        BY <2>6 DEF Ends, list
  <2>7. QED BY <2>2, <2>3, <2>4, <2>5, <2>6 DEF Step
<1>3. QED BY <1>1, <1>2, SameTable

(* Agents end of themselves only.                                          *)
LEMMA WhoEnds ==
    ASSUME Step
    PROVE  gone' = gone \/ \E m \in Master : gone' = gone \union {m}
<1>1. ASSUME NEW t \in Thread, Push(t) PROVE gone' = gone
      BY <1>1 DEF Push, Search, Connect, PushLink, PushBack, PushLast, outside
<1>2. CASE Service BY <1>1, <1>2 DEF Service, Thread, SvJoined, outside
<1>3. CASE Netmap BY <1>3 DEF Netmap, Search, NmMissed, NmBind, outside
<1>4. CASE Recv
      BY <1>1, <1>4 DEF Recv, Thread, RvScan, RvSelect, RvNext, RvWrite, RvPull, RvPulled,
                        RvFirst, RvClosed, RvUnlink, RvFree, outside
<1>5. ASSUME NEW a \in App, SvInt(a) \/ SvRead(a) \/ NmPacket(a) PROVE gone' = gone
      BY <1>5 DEF SvInt, SvRead, NmPacket, outside
<1>6. ASSUME NEW m \in Master, Ends(m) PROVE \E x \in Master : gone' = gone \union {x}
      BY <1>6 DEF Ends
<1>7. QED BY <1>2, <1>3, <1>4, <1>5, <1>6 DEF Step

(* Every step is one of the table's.                                       *)
LEMMA StepWorks ==
    ASSUME Good, Step, TypeOK'
    PROVE  Table!Works
<1>1. ASSUME NEW t \in Thread, PushLink(t) PROVE Table!Works
      BY <1>1, Connects DEF Table!Works
<1>2. CASE RvUnlink BY <1>2, Leaves DEF Table!Works
<1>3. CASE ~RvUnlink /\ \A t \in Thread : ~PushLink(t)
  <2>1. Conns' = Conns BY <1>3, TableKept
  <2>2. QED BY <2>1, WhoEnds DEF Table!Works, Table!Ends
<1>4. QED BY <1>1, <1>2, <1>3

LEMMA EmptyTable == Init => Table!TInit
<1> SUFFICES ASSUME Init PROVE Table!TInit OBVIOUS
<1> DEFINE c == Chain
<1>1. gone = {} /\ clash = FALSE /\ n_node = 2 /\ Good
      BY InitInv, InvIsGood DEF Init
<1>2. \A k \in Node : c[k] = Null \/ (c[k] \in Linked /\ k <= c[k])
      BY <1>1, GoodSizes, GoodOrder, Climbs
<1>3. Node = 1 .. MaxNode /\ MaxNode \in Nat /\ MaxNode >= 2
      BY <1>1, GoodSizes DEF Sizes, Node
<1>4. \A n \in Linked : n \in Nat /\ n <= 2 BY <1>1, Places DEF Linked
<1>5. Conns = [i \in {i \in 1 .. MaxNode - 2 : c[i + 2] # Null} |-> conn[c[i + 2]]] BY DEF Conns
<1> HIDE DEF c
<1>6. \A i \in 1 .. MaxNode - 2 : c[i + 2] = Null
  <2>1. ASSUME NEW i \in 1 .. MaxNode - 2, c[i + 2] # Null PROVE FALSE
    <3>1. i + 2 \in Node /\ i \in Nat /\ i >= 1 BY <1>3
    <3>2. c[i + 2] \in Linked /\ i + 2 <= c[i + 2] BY <1>2, <2>1, <3>1
    <3>3. QED BY <1>4, <3>1, <3>2
  <2>2. QED BY <2>1
<1>7. {i \in 1 .. MaxNode - 2 : c[i + 2] # Null} = {} BY <1>6
<1>8. Conns = [i \in {} |-> conn[c[i + 2]]] BY <1>5, <1>7
<1>9. Conns = <<>> BY <1>8
<1>10. QED BY <1>1, <1>9 DEF Table!TInit

(* TableImplemented: store by store, what three threads do to the pointers *)
(* of rsockList amounts to ConnTable's steps: a connection is added at the *)
(* end for a master that has none, one is taken out only when its agent    *)
(* has ended and the others keep their order, and no other store shows.    *)
THEOREM TableImplemented == Spec => TableSpec
<1>1. CInv /\ CInv' /\ [Next]_vars => [Table!TNext]_(Table!tvars)
  <2> SUFFICES ASSUME CInv, CInv', [Next]_vars PROVE [Table!TNext]_(Table!tvars) OBVIOUS
  <2>1. CASE Step /\ Mark
    <3>1. Good /\ ~clash BY <2>1, InvIsGood DEF Mark
    <3>2. TypeOK' /\ clash' \in BOOLEAN BY DEF CInv, TypeOK
    <3>3. Table!Works BY <2>1, <3>1, <3>2, StepWorks
    <3>4. QED BY <3>1, <3>2, <3>3 DEF Table!TNext
  <2>2. CASE UNCHANGED vars
    <3>1. next' = next /\ conn' = conn /\ gone' = gone /\ clash' = clash
          BY <2>2 DEF vars, list, outside
    <3>2. Chain' = Chain BY <3>1 DEF Chain
    <3>3. Conns' = Conns BY <3>1, <3>2 DEF Conns
    <3>4. QED BY <3>1, <3>3 DEF Table!tvars
  <2>3. QED BY <2>1, <2>2 DEF Next
<1>2. QED BY <1>1, EmptyTable, ConnsInvariant, PTL DEF Spec, TableSpec, Table!TSpec
====
