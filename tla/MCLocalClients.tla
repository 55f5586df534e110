--------------------------- MODULE MCLocalClients ---------------------------
(* Instances of LocalClients: one application with its master and three    *)
(* executors, and two applications with an executor each.                  *)
EXTENDS LocalClients, TLC

CONSTANTS a1, a2, m1, e1, e2, e3

OneApp == [u \in {m1, e1, e2, e3} |-> a1]
TwoApps == (e1 :> a1) @@ (e2 :> a2) @@ (e3 :> a1)
=============================================================================
