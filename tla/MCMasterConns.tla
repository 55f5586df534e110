--------------------------- MODULE MCMasterConns ---------------------------
(* Two applications with a master each.                                    *)
EXTENDS MasterConns, TLC
CONSTANTS a1, a2, m1, m2
TwoMasters == a1 :> m1 @@ a2 :> m2
=============================================================================
