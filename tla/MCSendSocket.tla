--------------------------- MODULE MCSendSocket ---------------------------
(* Small instances of SendSocket: what the requests may become, how many   *)
(* pulls and notices there are.                                            *)
EXTENDS SendSocket, TLC

\* Requests that wrap: with packets from both ends of the data, and to
\* position 0 with more packets than half the queue takes.
Wrapped == (1 :> {<<<<0, 1>>, <<5, 6>>>>}) @@ (2 :> {<<<<0, 0>>, <<2, 5>>>>})
\* Enough pulls and notices to fill the queue of the second and to leave one
\* of its notices before the first one's in ringCmd.
Pulls == <<0, 1>>
Tells == <<1, 2>>
NoPull == <<0>>
OneTell == <<1>>
Packets3 == 1 :> {<<<<0, 3>>>>, <<<<0, 1>>, <<2, 3>>>>}
=============================================================================
