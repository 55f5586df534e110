--------------------------- MODULE PatchDelivery ---------------------------
(***************************************************************************)
(* What a receiver may expect of its TCP connection to the sending agent:  *)
(* the packets it asked for arrive in the order it asked for them, each    *)
(* once, and every notice arrives once, as long as it stays connected.     *)
(* SendSocket implements this.                                             *)
(***************************************************************************)
EXTENDS Naturals, Sequences

CONSTANTS Sock,           \* the connected receivers
          Notice,         \* the messages without data
          Answers         \* what a request may be answered with

VARIABLE link             \* of each connection: the packets asked for and
                          \* the notices of each kind, not yet delivered

NoNotice == [k \in Notice |-> 0]
DInit == link = [s \in Sock |-> [owed |-> <<>>, notices |-> NoNotice]]

(* What may happen to a connection.                                        *)
Ask(c) == {[c EXCEPT !.owed = @ \o seqs] : seqs \in Answers}
Tell(c) == {[c EXCEPT !.notices[k] = @ + 1] : k \in Notice}
DeliverPatch(c) == IF c.owed = <<>> THEN {} ELSE {[c EXCEPT !.owed = Tail(@)]}
DeliverNotice(c) == {[c EXCEPT !.notices[k] = @ - 1] : k \in {j \in Notice : c.notices[j] > 0}}
Leave(c) == {[owed |-> <<>>, notices |-> NoNotice]}

DNext == \E s \in Sock :
    LET old == link[s]  new == link'[s]
    IN  /\ new # old
        /\ new \in Ask(old) \union Tell(old) \union DeliverPatch(old)
                     \union DeliverNotice(old) \union Leave(old)
        /\ \A t \in Sock \ {s} : link'[t] = link[t]

DSpec == DInit /\ [][DNext]_link
=============================================================================
