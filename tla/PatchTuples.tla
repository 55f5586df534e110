---------------------------- MODULE PatchTuples ----------------------------
(***************************************************************************)
(* What the sending agent makes of a MSG_PATCH_REQ: thread_send.c turns    *)
(* the requested tuple [stt, end) into at most two elements of             *)
(* ringPatchTuple, and processPatchTuple (hero.c) sends the packets of the *)
(* elements in order, oldest element first.  Pure operators, shared by the *)
(* modules of the receiving and of the sending side.                       *)
(***************************************************************************)
EXTENDS Integers, Sequences

CONSTANT SEQNUM_MAX       \* larger than every sequence number (global.h)

(* The end a receiver writes when it does not know seq_max.                *)
SEQ2WARDTHEEND == SEQNUM_MAX

(* [from, to) as the sequence of packets one ring element stands for.      *)
Interval(from, to) == [i \in 1 .. (IF to > from THEN to - from ELSE 0) |-> from + i - 1]

(* A plausible slip: the two halves of a wrapping request swapped.         *)
ElementsTailFirst(stt, end, seqEnd, seq_max) ==
    LET s == stt % seq_max
        e == IF end = SEQ2WARDTHEEND THEN seqEnd % seq_max ELSE end
    IN  CASE s < e -> <<<<s, e>>>>
          [] s > e -> <<<<s, seq_max>>, <<0, e>>>>
          [] OTHER -> <<>>

(* The ring elements a request becomes: none when both ends agree, one     *)
(* when it does not wrap, and [0, end) BEFORE [stt, seq_max) when it does. *)
(* seqEnd is the position at which the requesting receiver has seen a      *)
(* whole round (SenderState.seqEnd).                                       *)
Elements(stt, end, seqEnd, seq_max) ==
    LET s == stt % seq_max
        e == IF end = SEQ2WARDTHEEND THEN seqEnd % seq_max ELSE end
    IN  CASE s < e -> <<<<s, e>>>>
          [] s > e -> <<<<0, e>>, <<s, seq_max>>>>
          [] OTHER -> <<>>

(* The packets sent for a request, in the order they are sent.             *)
PatchSeqs(stt, end, seqEnd, seq_max) ==
    LET el == Elements(stt, end, seqEnd, seq_max)
    IN  CASE Len(el) = 0 -> <<>>
          [] Len(el) = 1 -> Interval(el[1][1], el[1][2])
          [] OTHER -> Interval(el[1][1], el[1][2]) \o Interval(el[2][1], el[2][2])
=============================================================================
