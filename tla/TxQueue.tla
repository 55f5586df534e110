------------------------------ MODULE TxQueue ------------------------------
(***************************************************************************)
(* What the netmap thread promises about the way to the NIC: packets leave *)
(* in the order in which they were put there, those of the host in the     *)
(* order of its stack, those of a multicast as one cyclic stream; and the  *)
(* multicast is over only when all of it has left.  NetmapPort implements  *)
(* this.                                                                   *)
(***************************************************************************)
EXTENDS Naturals, Sequences

CONSTANTS Streams,          \* multicasts, as sequences of packets
          HostPackets

VARIABLES queue,            \* packets in the NIC
          pending,          \* packets of the host
          stream, next,     \* the multicast, and the packet that is next
          alive             \* is it being sent?

qvars == <<queue, pending, stream, next, alive>>

QInit == /\ queue = <<>> /\ pending = <<>>
         /\ stream \in Streams /\ next = 1 /\ alive = FALSE

Begin == /\ ~alive /\ alive' = TRUE
         /\ stream' \in Streams /\ next' = 1
         /\ UNCHANGED <<queue, pending>>

Multicast == /\ alive
             /\ queue' = Append(queue, stream[next])
             /\ next' = IF next = Len(stream) THEN 1 ELSE next + 1
             /\ UNCHANGED <<pending, stream, alive>>

HostSends == /\ \E p \in HostPackets : pending' = Append(pending, p)
             /\ UNCHANGED <<queue, stream, next, alive>>

Forward == /\ \E m \in 1 .. Len(pending) :
                /\ queue' = queue \o SubSeq(pending, 1, m)
                /\ pending' = SubSeq(pending, m + 1, Len(pending))
           /\ UNCHANGED <<stream, next, alive>>

Transmit == /\ \E d \in 1 .. Len(queue) : queue' = SubSeq(queue, d + 1, Len(queue))
            /\ UNCHANGED <<pending, stream, next, alive>>

End == /\ alive /\ alive' = FALSE
       /\ \A i \in 1 .. Len(queue) : queue[i] \in HostPackets
       /\ UNCHANGED <<queue, pending, stream, next>>

QNext == Begin \/ Multicast \/ HostSends \/ Forward \/ Transmit \/ End

QSpec == QInit /\ [][QNext]_qvars
=============================================================================
