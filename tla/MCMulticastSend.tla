-------------------------- MODULE MCMulticastSend --------------------------
(* A small instance of MulticastSend: data of one, two and three packets.  *)
EXTENDS MulticastSend

SizesSmall == 1 .. 3
=============================================================================
