----------------------------- MODULE PathLease -----------------------------
(***************************************************************************)
(* What the agents promise the network about the multicast path: one       *)
(* broadcast holds it at a time, only its holder puts packets on the wire, *)
(* and it is given back when the wire is empty.  PathService implements    *)
(* this.                                                                   *)
(***************************************************************************)
CONSTANTS Bcd, None       \* the broadcasts, and no broadcast

VARIABLES holder,         \* the broadcast that holds the path
          wire            \* the broadcast whose packets are being sent

lvars == <<holder, wire>>

LInit == holder = None /\ wire = None

Acquire(b) == holder = None /\ wire = None /\ holder' = b /\ wire' = wire
Send == holder # None /\ wire' = holder /\ holder' = holder
Drain == wire # None /\ wire' = None /\ holder' = holder
Release == holder # None /\ wire = None /\ holder' = None /\ wire' = wire

LNext == (\E b \in Bcd : Acquire(b)) \/ Send \/ Drain \/ Release

LSpec == LInit /\ [][LNext]_lvars
=============================================================================
