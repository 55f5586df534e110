--------------------------- MODULE MCRecverState ---------------------------
(* Small instances of RecverState: the data sizes of the runs.             *)
EXTENDS RecverState

SizesAll   == {1, 4, 7, 9}     \* 1, 2, 4 and 5 packets, full and short last
SizesFour  == {8}              \* 4 packets
=============================================================================
