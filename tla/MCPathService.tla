--------------------------- MODULE MCPathService ---------------------------
(* Small instances of PathService; its configurations give the constants. *)
EXTENDS PathService
=============================================================================
