--------------------------- MODULE MCRecvHistory ---------------------------
(* RecvHistory on small instances. *)
EXTENDS RecvHistory
=============================================================================
