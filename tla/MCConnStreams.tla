--------------------------- MODULE MCConnStreams ---------------------------
(* ConnStreams on small instances. *)
EXTENDS ConnStreams
=============================================================================
