---------------------------- MODULE MCSendStream ----------------------------
(* SendStream on small instances. *)
EXTENDS SendStream

(* varint::border(1), border(2) and border(4) *)
MCBorders == <<64, 16384, 1073741824>>
=============================================================================
