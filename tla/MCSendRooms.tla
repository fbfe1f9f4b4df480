----------------------------- MODULE MCSendRooms -----------------------------
(***************************************************************************)
(* SendStream under two kinds of conditions, chosen once: "tight", the     *)
(* constants of the configuration (rooms that split fragments, credit that *)
(* runs out), and "roomy" (every fragment fits whole, credit suffices).    *)
(***************************************************************************)
EXTENDS MCSendStream

VARIABLE conditions

Roomy == INSTANCE SendStream WITH
  MaxPackets <- 4, Codes <- {1}, InitialLimit <- 4, ConnLimit <- 5, NewLimits <- {},
  OtherUse <- {}, Rooms <- {20, 24}

RoomsInit ==
  \/ conditions = "tight" /\ Init
  \/ conditions = "roomy" /\ Roomy!Init

RoomsNext ==
  /\ UNCHANGED conditions
  /\ \/ conditions = "tight" /\ Next
     \/ conditions = "roomy" /\ Roomy!Next

RoomsSpec == RoomsInit /\ [][RoomsNext]_<<vars, conditions>>
-----------------------------------------------------------------------------
(* Where every fragment fits whole: unless the stream is reset, a byte and *)
(* the FIN that Retransmiter took over stay with it until a packet that    *)
(* carries them is acknowledged, whatever is lost or acknowledged late.    *)
RoomyNoDataForgotten == conditions = "roomy" => NoDataForgotten

(* Where credit suffices: send_impl sends FIN only with the last byte the  *)
(* user wrote.                                                             *)
RoomyFinCoversData == conditions = "roomy" => FinCoversData
=============================================================================
