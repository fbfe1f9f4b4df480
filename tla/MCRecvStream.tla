---------------------------- MODULE MCRecvStream ----------------------------
(* RecvStream on small instances. *)
EXTENDS RecvStream

(* varint::border(1), border(2) and border(4) *)
MCBorders == <<64, 16384, 1073741824>>

Frame(o, n, fin) == [type |-> "STREAM", offset |-> o, len |-> n, fin |-> fin]

(* A peer that always retransmits the frames it sent first; one of them    *)
(* filled its room with its overhead alone and carries nothing.            *)
SameFrames == {Frame(0, 1, FALSE), Frame(1, 0, FALSE), Frame(1, 2, FALSE), Frame(3, 1, TRUE)}

(* An empty frame, then the data at the same position. *)
EmptyFrames == {Frame(0, 0, FALSE), Frame(0, 2, TRUE)}

(* FIN in a frame of its own. *)
FinFrames == {Frame(0, 2, FALSE), Frame(2, 1, FALSE), Frame(3, 1, FALSE), Frame(4, 0, TRUE)}

(* A peer that sends the rest of a frame in pieces when it retransmits. *)
SplitFrames == {Frame(0, 1, FALSE), Frame(1, 3, TRUE), Frame(1, 1, FALSE), Frame(2, 1, FALSE),
                Frame(3, 1, TRUE)}
=============================================================================
