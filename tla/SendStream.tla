----------------------------- MODULE SendStream -----------------------------
(***************************************************************************)
(* The sending half of a QUIC stream: SendUniStream (stream/impl/stream.h) *)
(* with its state machine (core/base.h), its data and send_impl            *)
(* (core/stream_base.h), the Retransmiter that keeps every sent fragment   *)
(* until its packet is acknowledged (resend/fragments.h), and the          *)
(* connection's send credit (core/conn_base.h).                            *)
(*                                                                         *)
(* Every public method runs under the stream's lock.  The loops of send()  *)
(* and detect_ack_lost() visit one fragment per step; "sending" holds the  *)
(* running call and, being the lock, keeps every other method out.         *)
(*                                                                         *)
(* The user's k-th byte is the number k, so a fragment at offset o that is *)
(* faithful to the user's data reads o+1, o+2, ...                         *)
(***************************************************************************)
EXTENDS Integers, Sequences, Limiter, StreamFrame

CONSTANTS
  Id,             \* the stream's id on the wire
  MaxData,        \* bound: bytes the user writes
  MaxPackets,     \* bound: packets that carry something of this stream
  Codes,          \* application error codes
  InitialLimit,   \* the peer's initial limit for this stream
  ConnLimit,      \* the peer's initial limit for the connection
  NewLimits,      \* values MAX_STREAM_DATA and MAX_DATA carry
  OtherUse,       \* amounts other streams take from the connection credit
  FairnessLimit,  \* fairness_limit() of the send buffer
  Rooms           \* room left for this stream when a packet is built

ASSUME SendAssumption ==
  /\ Id \in Nat
  /\ MaxData \in Nat /\ MaxPackets \in Nat
  /\ Codes \subseteq Nat
  /\ InitialLimit \in 0..(Border8 - 1) /\ ConnLimit \in 0..(Border8 - 1)
  /\ NewLimits \subseteq 0..(Border8 - 1)
  /\ OtherUse \subseteq Nat
  /\ FairnessLimit \in Nat
  /\ Rooms \subseteq Nat

VARIABLES
  state, flow, error_code, reset_flags,           \* SendUniStreamState
  src, discarded, written, fin, fin_written,      \* StreamWriteData
  frags,          \* Retransmiter: fragments in flight, oldest first
  reset_wait,     \* packet of the last RESET_STREAM, 0 for no record
  conn,           \* ConnFlowLimit.send
  other,          \* connection credit taken by other streams
  applied,        \* the peer's transport parameters have been applied
  pkts,           \* packets sent: ACKLostRecord state and frames of this stream
  sending         \* the call holding the lock

stateVars == <<state, flow, error_code, reset_flags>>
dataVars  == <<src, discarded, written, fin, fin_written>>
connVars  == <<conn, other, applied>>
vars == <<stateVars, dataVars, frags, reset_wait, connVars, pkts, sending>>

SendState == {"ready", "send", "data_sent", "data_recved", "reset_sent", "reset_recved"}
ResetFlag == {"by_peer", "by_local", "sent"}
Frag == [offset : Nat, data : Seq(Nat), fin : BOOLEAN, wait : Nat]
StreamFrameType == [type : {"STREAM"}, offset : Nat, data : Seq(Nat), fin : BOOLEAN]
ResetFrameType == [type : {"RESET_STREAM"}, final_size : Nat, code : Nat]
FrameType == StreamFrameType \cup ResetFrameType
Packet == [rec : {"wait", "ack", "lost"}, frames : Seq(FrameType)]
Sending == [pc : {"idle", "detect", "retransmit", "new"}, room : Nat, i : Nat,
            frames : Seq(FrameType), tmp : Seq(Frag), observed : BOOLEAN]

Idle == [pc |-> "idle", room |-> 0, i |-> 0, frames |-> <<>>, tmp |-> <<>>, observed |-> FALSE]
Begin(pc, room) == [Idle EXCEPT !.pc = pc, !.room = room, !.i = 1]
-----------------------------------------------------------------------------
(* SendUniStreamState *)
can_send == state \in {"ready", "send"}
can_retransmit == state \in {"send", "data_sent"}
is_terminal_state == state \in {"data_recved", "reset_recved"}
can_reset == state \in {"ready", "send", "data_sent"}
is_reset_required == "sent" \notin reset_flags /\ reset_flags # {}

(* StreamWriteData *)
total == Len(src) + discarded
remain == total - written
should_fin == fin /\ ~fin_written
(* Mutants of get_remain: forgets what was discarded; drops the last byte. *)
get_remain_undiscarded(limit) == SubSeq(src, written + 1, Min({written + limit, Len(src)}))
get_remain_short(limit) == SubSeq(src, written - discarded + 1,
                                  Min({written - discarded + limit, Len(src) - 1}))
get_remain(limit) == SubSeq(src, written - discarded + 1,
                            Min({written - discarded + limit, Len(src)}))
update_ok(new_discard, new_size) ==
  /\ IF fin THEN total = new_size + new_discard ELSE total <= new_size + new_discard
  /\ new_discard <= written

(* list::erase of the i-th node. *)
erase(s, i) == SubSeq(s, 1, i - 1) \o SubSeq(s, i + 1, Len(s))

(* The record of packet p: the packet being built is not in pkts yet. *)
Current == Len(pkts) + 1
Rec(p) == IF p \in DOMAIN pkts THEN pkts[p].rec ELSE "wait"

NextBytes(n) == [k \in 1..n |-> total + k]

Init ==
  /\ state = "ready" /\ error_code = 0 /\ reset_flags = {}
  /\ flow = NewLimiter /\ conn = NewLimiter /\ other = 0 /\ applied = FALSE
  /\ src = <<>> /\ discarded = 0 /\ written = 0 /\ fin = FALSE /\ fin_written = FALSE
  /\ frags = <<>> /\ reset_wait = 0
  /\ pkts = <<>> /\ sending = Idle
-----------------------------------------------------------------------------
(* The user's calls *)

(* write_ex: append n bytes, and drop the bytes already sent if asked to. *)
write_ex(n, is_fin, discard) ==
  /\ sending.pc = "idle"
  /\ ~fin
  /\ total + n <= MaxData
  /\ LET kept == IF discard THEN SubSeq(src, written - discarded + 1, Len(src)) ELSE src
         at   == IF discard THEN written ELSE discarded
     IN  /\ update_ok(at, Len(kept) + n)
         /\ src' = kept \o NextBytes(n)
         /\ discarded' = at
  /\ fin' = is_fin
  /\ UNCHANGED <<stateVars, written, fin_written, frags, reset_wait, connVars, pkts, sending>>

(* discard_written_data, and write_ex with discard_written after FIN. *)
discard_written_data ==
  /\ sending.pc = "idle"
  /\ written # discarded
  /\ update_ok(written, Len(src) - (written - discarded))
  /\ src' = SubSeq(src, written - discarded + 1, Len(src))
  /\ discarded' = written
  /\ UNCHANGED <<stateVars, written, fin, fin_written, frags, reset_wait, connVars, pkts, sending>>

(* request_reset by the user, or STOP_SENDING from the peer. *)
set_error_code(code, flag) ==
  /\ sending.pc = "idle"
  /\ can_reset
  /\ error_code' = code
  /\ reset_flags' = reset_flags \cup {flag}
  /\ UNCHANGED <<state, flow, dataVars, frags, reset_wait, connVars, pkts, sending>>

request_reset(code) == set_error_code(code, "by_local")
recv_stop_sending(code) == applied /\ set_error_code(code, "by_peer")
-----------------------------------------------------------------------------
(* Credit *)

(* The peer's transport parameters arrive, before any of its frames. *)
apply_peer_initial_limits ==
  /\ sending.pc = "idle"
  /\ ~applied /\ applied' = TRUE
  /\ flow' = set_limit(flow, InitialLimit)
  /\ conn' = set_limit(conn, ConnLimit)
  /\ UNCHANGED <<state, error_code, reset_flags, dataVars, frags, reset_wait, other, pkts, sending>>

recv_max_stream_data(l) ==
  /\ sending.pc = "idle" /\ applied
  /\ update_limit_ok(flow, l)
  /\ flow' = update_limit(flow, l)
  /\ UNCHANGED <<state, error_code, reset_flags, dataVars, frags, reset_wait, connVars, pkts, sending>>

recv_max_data(l) ==
  /\ sending.pc = "idle" /\ applied
  /\ update_limit_ok(conn, l)
  /\ conn' = update_limit(conn, l)
  /\ UNCHANGED <<stateVars, dataVars, frags, reset_wait, other, applied, pkts, sending>>

(* use_send_credit called by another stream of the connection. *)
use_send_credit(n) ==
  /\ sending.pc = "idle"
  /\ use_ok(conn, n)
  /\ conn' = use(conn, n)
  /\ other' = other + n
  /\ UNCHANGED <<stateVars, dataVars, frags, reset_wait, applied, pkts, sending>>
-----------------------------------------------------------------------------
(* send(): reset first, then retransmission, then new data *)

(* The call returns: a packet exists once something waits for its record. *)
Return(s) ==
  /\ pkts' = IF s.observed THEN Append(pkts, [rec |-> "wait", frames |-> s.frames]) ELSE pkts
  /\ sending' = Idle

Calling ==
  /\ sending.pc = "idle" /\ applied
  /\ Len(pkts) < MaxPackets
  /\ ~is_terminal_state

reset_len == 1 + varint_len(Id) + varint_len(error_code) + varint_len(flow.used)
(* Mutant of ResetFrame: the final size is what was written, not what was sent. *)
ResetFrame_total == [type |-> "RESET_STREAM", final_size |-> total, code |-> error_code]
ResetFrame == [type |-> "RESET_STREAM", final_size |-> flow.used, code |-> error_code]

(* send_reset_unlocked: the first RESET_STREAM. *)
send_reset(room) ==
  /\ Calling
  /\ reset_wait = 0 /\ is_reset_required
  /\ room >= reset_len
  /\ can_reset
  /\ state' = "reset_sent"
  /\ reset_flags' = reset_flags \cup {"sent"}
  /\ reset_wait' = Current
  /\ Return([Idle EXCEPT !.frames = <<ResetFrame>>, !.observed = TRUE])
  /\ UNCHANGED <<flow, error_code, dataVars, frags, connVars>>

(* send_reset_unlocked: the RESET_STREAM was lost. *)
send_retransmit_reset(room) ==
  /\ Calling
  /\ reset_wait # 0 /\ Rec(reset_wait) = "lost"
  /\ state = "reset_sent"
  /\ room >= reset_len
  /\ reset_wait' = Current
  /\ Return([Idle EXCEPT !.frames = <<ResetFrame>>, !.observed = TRUE])
  /\ UNCHANGED <<stateVars, dataVars, frags, connVars>>

(* send_reset_unlocked: the RESET_STREAM was acknowledged. *)
reset_done ==
  /\ Calling
  /\ reset_wait # 0 /\ Rec(reset_wait) = "ack"
  /\ state = "reset_sent"
  /\ state' = "reset_recved"
  /\ reset_wait' = 0
  /\ UNCHANGED <<flow, error_code, reset_flags, dataVars, frags, connVars, pkts, sending>>

(* No reset is due: send_stream_unlocked starts. *)
send_stream_begin(room) ==
  /\ Calling
  /\ reset_wait = 0 /\ ~is_reset_required
  /\ sending' = Begin(IF can_retransmit THEN "retransmit" ELSE "new", room)
  /\ UNCHANGED <<stateVars, dataVars, frags, reset_wait, connVars, pkts>>
-----------------------------------------------------------------------------
(* Retransmiter::retransmit, one fragment per step *)

Visiting == sending.pc = "retransmit" /\ sending.i <= Len(frags)

retransmit_acked ==
  /\ Visiting /\ Rec(frags[sending.i].wait) = "ack"
  /\ frags' = erase(frags, sending.i)
  /\ UNCHANGED <<stateVars, dataVars, reset_wait, connVars, pkts, sending>>

retransmit_waiting ==
  /\ Visiting /\ Rec(frags[sending.i].wait) = "wait"
  /\ sending' = [sending EXCEPT !.i = sending.i + 1]
  /\ UNCHANGED <<stateVars, dataVars, frags, reset_wait, connVars, pkts>>

(* The fragment send_retransmit_stream refuses as invalid_data. *)
invalid_data(f) ==
  \/ f.offset + Len(f.data) > written
  \/ f.fin /\ (~fin_written \/ f.offset + Len(f.data) # written)

RetransmitFit(f) == make_fit_size_Stream(sending.room, Id, f.offset, Len(f.data), f.fin, f.fin)

(* No room for the fragment: it stays and waits for the record of the      *)
(* packet being built, which does not carry it (fragments.h:99-102).       *)
retransmit_no_capacity ==
  /\ Visiting /\ Rec(frags[sending.i].wait) = "lost"
  /\ ~invalid_data(frags[sending.i])
  /\ ~RetransmitFit(frags[sending.i]).ok
  /\ frags' = [frags EXCEPT ![sending.i].wait = Current]
  /\ sending' = [sending EXCEPT !.i = sending.i + 1, !.observed = TRUE]
  /\ UNCHANGED <<stateVars, dataVars, reset_wait, connVars, pkts>>

(* The fragment, or the part that fits, is sent again; a rest stays and    *)
(* also waits for the packet being built.                                  *)
retransmit_lost ==
  /\ Visiting /\ Rec(frags[sending.i].wait) = "lost"
  /\ ~invalid_data(frags[sending.i])
  /\ LET f    == frags[sending.i]
         fit  == RetransmitFit(f)
         part == SubSeq(f.data, 1, fit.len)
         rest == SubSeq(f.data, fit.len + 1, Len(f.data))
         left == fit.len < Len(f.data)
     IN  /\ fit.ok
         /\ frags' = IF left
                     THEN [frags EXCEPT ![sending.i] =
                             [offset |-> f.offset + fit.len, data |-> rest,
                              fin |-> f.fin /\ ~fit.fin, wait |-> Current]]
                     ELSE erase(frags, sending.i)
         /\ sending' = [sending EXCEPT
              !.i = IF left THEN sending.i + 1 ELSE sending.i,
              !.room = sending.room - fit.size,
              !.frames = Append(sending.frames, [type |-> "STREAM", offset |-> f.offset,
                                                 data |-> part, fin |-> fit.fin]),
              !.tmp = Append(sending.tmp, [offset |-> f.offset, data |-> part,
                                           fin |-> fit.fin, wait |-> Current]),
              !.observed = TRUE]
  /\ UNCHANGED <<stateVars, dataVars, reset_wait, connVars, pkts>>

(* Mutant of retransmit_end: the fragments sent again are not spliced back. *)
retransmit_end_no_splice ==
  /\ sending.pc = "retransmit" /\ sending.i > Len(frags)
  /\ frags' = frags
  /\ state' = IF state = "data_sent" /\ frags' = <<>> THEN "data_recved" ELSE state
  /\ sending' = [sending EXCEPT !.pc = "new", !.tmp = <<>>]
  /\ UNCHANGED <<flow, error_code, reset_flags, dataVars, reset_wait, connVars, pkts>>

(* End of the list: splice what was sent again, then maybe_send_done. *)
retransmit_end ==
  /\ sending.pc = "retransmit" /\ sending.i > Len(frags)
  /\ frags' = frags \o sending.tmp
  /\ state' = IF state = "data_sent" /\ frags' = <<>> THEN "data_recved" ELSE state
  /\ sending' = [sending EXCEPT !.pc = "new", !.tmp = <<>>]
  /\ UNCHANGED <<flow, error_code, reset_flags, dataVars, reset_wait, connVars, pkts>>
-----------------------------------------------------------------------------
(* send_impl: new data, after retransmission *)

payload_limit == Min({remain, FairnessLimit, avail_size(flow)})
(* Mutant of flow_control_limit: the connection's credit is ignored. *)
flow_control_limit_stream_only == payload_limit
flow_control_limit == Min({avail_size(conn), payload_limit})
NewFit == make_fit_size_Stream(sending.room, Id, written, Len(get_remain(flow_control_limit)),
                               should_fin, should_fin)
(* Mutant of Sendable: the stream's state is not asked. *)
Sendable_any_state ==
  /\ sending.room >= calc_stream_overhead(Id, written)
  /\ flow_control_limit # 0 \/ should_fin
  /\ NewFit.ok
Sendable ==
  /\ can_send
  /\ sending.room >= calc_stream_overhead(Id, written)
  /\ flow_control_limit # 0 \/ should_fin
  /\ NewFit.ok

send_stream ==
  /\ sending.pc = "new"
  /\ Sendable
  /\ LET n == NewFit.len
         data == SubSeq(get_remain(flow_control_limit), 1, n)
     IN  /\ update_use_ok(flow, written + n)
         /\ conn' = IF n = 0 THEN conn ELSE use(conn, n)
         /\ flow' = update_use(flow, written + n)
         /\ written' = written + n
         /\ state' = IF NewFit.fin THEN "data_sent" ELSE "send"
         /\ fin_written' = (fin_written \/ NewFit.fin)
         /\ frags' = Append(frags, [offset |-> written, data |-> data,
                                    fin |-> NewFit.fin, wait |-> Current])
         /\ Return([sending EXCEPT
              !.frames = Append(sending.frames, [type |-> "STREAM", offset |-> written,
                                                 data |-> data, fin |-> NewFit.fin]),
              !.observed = TRUE])
  /\ UNCHANGED <<error_code, reset_flags, src, discarded, fin, reset_wait, other, applied>>

(* Nothing to send, no room, or blocked (a BLOCKED frame tells the peer). *)
send_nothing ==
  /\ sending.pc = "new"
  /\ ~Sendable
  /\ Return(sending)
  /\ UNCHANGED <<stateVars, dataVars, frags, reset_wait, connVars>>
-----------------------------------------------------------------------------
(* detect_ack_lost *)

detect_reset_ack ==
  /\ sending.pc = "idle"
  /\ reset_wait # 0 /\ Rec(reset_wait) = "ack"
  /\ state = "reset_sent"
  /\ state' = "reset_recved"
  /\ UNCHANGED <<flow, error_code, reset_flags, dataVars, frags, reset_wait, connVars, pkts, sending>>

detect_begin ==
  /\ sending.pc = "idle"
  /\ reset_wait = 0
  /\ \E k \in DOMAIN frags : Rec(frags[k].wait) = "ack"
  /\ sending' = Begin("detect", 0)
  /\ UNCHANGED <<stateVars, dataVars, frags, reset_wait, connVars, pkts>>

detect_visit ==
  /\ sending.pc = "detect" /\ sending.i <= Len(frags)
  /\ LET acked == Rec(frags[sending.i].wait) = "ack"
     IN  /\ frags' = IF acked THEN erase(frags, sending.i) ELSE frags
         /\ sending' = IF acked THEN sending ELSE [sending EXCEPT !.i = sending.i + 1]
  /\ UNCHANGED <<stateVars, dataVars, reset_wait, connVars, pkts>>

detect_end ==
  /\ sending.pc = "detect" /\ sending.i > Len(frags)
  /\ state' = IF state = "data_sent" /\ frags = <<>> THEN "data_recved" ELSE state
  /\ sending' = Idle
  /\ UNCHANGED <<flow, error_code, reset_flags, dataVars, frags, reset_wait, connVars, pkts>>
-----------------------------------------------------------------------------
(* The packet layer: an ACK arrives, or loss detection gives the packet up *)
(* (also when the packet was only late).  A record leaves "wait" once.     *)
mark(p, rec) ==
  /\ sending.pc = "idle"
  /\ p \in DOMAIN pkts /\ pkts[p].rec = "wait"
  /\ pkts' = [pkts EXCEPT ![p].rec = rec]
  /\ UNCHANGED <<stateVars, dataVars, frags, reset_wait, connVars, sending>>

mark_as_ack(p) == mark(p, "ack")
mark_as_lost(p) == mark(p, "lost")
-----------------------------------------------------------------------------
User ==
  \/ \E n \in 0..MaxData, f \in BOOLEAN, d \in BOOLEAN : write_ex(n, f, d)
  \/ discard_written_data
  \/ \E c \in Codes : request_reset(c)

Credit ==
  \/ apply_peer_initial_limits
  \/ \E l \in NewLimits : recv_max_stream_data(l) \/ recv_max_data(l)
  \/ \E n \in OtherUse : use_send_credit(n)

Send ==
  \/ \E r \in Rooms : send_reset(r) \/ send_retransmit_reset(r) \/ send_stream_begin(r)
  \/ reset_done
  \/ retransmit_acked \/ retransmit_waiting \/ retransmit_no_capacity
  \/ retransmit_lost \/ retransmit_end
  \/ send_stream \/ send_nothing

Detect == detect_reset_ack \/ detect_begin \/ detect_visit \/ detect_end

Next ==
  \/ User \/ Credit \/ Send \/ Detect
  \/ \E c \in Codes : recv_stop_sending(c)
  \/ \E p \in DOMAIN pkts : mark_as_ack(p) \/ mark_as_lost(p)

Spec == Init /\ [][Next]_vars
-----------------------------------------------------------------------------
(* The frames of this stream that packets carry, sent or being written. *)
FramesOf(p) == {pkts[p].frames[k] : k \in DOMAIN pkts[p].frames}
SentFrames == (UNION {FramesOf(p) : p \in DOMAIN pkts})
              \cup {sending.frames[k] : k \in DOMAIN sending.frames}
InFlight == frags \o sending.tmp
EndOf(f) == f.offset + Len(f.data)
Covers(f, o) == f.offset <= o /\ o < EndOf(f)
AckedFrames == UNION {FramesOf(p) : p \in {q \in DOMAIN pkts : pkts[q].rec = "ack"}}

(* The types of the sender's state (SendUniStreamState, StreamWriteData, Retransmiter). *)
TypeOK ==
  /\ state \in SendState /\ error_code \in Nat /\ reset_flags \subseteq ResetFlag
  /\ flow \in LimiterType /\ conn \in LimiterType /\ other \in Nat /\ applied \in BOOLEAN
  /\ src \in Seq(Nat) /\ discarded \in Nat /\ written \in Nat
  /\ fin \in BOOLEAN /\ fin_written \in BOOLEAN
  /\ frags \in Seq(Frag) /\ reset_wait \in Nat
  /\ pkts \in Seq(Packet) /\ sending \in Sending

(* No interleaving of writes, discards, losses and resets reaches a branch *)
(* the code calls impossible: send_retransmit_stream never meets a         *)
(* fragment it refuses as invalid_data, state.send never refuses the frame *)
(* send_impl built ("fatal error! library bug!!"), and StreamWriteData's   *)
(* update never refuses a write or discard ("must success").               *)
NoLibraryBug ==
  /\ \A k \in DOMAIN InFlight : ~invalid_data(InFlight[k])
  /\ sending.pc = "new" /\ Sendable =>
       update_use_ok(flow, written + NewFit.len) /\ use_ok(conn, NewFit.len)
  /\ discarded <= written /\ written <= total

(* Whatever was discarded from the buffer and however fragments were split *)
(* for retransmission, a STREAM frame carries the user's bytes of its      *)
(* offset range.                                                           *)
ContentFaithful ==
  \A f \in SentFrames : f.type = "STREAM" =>
    \A k \in DOMAIN f.data : f.data[k] = f.offset + k

(* The peer may never see two final sizes (FINAL_SIZE_ERROR): every FIN    *)
(* and every RESET_STREAM, first or retransmitted, names the same size, no *)
(* STREAM frame reaches past it, and all RESET_STREAMs agree on the code.  *)
FinalSizeAgreed ==
  \A f, g \in SentFrames :
    /\ f.type = "STREAM" /\ f.fin /\ g.type = "STREAM" => EndOf(g) <= EndOf(f)
    /\ f.type = "RESET_STREAM" /\ g.type = "STREAM" =>
         /\ EndOf(g) <= f.final_size
         /\ g.fin => EndOf(g) = f.final_size
    /\ f.type = "RESET_STREAM" /\ g.type = "RESET_STREAM" => f = g

(* Flow control: no frame exceeds the stream limit, and the connection is  *)
(* charged each byte of this stream once, however often it is sent again.  *)
WithinCredit ==
  /\ \A f \in SentFrames : f.type = "STREAM" => EndOf(f) <= flow.limit
  /\ conn.used <= conn.limit
  /\ conn.used = other + written
  /\ flow.used = written

(* Unless the stream is reset, a byte (and the FIN) that was sent is in a  *)
(* fragment kept for retransmission or in a packet the peer acknowledged.  *)
NoDataForgotten ==
  reset_flags = {} =>
    /\ \A o \in 0..(written - 1) :
         \/ \E k \in DOMAIN InFlight : Covers(InFlight[k], o)
         \/ \E f \in AckedFrames : f.type = "STREAM" /\ Covers(f, o)
    /\ fin_written =>
         \/ \E k \in DOMAIN InFlight : InFlight[k].fin
         \/ \E f \in AckedFrames : f.type = "STREAM" /\ f.fin

(* data_transmited(): "check whether provided data completely transmited". *)
data_transmited == sending.pc = "idle" /\ remain = 0 /\ frags = <<>>

(* When data_transmited() answers true, every byte the user provided is in *)
(* a packet the peer acknowledged.                                         *)
TransmittedMeansAcked ==
  data_transmited =>
    \A o \in 0..(total - 1) : \E f \in AckedFrames : f.type = "STREAM" /\ Covers(f, o)

(* FIN closes the stream only when all the data the user wrote is sent. *)
FinCoversData == fin_written => written = total

(* A step never leaves the order of the send states of core/base.h, and    *)
(* once RESET_STREAM is sent no packet carries stream data any more.       *)
ResetStopsData ==
  [][/\ state \in {"reset_sent", "reset_recved"} =>
          /\ state' \in {"reset_sent", "reset_recved"}
          /\ \A p \in DOMAIN pkts' \ DOMAIN pkts :
               \A k \in DOMAIN pkts'[p].frames : pkts'[p].frames[k] = ResetFrame
     /\ is_terminal_state => state' = state
     /\ state = "data_sent" => state' \notin {"ready", "send"}]_vars

=============================================================================
