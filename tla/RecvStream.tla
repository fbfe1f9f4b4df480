----------------------------- MODULE RecvStream -----------------------------
(***************************************************************************)
(* The receiving half of a QUIC stream: RecvUniStream (stream/impl/        *)
(* stream.h) with its state machine (core/base.h), recv_impl and the       *)
(* control frames (core/stream_base.h), the FragmentSaver that feeds a     *)
(* RecvSorter and grows the window by what was read (recv_buffer.h,        *)
(* recv_stream.h), and the connection's receive credit (conn_base.h).      *)
(*                                                                         *)
(* Two threads meet here: the connection's, which parses packets (recv())  *)
(* and builds them (send()) one at a time, as parse_udp_payload and        *)
(* create_udp_payload demand of their caller, and the user's, which reads. *)
(* The stream's lock and the sorter's lock make the methods below atomic;  *)
(* the window update asks the sorter first without any lock (query), so    *)
(* recv() and send() are split there and "call" holds where they are.      *)
(*                                                                         *)
(* The peer is any sender that keeps to the limits it was told.  "net"     *)
(* holds the frames it sent; each may arrive never, late or twice.         *)
(***************************************************************************)
EXTENDS Integers, Sequences, Limiter, StreamFrame, RecvSorter

CONSTANTS
  Id,             \* the stream's id on the wire
  Size,           \* the final size of the peer's data
  Frames,         \* the STREAM frames [offset, len, fin] it may send
  Resets,         \* error codes of a RESET_STREAM it may send
  InitialLimit,   \* this endpoint's initial limit for the stream
  ConnLimit,      \* its limit for the connection
  OtherUse,       \* connection credit that other streams take at once
  Bufs,           \* sizes of the user's read buffers
  Codes,          \* error codes of STOP_SENDING
  Rooms,          \* room left for this stream when a packet is built
  MaxPackets,     \* bound: packets with control frames of this stream
  MaxLosses       \* bound: how many of them are lost

ASSUME RecvAssumption ==
  /\ Id \in Nat /\ Size \in Nat /\ MaxPackets \in Nat /\ MaxLosses \in Nat
  /\ \A f \in Frames : /\ f.offset \in Nat /\ f.len \in Nat /\ f.offset + f.len <= Size
                       /\ f.fin \in BOOLEAN /\ (f.fin => f.offset + f.len = Size)
  /\ Resets \subseteq Nat /\ Codes \subseteq Nat
  /\ InitialLimit \in 0..(Border8 - 1) /\ ConnLimit \in 0..(Border8 - 1)
  /\ OtherUse \subseteq Nat /\ Bufs \subseteq Nat \ {0} /\ Rooms \subseteq Nat

VARIABLES
  state, limit, error_code, stop_required, should_send_limit_update,  \* RecvUniStreamState
  sorter,             \* the RecvSorter behind the saver
  max_data_wait,      \* packet of the last MAX_STREAM_DATA, 0 for no record
  stop_sending_wait,  \* packet of the last STOP_SENDING, 0 for no record
  conn,               \* ConnFlowLimit.recv
  other,              \* connection credit taken by other streams
  call,               \* the running recv() or send() and where it is
  pkts,               \* packets sent: record and control frames
  net,                \* the peer's frames in the network
  arrived,            \* offsets of the bytes that arrived
  got,                \* bytes the user has read
  eos,                \* a read has reported the end of the stream
  woken,              \* the user was notified or is reading, and has not come back empty
  err                 \* error that closes the connection

stateVars == <<state, limit, error_code, stop_required, should_send_limit_update>>
waitVars  == <<max_data_wait, stop_sending_wait, pkts>>
userVars  == <<got, eos, woken>>
connVars  == <<conn, other>>
vars == <<stateVars, sorter, waitVars, connVars, call, net, arrived, userVars, err>>

RecvState == {"pre_recv", "recv", "size_known", "data_recved", "reset_recved",
              "data_read", "reset_read"}
Errors == {"none", "FLOW_CONTROL_ERROR", "FINAL_SIZE_ERROR", "STREAM_STATE_ERROR"}
ControlFrame == [type : {"MAX_STREAM_DATA", "STOP_SENDING"}, value : Nat]
-----------------------------------------------------------------------------
(* RecvUniStreamState *)
is_recv == state \in {"pre_recv", "recv"}
can_recv == is_recv \/ state = "size_known"
is_size_known == state \in {"reset_recved", "size_known"}
(* Mutant of can_stop_sending: a received reset does not forbid it. *)
can_stop_sending_after_reset == state # "data_read"
can_stop_sending == state \notin {"reset_recved", "reset_read", "data_read"}

(* Mutant of Current: the record of the packet after this one is watched. *)
Current_next == Len(pkts) + 2
Current == Len(pkts) + 1
Rec(p) == IF p \in DOMAIN pkts THEN pkts[p].rec ELSE "wait"

Bytes(f) == [k \in 1..f.len |-> f.offset + k]
FrameEnd(f) == f.offset + f.len

Idle == [fn |-> "none", at |-> "none"]

Init ==
  /\ state = "pre_recv" /\ error_code = 0 /\ stop_required = FALSE
  /\ limit = set_limit(NewLimiter, InitialLimit) /\ should_send_limit_update = FALSE
  /\ sorter = NewSorter
  /\ max_data_wait = 0 /\ stop_sending_wait = 0 /\ pkts = <<>>
  /\ conn = set_limit(NewLimiter, ConnLimit) /\ other = 0
  /\ call = Idle
  /\ net = {} /\ arrived = {}
  /\ got = <<>> /\ eos = FALSE /\ woken = FALSE /\ err = "none"
-----------------------------------------------------------------------------
(* The peer: it sends within the stream limits it may have heard of and    *)
(* within the connection limit, and names one final size.                  *)
Control(p) == pkts[p].frames
Announced(P) == {InitialLimit} \cup
  {c.value : c \in {d \in UNION {Control(p) : p \in P} : d.type = "MAX_STREAM_DATA"}}
StreamFrames == {f \in net : f.type = "STREAM"}
Highest == Max({0} \cup {FrameEnd(f) : f \in StreamFrames})
HasReset == net # StreamFrames

peer_send(f, told) ==
  /\ err = "none" /\ ~HasReset /\ f \notin net
  /\ FrameEnd(f) <= Max(told)
  /\ other + Max({Highest, FrameEnd(f)}) <= ConnLimit
  /\ net' = net \cup {f}
  /\ UNCHANGED <<stateVars, sorter, waitVars, connVars, call, arrived, userVars, err>>

peer_reset(code) ==
  /\ err = "none" /\ ~HasReset
  /\ net' = net \cup {[type |-> "RESET_STREAM", final_size |-> Highest, code |-> code]}
  /\ UNCHANGED <<stateVars, sorter, waitVars, connVars, call, arrived, userVars, err>>

(* use_recv_credit for a frame of another stream. *)
use_recv_credit(n) ==
  /\ err = "none" /\ call = Idle
  /\ other + n + Highest <= ConnLimit
  /\ other' = other + n
  /\ conn' = use(conn, n)
  /\ err' = IF use_ok(conn, n) THEN err ELSE "FLOW_CONTROL_ERROR"
  /\ UNCHANGED <<stateVars, sorter, waitVars, call, net, arrived, userVars>>
-----------------------------------------------------------------------------
(* recv() of a STREAM frame: recv_impl charges stream and connection       *)
(* credit, then the saver hands the fragment to the sorter.                *)
recv_stream(f) ==
  LET end   == FrameEnd(f)
      lim   == update_use(limit, end)
      delta == lim.used - limit.used
      past_end == is_size_known /\ end > limit.used
      block_by_stream == past_end \/ ~update_use_ok(limit, end)
      block_by_conn   == delta # 0 /\ ~use_ok(conn, delta)
      received == IF state = "size_known" THEN state ELSE "recv"
      known == IF f.fin THEN "size_known" ELSE received
      r     == sorter_recv(sorter, [offset |-> f.offset, data |-> Bytes(f)], f.fin)
  IN  /\ err = "none" /\ call = Idle /\ f \in StreamFrames
      /\ call' = [fn |-> "recv", at |-> "query"]
      /\ IF ~can_recv
         THEN UNCHANGED <<state, limit, conn, sorter, arrived, woken, err>>
         ELSE IF block_by_stream \/ block_by_conn
         THEN /\ err' = "FLOW_CONTROL_ERROR"
              /\ limit' = IF past_end THEN limit ELSE lim
              /\ state' = IF block_by_stream THEN state ELSE received
              /\ UNCHANGED <<conn, sorter, arrived, woken>>
         ELSE /\ limit' = lim
              /\ conn' = use(conn, delta)
              /\ sorter' = r.sorter
              /\ err' = IF r.err THEN "STREAM_STATE_ERROR" ELSE "none"
              /\ state' = IF ~r.err /\ r.sorter.done /\ known = "size_known"
                          THEN "data_recved" ELSE known
              /\ woken' = (woken \/ r.sorter.prev_notified # sorter.prev_notified)
              /\ arrived' = arrived \cup {o \in 0..(Size - 1) : f.offset <= o /\ o < end}
      /\ UNCHANGED <<error_code, stop_required, should_send_limit_update, waitVars, other,
                     net, got, eos>>

(* recv() of RESET_STREAM. *)
recv_reset(f) ==
  LET lim   == update_use(limit, f.final_size)
      delta == lim.used - limit.used
      final == (is_size_known /\ f.final_size # limit.used) \/ ~update_use_ok(limit, f.final_size)
      credit == delta # 0 /\ ~use_ok(conn, delta)
      needless == state \in {"data_read", "reset_read"}
  IN  /\ err = "none" /\ call = Idle /\ f \in net \ StreamFrames
      /\ call' = [fn |-> "recv", at |-> "query"]
      /\ err' = IF needless THEN "none" ELSE IF final THEN "FINAL_SIZE_ERROR"
                ELSE IF credit THEN "FLOW_CONTROL_ERROR" ELSE "none"
      /\ IF needless \/ final
         THEN UNCHANGED <<state, error_code, limit, conn>>
         ELSE /\ state' = "reset_recved" /\ error_code' = f.code
              /\ limit' = lim /\ conn' = use(conn, delta)
      /\ sorter' = IF err' = "none" THEN sorter_reset(sorter) ELSE sorter
      /\ UNCHANGED <<stop_required, should_send_limit_update, waitVars, other, net,
                     arrived, userVars>>
-----------------------------------------------------------------------------
(* do_auto_update, after recv() and before send(): reader_auto_updater is  *)
(* asked without the stream's lock, then called again under it.            *)
After == IF call.fn = "recv" THEN Idle ELSE [call EXCEPT !.at = "body"]

auto_query ==
  /\ err = "none" /\ call.at = "query"
  /\ call' = IF sorter.read_pos # sorter.prev_pos THEN [call EXCEPT !.at = "update"] ELSE After
  /\ UNCHANGED <<stateVars, sorter, waitVars, connVars, net, arrived, userVars, err>>

new_limit == limit.limit + (sorter.read_pos - sorter.prev_pos)

(* Mutant of auto_update: what the query saw is added again. *)
auto_update_twice ==
  /\ err = "none" /\ call.at = "update"
  /\ call' = After
  /\ limit' = update_limit(limit, new_limit)
  /\ should_send_limit_update' = (update_limit_ok(limit, new_limit) \/ should_send_limit_update)
  /\ UNCHANGED <<state, error_code, stop_required, sorter, waitVars, connVars, net, arrived,
                 userVars, err>>

auto_update ==
  /\ err = "none" /\ call.at = "update"
  /\ call' = After
  /\ limit' = update_limit(limit, new_limit)
  /\ should_send_limit_update' = (update_limit_ok(limit, new_limit) \/ should_send_limit_update)
  /\ sorter' = [sorter EXCEPT !.prev_pos = sorter.read_pos]
  /\ UNCHANGED <<state, error_code, stop_required, waitVars, connVars, net, arrived, userVars, err>>
-----------------------------------------------------------------------------
(* send(): STOP_SENDING, then MAX_STREAM_DATA *)
send_begin ==
  /\ err = "none" /\ call = Idle
  /\ Len(pkts) < MaxPackets
  /\ call' = [fn |-> "send", at |-> "query"]
  /\ UNCHANGED <<stateVars, sorter, waitVars, connVars, net, arrived, userVars, err>>

control_len(v) == 1 + varint_len(Id) + varint_len(v)

(* send_stop_sending_unlocked: an acknowledgement is only noted, and the   *)
(* next call sends STOP_SENDING again.                                     *)
StopAcked == stop_sending_wait # 0 /\ Rec(stop_sending_wait) = "ack"
SendsStop(room) ==
  /\ ~StopAcked
  /\ stop_required /\ can_stop_sending
  /\ room >= control_len(error_code)

(* send_max_stream_data_unlocked, in the room that is left: a new limit    *)
(* first, else the last one again if its packet is lost.                   *)
(* Mutant of LimitAcked: a lost packet is taken for an acknowledged one. *)
LimitAcked_or_lost == max_data_wait # 0 /\ Rec(max_data_wait) # "wait"
LimitAcked == max_data_wait # 0 /\ Rec(max_data_wait) = "ack"
LimitLost == max_data_wait # 0 /\ Rec(max_data_wait) = "lost"
(* Mutant of SendsLimit: a lost MAX_STREAM_DATA is not sent again. *)
SendsLimit_once(room) ==
  /\ is_recv
  /\ should_send_limit_update
  /\ room >= control_len(limit.limit)
SendsLimit(room) ==
  /\ is_recv
  /\ should_send_limit_update \/ LimitLost
  /\ room >= control_len(limit.limit)

send(room) ==
  LET stop == SendsStop(room)
      left == IF stop THEN room - control_len(error_code) ELSE room
      lim  == SendsLimit(left)
      frames == {c \in {[type |-> "STOP_SENDING", value |-> error_code],
                        [type |-> "MAX_STREAM_DATA", value |-> limit.limit]} :
                   IF c.type = "STOP_SENDING" THEN stop ELSE lim}
  IN  /\ err = "none" /\ call.at = "body"
      /\ call' = Idle
      /\ stop_sending_wait' = IF stop THEN Current ELSE IF StopAcked THEN 0 ELSE stop_sending_wait
      /\ max_data_wait' = IF lim THEN Current
                          ELSE IF LimitAcked \/ (LimitLost /\ ~is_recv) THEN 0 ELSE max_data_wait
      /\ should_send_limit_update' = (should_send_limit_update /\ ~lim)
      /\ pkts' = IF frames = {} THEN pkts ELSE Append(pkts, [rec |-> "wait", frames |-> frames])
      /\ UNCHANGED <<state, limit, error_code, stop_required, sorter, connVars, net, arrived,
                     userVars, err>>

(* The packet layer: an ACK arrives, or the packet is given up. *)
Lost == {p \in DOMAIN pkts : pkts[p].rec = "lost"}
mark(p, rec) ==
  /\ err = "none" /\ call = Idle /\ pkts[p].rec = "wait"
  /\ rec = "lost" => Cardinality(Lost) < MaxLosses
  /\ pkts' = [pkts EXCEPT ![p].rec = rec]
  /\ UNCHANGED <<stateVars, sorter, max_data_wait, stop_sending_wait, connVars, call, net,
                 arrived, userVars, err>>
-----------------------------------------------------------------------------
(* The user's thread *)
Reading(r, full) ==
  /\ sorter' = r.sorter
  /\ got' = got \o r.got
  /\ eos' = (eos \/ r.eos)
  /\ woken' = (full /\ ~r.eos)
  /\ UNCHANGED <<stateVars, waitVars, connVars, call, net, arrived, err>>

(* read(): after a full buffer the user reads on, a buffer that is not     *)
(* filled sends it back to waiting.                                        *)
read(n) ==
  LET r == read_impl(sorter, n)
  IN  /\ err = "none"
      /\ Reading(r, Len(r.got) = n)

(* read_direct(): the range at the front, until there is none to take. *)
direct ==
  /\ err = "none"
  /\ IF available(sorter) THEN Reading(read_direct(sorter), TRUE)
     ELSE Reading([got |-> <<>>, sorter |-> sorter, eos |-> sorter.done], FALSE)

(* user_read_full: user_read_reset or user_read_all, whether or not the    *)
(* user has read everything.                                               *)
user_read_full ==
  /\ err = "none"
  /\ \/ state = "reset_recved" /\ state' = "reset_read"
     \/ state = "data_recved" /\ state' = "data_read"
  /\ UNCHANGED <<limit, error_code, stop_required, should_send_limit_update, sorter, waitVars,
                 connVars, call, net, arrived, userVars, err>>

request_stop_sending(code) ==
  /\ err = "none" /\ can_stop_sending
  /\ error_code' = code /\ stop_required' = TRUE
  /\ UNCHANGED <<state, limit, should_send_limit_update, sorter, waitVars, connVars, call, net,
                 arrived, userVars, err>>
-----------------------------------------------------------------------------
Peer ==
  \/ \E f \in Frames : peer_send(f, Announced(DOMAIN pkts))
  \/ \E c \in Resets : peer_reset(c)
  \/ \E n \in OtherUse : use_recv_credit(n)

Runtime ==
  \/ \E f \in net : recv_stream(f) \/ recv_reset(f)
  \/ auto_query \/ auto_update
  \/ send_begin
  \/ \E r \in Rooms : send(r)
  \/ \E p \in DOMAIN pkts, rec \in {"ack", "lost"} : mark(p, rec)

User ==
  \/ \E n \in Bufs : read(n)
  \/ direct
  \/ user_read_full
  \/ \E c \in Codes : request_stop_sending(c)

Next == Peer \/ Runtime \/ User

Spec == Init /\ [][Next]_vars

(* The peer sends what the limits it acknowledged (or has used already)    *)
(* allow, a frame it keeps sending arrives, a running call goes on, the    *)
(* connection's loop comes round to building packets and to acknowledging  *)
(* or giving up those it sent, and a notified user reads.                  *)
Acked == {p \in DOMAIN pkts : pkts[p].rec = "ack"}
Fairness ==
  /\ \A f \in Frames : /\ WF_vars(peer_send(f, {Highest} \cup Announced(Acked)))
                       /\ SF_vars(recv_stream(f))
  /\ WF_vars(auto_query \/ auto_update)
  /\ SF_vars(send_begin)
  /\ WF_vars(\E r \in Rooms : send(r))
  /\ SF_vars(\E p \in DOMAIN pkts, rec \in {"ack", "lost"} : mark(p, rec))
  /\ WF_vars(woken /\ \E n \in Bufs : read(n))

FairSpec == Spec /\ Fairness
-----------------------------------------------------------------------------
Held == UNION {{sorter.sorted[i].offset + k - 1 : k \in DOMAIN sorter.sorted[i].data} :
                 i \in DOMAIN sorter.sorted}

(* The types of the receiver's state (RecvUniStreamState, RecvSorter). *)
TypeOK ==
  /\ state \in RecvState /\ limit \in LimiterType /\ error_code \in Nat
  /\ stop_required \in BOOLEAN /\ should_send_limit_update \in BOOLEAN
  /\ sorter \in SorterType
  /\ max_data_wait \in 0..Len(pkts) /\ stop_sending_wait \in 0..Len(pkts)
  /\ conn \in LimiterType /\ other \in Nat
  /\ call.fn \in {"none", "recv", "send"} /\ call.at \in {"none", "query", "update", "body"}
  /\ \A p \in DOMAIN pkts : pkts[p].rec \in {"wait", "ack", "lost"} /\ Control(p) \subseteq ControlFrame
  /\ arrived \subseteq 0..(Size - 1) /\ got \in Seq(Nat)
  /\ eos \in BOOLEAN /\ woken \in BOOLEAN /\ err \in Errors

(* However frames are reordered and duplicated and however reads cut the   *)
(* ranges, the user gets the peer's bytes in order, each once.             *)
ReadIsPrefix ==
  /\ Len(got) = sorter.read_pos
  /\ \A k \in DOMAIN got : got[k] = k

(* The sorter holds exactly the bytes that arrived and are not read yet,   *)
(* in ranges that grow and do not overlap.                                 *)
HoldsWhatArrived ==
  err = "none" =>
    /\ Held = {o \in arrived : o >= sorter.read_pos}
    /\ \A i, j \in DOMAIN sorter.sorted :
         i < j => max_of(sorter.sorted[i]) <= sorter.sorted[j].offset

(* A peer that keeps to the limits it was told and to one final size is    *)
(* never accused: recv_impl, recv_reset and the sorter report no error.    *)
LegalPeerAccepted == err = "none"

(* check_offset asserts it while the reader drains the list: the second    *)
(* range begins after the first.                                           *)
CheckOffset ==
  Len(sorter.sorted) > 1 => sorter.sorted[1].offset < sorter.sorted[2].offset

(* The end of the stream is reported only when every byte has been read,   *)
(* and data_recved is entered only when every byte has arrived.            *)
EndIsComplete ==
  /\ eos => Len(got) = Size
  /\ state \in {"data_recved", "data_read"} => arrived = 0..(Size - 1)

(* check_done calls on_data_added_cb where recv_stream.h:64 says "at here, *)
(* some data is available", once per read position: while data (or the     *)
(* end) is there to be read, the user's thread has been told and has not   *)
(* gone back to waiting since.                                             *)
NoLostWakeup == read_impl(sorter, 1).got # <<>> \/ (sorter.done /\ ~eos) => woken

(* The only frame that can cost the reader a wakeup is one without data    *)
(* and without FIN at the position where it waits: such a frame is         *)
(* announced as data, and the position counts as notified ever after.      *)
WakeupLostOnlyToEmpty ==
  NoLostWakeup \/ \E f \in StreamFrames : f.len = 0 /\ ~f.fin /\ f.offset = sorter.read_pos

(* The window grows by what was read, asked for once without a lock and    *)
(* once under it while the user reads on: every byte read is credited      *)
(* once, and the window never runs ahead of the reader.                    *)
WindowExact ==
  /\ limit.limit = InitialLimit + sorter.prev_pos
  /\ sorter.prev_pos <= sorter.read_pos

(* As long as the peer may still need credit, the current limit is going   *)
(* to be sent, or is in a packet that is watched or was acknowledged.      *)
LimitNotForgotten ==
  is_recv /\ limit.limit # InitialLimit /\ ~should_send_limit_update =>
    \E p \in DOMAIN pkts :
      /\ [type |-> "MAX_STREAM_DATA", value |-> limit.limit] \in Control(p)
      /\ max_data_wait = p \/ pkts[p].rec = "ack"

(* The user's stop code and the peer's reset code share one field: no      *)
(* STOP_SENDING carries the peer's code, and a reset keeps the peer's.     *)
CodesNotMixed ==
  /\ \A p \in DOMAIN pkts : \A c \in Control(p) : c.type = "STOP_SENDING" => c.value \in Codes
  /\ state \in {"reset_recved", "reset_read"} => error_code \in Resets

(* Connection credit is charged exactly what the stream's highest offset   *)
(* says, once, whichever of data, FIN and RESET_STREAM brings it.          *)
ChargedOnce == conn.used = other + limit.used

(* The stream ends: although the peer must wait for MAX_STREAM_DATA, which *)
(* may be lost, the user reads everything and is told the end (if every    *)
(* frame brings data or FIN: NoLostWakeup fails for others).               *)
EndReached == <>eos
=============================================================================
