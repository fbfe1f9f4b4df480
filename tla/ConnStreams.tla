---------------------------- MODULE ConnStreams ----------------------------
(***************************************************************************)
(* The streams the peer opens and the limits this endpoint grants it:      *)
(* stream::impl::Conn (stream/impl/conn.h), its ConnFlowControl            *)
(* (conn_flow.h, core/conn_base.h, core/issue_accept.h) and the            *)
(* AutoIncreaser of its handler (conn_handler.h).                          *)
(*                                                                         *)
(* The thread "conn" runs recv() and send(), one at a time; the user's     *)
(* remove() runs on the thread User.  A call is a sequence of steps, each  *)
(* under its lock; todo[t] holds the steps thread t still has to take.     *)
(* accept_bidi_locker and recv_locker guard single steps.  The limit for   *)
(* data is written under accept_uni_locker and sent under recv_locker, so  *)
(* these two handlers are split at every access they share.                *)
(*                                                                         *)
(* A stream is its number; its own operations (RecvStream) show here only  *)
(* when they make it removable.                                            *)
(***************************************************************************)
EXTENDS Integers, Sequences, FiniteSets, FiniteSetsExt, Limiter

CONSTANTS
  User,           \* the thread of the user's calls: "user", or "conn" for one thread
  AutoUni, AutoBidi, AutoData,  \* AutoIncreaser
  RemoveAuto,     \* Conn::remove_auto
  IniStreams,     \* InitialLimits: streams of each type
  IniData,        \* InitialLimits: connection data
  Raise,          \* the limits (kinds) the user raises by itself, by one
  MaxLimit,       \* bound: up to this limit
  Types,          \* the stream types the peer opens
  MaxSeq,         \* bound: streams the peer opens per type
  MaxData,        \* bound: data the peer sends
  Rooms,          \* limit frames that fit into a packet
  MaxPackets, MaxLosses   \* bounds: packets with limit frames, and how many are lost

ASSUME ConnAssumption ==
  /\ User \in {"conn", "user"} /\ {AutoUni, AutoBidi, AutoData, RemoveAuto} \subseteq BOOLEAN
  /\ IniStreams \in 1..(Border8 - 1) /\ IniData \in 1..(Border8 - 1)
  /\ Types \subseteq {"uni", "bidi"} /\ Raise \subseteq {"uni", "bidi", "data"}
  /\ MaxLimit \in Nat
  /\ MaxSeq \in Nat /\ MaxData \in Nat /\ Rooms \subseteq Nat
  /\ MaxPackets \in Nat /\ MaxLosses \in Nat

StreamTypes == {"uni", "bidi"}
Kinds == StreamTypes \cup {"data"}
Threads == {"conn", User}
Ini == [uni |-> IniStreams, bidi |-> IniStreams, data |-> IniData]

VARIABLES
  limits,     \* acceptors' Limiter and ConnFlowLimit.recv
  update,     \* should_send_limit_update
  record,     \* ACKHandler: packet of the last announcement, 0 for none
  remote,     \* remote_uni, remote_bidi
  finished,   \* streams for which is_removable() holds
  born,       \* how often each stream was created
  todo,       \* steps each thread still has to take
  count,      \* what remote_*_avail() told each thread
  seen,       \* the Limiter update_max_data gave to its callback
  flag,       \* what it is about to store in should_send_limit_update
  accept_uni, \* holder of accept_uni_locker across steps, "none" else
  room, built,  \* the packet being built
  pkts        \* packets sent: record and frames

vars == <<limits, update, record, remote, finished, born, todo, count, seen, flag,
          accept_uni, room, built, pkts>>

Step(op) == [op |-> op]
Steps(ops) == [i \in DOMAIN ops |-> Step(ops[i])]
First(t, op) == todo[t] # <<>> /\ Head(todo[t]).op = op
(* Mutant of Current: the packet after this one is watched. *)
Current_next == Len(pkts) + 2
Current == Len(pkts) + 1
Rec(p) == IF p \in DOMAIN pkts THEN pkts[p].rec ELSE "wait"

(* AutoIncreaser::auto_increase *)
Chosen(on, ops) == IF on THEN ops ELSE <<>>
auto_increase ==
  Steps(Chosen(AutoBidi, <<"bidi_avail", "bidi_update">>)
        \o Chosen(AutoUni, <<"uni_avail", "uni_update">>)
        \o Chosen(AutoData, <<"data_decide", "data_limit", "data_flag">>))

Init ==
  /\ limits = [k \in Kinds |-> set_limit(NewLimiter, Ini[k])]
  /\ update = [k \in Kinds |-> FALSE] /\ record = [k \in Kinds |-> 0]
  /\ remote = [s \in StreamTypes |-> {}] /\ finished = [s \in StreamTypes |-> {}]
  /\ born = [s \in StreamTypes |-> [n \in 0..(MaxSeq - 1) |-> 0]]
  /\ todo = [t \in Threads |-> <<>>] /\ count = [t \in Threads |-> 0]
  /\ seen = [t \in Threads |-> NewLimiter] /\ flag = [t \in Threads |-> FALSE]
  /\ accept_uni = "none"
  /\ room = 0 /\ built = {} /\ pkts = <<>>

Idle(t) == todo[t] = <<>>
Free(s) == s = "uni" => accept_uni = "none"
Done(t) == todo' = [todo EXCEPT ![t] = Tail(@)]
Then(t, steps) == todo' = [todo EXCEPT ![t] = steps \o Tail(@)]
packetVars == <<room, built, pkts>>
streamVars == <<remote, finished, born>>
limitVars  == <<limits, update, record>>
localVars  == <<count, seen, flag, accept_uni>>
-----------------------------------------------------------------------------
(* The highest limit the peer may have heard of. *)
Announced(k) == Max({Ini[k]} \cup
  {f.limit : f \in {g \in UNION {pkts[p].frames : p \in DOMAIN pkts} : g.kind = k}})

(* recv(): a frame of stream n arrives, from a peer that keeps to its      *)
(* limits, with d bytes of new data.                                       *)
recv(s, n, d) ==
  /\ Idle("conn")
  /\ n < Announced(s) /\ limits.data.used + d <= Min({MaxData, Announced("data")})
  /\ todo' = [todo EXCEPT !.conn =
        <<[op |-> "accept", type |-> s, seq |-> n],
          [op |-> "deliver", type |-> s, seq |-> n, size |-> d],
          [op |-> "maybe_remove", type |-> s, seq |-> n]>> \o auto_increase]
  /\ UNCHANGED <<limitVars, streamVars, localVars, packetVars>>

(* check_creation: every number between the highest so far and this one.   *)
(* Mutant of NewStreams: the streams below the new one are left out. *)
NewStreams_only(s, n) == IF n >= limits[s].used THEN {n} ELSE {}
NewStreams(s, n) == limits[s].used..n
accept ==
  LET s == Head(todo.conn).type
      n == Head(todo.conn).seq
      new == IF update_use_ok(limits[s], n + 1) THEN NewStreams(s, n) ELSE {}
  IN  /\ First("conn", "accept") /\ Free(s)
      /\ limits' = [limits EXCEPT ![s] = update_use(@, n + 1)]
      /\ remote' = [remote EXCEPT ![s] = @ \cup new]
      /\ born' = [born EXCEPT ![s] = [i \in DOMAIN @ |-> @[i] + (IF i \in new THEN 1 ELSE 0)]]
      /\ Done("conn")
      /\ UNCHANGED <<update, record, finished, localVars, packetVars>>

(* find_recv_uni or find_remote_bidi, and the stream's recv(): a stream    *)
(* that was removed meanwhile ignores the frame.                           *)
deliver ==
  LET f == Head(todo.conn)
  IN  /\ First("conn", "deliver") /\ Free(f.type)
      /\ IF f.seq \in remote[f.type]
         THEN limits' = [limits EXCEPT !.data = use(@, f.size)] /\ Done("conn")
         ELSE todo' = [todo EXCEPT !.conn = Tail(Tail(@))] /\ UNCHANGED limits
      /\ UNCHANGED <<update, record, streamVars, localVars, packetVars>>

(* The stream itself comes to its end. *)
finish(s, n) ==
  /\ n \in remote[s] \ finished[s]
  /\ finished' = [finished EXCEPT ![s] = @ \cup {n}]
  /\ UNCHANGED <<limitVars, remote, born, todo, localVars, packetVars>>

(* maybe_remove, and on_remove_stream when the function returns (also if   *)
(* the user was faster).                                                   *)
Removable(s) == remote[s] \cap finished[s]
maybe_remove ==
  LET f  == Head(todo.conn)
      ok == RemoveAuto /\ f.seq \in finished[f.type]
  IN  /\ First("conn", "maybe_remove") /\ Free(f.type)
      /\ remote' = IF ok THEN [remote EXCEPT ![f.type] = @ \ {f.seq}] ELSE remote
      /\ Then("conn", IF ok THEN auto_increase ELSE <<>>)
      /\ UNCHANGED <<limitVars, finished, born, localVars, packetVars>>

(* The user's remove(). *)
remove(s, n) ==
  /\ Idle(User) /\ Free(s)
  /\ n \in Removable(s)
  /\ remote' = [remote EXCEPT ![s] = @ \ {n}]
  /\ todo' = [todo EXCEPT ![User] = auto_increase]
  /\ UNCHANGED <<limitVars, finished, born, localVars, packetVars>>
-----------------------------------------------------------------------------
(* auto_increase: the count of open streams is taken under the lock, the   *)
(* limit is updated after the lock was taken again.  The branch for        *)
(* unidirectional streams updates the limit for bidirectional ones.        *)
avail(t, s) ==
  /\ First(t, IF s = "uni" THEN "uni_avail" ELSE "bidi_avail") /\ Free(s)
  /\ count' = [count EXCEPT ![t] = Cardinality(remote[s])]
  /\ Done(t)
  /\ UNCHANGED <<limitVars, streamVars, seen, flag, accept_uni, packetVars>>

(* Mutant of new_streams_limit: the open streams are not counted. *)
new_streams_limit_uncounted(l, open, ini) ==
  IF avail_size(l) < ini THEN l.limit + ini - avail_size(l) ELSE l.limit
new_streams_limit(l, open, ini) ==
  IF avail_size(l) + open < ini THEN l.limit + ini - avail_size(l) ELSE l.limit
update_max_bidi_streams(t) ==
  LET new == new_streams_limit(limits.bidi, count[t], Ini.bidi)
  IN  /\ First(t, "bidi_update") \/ First(t, "uni_update")
      /\ limits' = [limits EXCEPT !.bidi = update_limit(@, new)]
      /\ update' = [update EXCEPT !.bidi = @ \/ update_limit_ok(limits.bidi, new)]
      /\ Done(t)
      /\ UNCHANGED <<record, streamVars, localVars, packetVars>>

(* update_max_data, all of it under accept_uni_locker. *)
new_data_limit(l) ==
  IF avail_size(l) < IniData THEN l.limit + IniData - avail_size(l) ELSE l.limit
update_max_data_decide(t) ==
  /\ First(t, "data_decide") /\ accept_uni = "none"
  /\ accept_uni' = t /\ seen' = [seen EXCEPT ![t] = limits.data]
  /\ Done(t)
  /\ UNCHANGED <<limitVars, streamVars, count, flag, packetVars>>
update_max_data_limit(t) ==
  LET new == IF First(t, "user_limit") THEN seen[t].limit + 1 ELSE new_data_limit(seen[t])
  IN  /\ First(t, "data_limit") \/ First(t, "user_limit")
      /\ limits' = [limits EXCEPT !.data = update_limit(@, new)]
      /\ flag' = [flag EXCEPT ![t] = update_limit_ok(limits.data, new) \/ update.data]
      /\ Done(t)
      /\ UNCHANGED <<update, record, streamVars, count, seen, accept_uni, packetVars>>
update_max_data_flag(t) ==
  /\ First(t, "data_flag")
  /\ update' = [update EXCEPT !.data = flag[t]] /\ accept_uni' = "none"
  /\ Done(t)
  /\ UNCHANGED <<limits, record, streamVars, count, seen, flag, packetVars>>
(* The user raises a limit: update_max_uni_streams, update_max_bidi_streams *)
(* and update_max_data of Conn with a callback of its own.                  *)
update_max_streams(s) ==
  /\ Idle(User) /\ Free(s) /\ limits[s].limit < MaxLimit
  /\ limits' = [limits EXCEPT ![s] = update_limit(@, @.limit + 1)]
  /\ update' = [update EXCEPT ![s] = @ \/ update_limit_ok(limits[s], limits[s].limit + 1)]
  /\ UNCHANGED <<record, streamVars, todo, localVars, packetVars>>
update_max_data ==
  /\ Idle(User) /\ limits.data.limit < MaxLimit
  /\ todo' = [todo EXCEPT ![User] = Steps(<<"data_decide", "user_limit", "data_flag">>)]
  /\ UNCHANGED <<limitVars, streamVars, localVars, packetVars>>
-----------------------------------------------------------------------------
(* send(): the limits in turn, then the streams, into one packet (with no  *)
(* room for limit frames once MaxPackets is reached).                      *)
send(r) ==
  /\ Idle("conn") /\ (Len(pkts) < MaxPackets \/ r = 0)
  /\ room' = r /\ built' = {}
  /\ todo' = [todo EXCEPT !.conn = auto_increase \o
       Steps(<<"send_data", "send_uni", "send_bidi", "send_schedule", "send_packet">>)]
  /\ UNCHANGED <<limitVars, streamVars, localVars, pkts>>

(* send_limit writes a frame for an updated limit, or again for a lost one. *)
Lost(k) == record[k] # 0 /\ Rec(record[k]) = "lost"
(* Mutant of Acked: a lost packet is taken for an acknowledged one. *)
Acked_or_lost(k) == record[k] # 0 /\ Rec(record[k]) # "wait"
Acked(k) == record[k] # 0 /\ Rec(record[k]) = "ack"
Writes(k) == (update[k] \/ Lost(k)) /\ room > 0
Frame(k) == [kind |-> k, limit |-> limits[k].limit]

(* send_max_uni_streams and send_max_bidi_streams *)
send_max_streams(s) ==
  /\ First("conn", IF s = "uni" THEN "send_uni" ELSE "send_bidi") /\ Free(s)
  /\ built' = IF Writes(s) THEN built \cup {Frame(s)} ELSE built
  /\ room' = IF Writes(s) THEN room - 1 ELSE room
  /\ update' = [update EXCEPT ![s] = @ /\ ~Writes(s)]
  /\ record' = [record EXCEPT ![s] = IF Writes(s) THEN Current ELSE IF Acked(s) THEN 0 ELSE @]
  /\ Done("conn")
  /\ UNCHANGED <<limits, streamVars, localVars, pkts>>

(* send_max_data under recv_locker: flag read, limit read and written,     *)
(* flag cleared.                                                           *)
send_max_data_check ==
  /\ First("conn", "send_data")
  /\ record' = [record EXCEPT !.data = IF ~Writes("data") /\ Acked("data") THEN 0 ELSE @]
  /\ Then("conn", Steps(Chosen(Writes("data"), <<"data_frame", "data_clear">>)))
  /\ UNCHANGED <<limits, update, streamVars, localVars, packetVars>>
send_max_data_frame ==
  /\ First("conn", "data_frame")
  /\ built' = built \cup {Frame("data")} /\ room' = room - 1
  /\ Done("conn")
  /\ UNCHANGED <<limitVars, streamVars, localVars, pkts>>
send_max_data_clear ==
  /\ First("conn", "data_clear")
  /\ update' = [update EXCEPT !.data = FALSE]
  /\ record' = [record EXCEPT !.data = Current]
  /\ Done("conn")
  /\ UNCHANGED <<limits, streamVars, localVars, packetVars>>

(* Mutant of send_schedule: finished streams are left to the user. *)
send_schedule_keeps ==
  /\ First("conn", "send_schedule") /\ accept_uni = "none"
  /\ Done("conn")
  /\ UNCHANGED <<limitVars, streamVars, localVars, packetVars>>

(* default_send_schedule, with the four stream locks: finished streams go. *)
send_schedule ==
  LET gone == RemoveAuto /\ \E s \in StreamTypes : Removable(s) # {}
  IN  /\ First("conn", "send_schedule") /\ accept_uni = "none"
      /\ remote' = IF gone THEN [s \in StreamTypes |-> remote[s] \ finished[s]] ELSE remote
      /\ Then("conn", IF gone THEN auto_increase ELSE <<>>)
      /\ UNCHANGED <<limitVars, finished, born, localVars, packetVars>>

send_packet ==
  /\ First("conn", "send_packet")
  /\ pkts' = IF built = {} THEN pkts ELSE Append(pkts, [rec |-> "wait", frames |-> built])
  /\ built' = {} /\ room' = 0
  /\ Done("conn")
  /\ UNCHANGED <<limitVars, streamVars, localVars>>

(* The packet layer, on the connection's thread. *)
LostPackets == {p \in DOMAIN pkts : pkts[p].rec = "lost"}
mark(p, rec) ==
  /\ Idle("conn") /\ pkts[p].rec = "wait"
  /\ rec = "lost" => Cardinality(LostPackets) < MaxLosses
  /\ pkts' = [pkts EXCEPT ![p].rec = rec]
  /\ UNCHANGED <<limitVars, streamVars, todo, localVars, room, built>>
-----------------------------------------------------------------------------
Recv ==
  \/ \E s \in Types, n \in 0..(MaxSeq - 1), d \in {0, 1} : recv(s, n, d)
  \/ accept
  \/ deliver
  \/ maybe_remove
AutoIncrease(t) ==
  \/ \E s \in StreamTypes : avail(t, s)
  \/ update_max_bidi_streams(t)
  \/ update_max_data_decide(t)
  \/ update_max_data_limit(t)
  \/ update_max_data_flag(t)
Send ==
  \/ \E r \in Rooms : send(r)
  \/ \E s \in StreamTypes : send_max_streams(s)
  \/ send_max_data_check
  \/ send_max_data_frame
  \/ send_max_data_clear
  \/ send_schedule
  \/ send_packet
Streams == \E s \in StreamTypes : \E n \in remote[s] : finish(s, n) \/ remove(s, n)
UserRaises ==
  \/ \E s \in Raise \ {"data"} : update_max_streams(s)
  \/ "data" \in Raise /\ update_max_data
Packets == \E p \in DOMAIN pkts, rec \in {"ack", "lost"} : mark(p, rec)

Next == Recv \/ (\E t \in Threads : AutoIncrease(t)) \/ Send \/ Streams \/ UserRaises \/ Packets

Spec == Init /\ [][Next]_vars

(* A call that was begun goes on, and the connection's loop comes round to *)
(* send().  Nothing is assumed of the user, who may never call remove().   *)
Running(t) == ~Idle(t) /\ (Recv \/ AutoIncrease(t) \/ Send)
FairSpec == Spec /\ SF_vars(\E r \in Rooms : send(r)) /\ \A t \in Threads : WF_vars(Running(t))
-----------------------------------------------------------------------------
(* The types of the connection's state. *)
TypeOK ==
  /\ limits \in [Kinds -> LimiterType] /\ update \in [Kinds -> BOOLEAN]
  /\ record \in [Kinds -> 0..(Len(pkts) + 1)]
  /\ \A s \in StreamTypes : remote[s] \subseteq 0..(MaxSeq - 1) /\ finished[s] \subseteq 0..(MaxSeq - 1)
  /\ accept_uni \in Threads \cup {"none"} /\ room \in Nat
  /\ \A p \in DOMAIN pkts : pkts[p].rec \in {"wait", "ack", "lost"}

(* However frames of streams are reordered and repeated, each stream up to *)
(* the highest number seen is created exactly once; a frame that comes     *)
(* after its stream was removed does not create it again.                  *)
CreatedOnce ==
  \A s \in StreamTypes, n \in 0..(MaxSeq - 1) :
    born[s][n] = (IF n < limits[s].used THEN 1 ELSE 0)

(* An announcement of limit k is still due, is in a packet that is built,  *)
(* watched or acknowledged, or was never needed.                           *)
Known(k) ==
  \/ limits[k].limit = Ini[k] \/ update[k]
  \/ Frame(k) \in built
  \/ \E p \in DOMAIN pkts : /\ Frame(k) \in pkts[p].frames
                           /\ (record[k] = p \/ pkts[p].rec = "ack")

(* A raised stream limit is never forgotten: with flag, limit and record   *)
(* under one lock the peer hears of it, whatever is lost.                  *)
StreamLimitKnown == \A s \in StreamTypes : Known(s)

(* conn_flow.h:25 says of update_max_data "don't get lock by yourself": it *)
(* is meant to be called from any thread.  A raised data limit is never    *)
(* forgotten (while no thread is inside update_max_data).                  *)
DataLimitKnown == accept_uni = "none" => Known("data")

(* The AutoIncreaser keeps what the peer may have open within bounds, if   *)
(* only its branch for bidirectional streams raises their limit (the       *)
(* branch for unidirectional ones, which does not count the bidirectional  *)
(* streams, is off, and so is the user): the open streams and those it may *)
(* still open stay below twice the initial limit, and below three times if *)
(* the user's thread can act on a count that is stale.                     *)
OpenBounded ==
  ~AutoUni /\ "bidi" \notin Raise =>
    Cardinality(remote.bidi) + avail_size(limits.bidi) < (1 + Cardinality(Threads)) * IniStreams

(* auto_increase_bidi_stream with remove_auto: when the peer may open no   *)
(* more bidirectional streams and all it opened have come to their end,    *)
(* send() removes them and the limit is raised.                            *)
BidiReplenished ==
  (remote.bidi \subseteq finished.bidi /\ avail_size(limits.bidi) = 0)
    ~> (avail_size(limits.bidi) > 0)
=============================================================================
