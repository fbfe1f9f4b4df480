-------------------------- MODULE SendStreamProofs --------------------------
(***************************************************************************)
(* The safety of the sending half of a stream, for every amount of data,   *)
(* number of packets, room, limit and error code.                          *)
(***************************************************************************)
EXTENDS SendStream, StreamFrameProofs, TLAPS

(* What a fragment kept for retransmission, or a STREAM frame, may be: the *)
(* user's bytes of a range that was sent, with FIN only at its end.        *)
(* (w and fw stand for written and fin_written.)                           *)
Sound(f, w, fw) ==
  /\ EndOf(f) <= w
  /\ f.fin => fw /\ EndOf(f) = w
  /\ \A k \in DOMAIN f.data : f.data[k] = f.offset + k

(* A RESET_STREAM exists only once "sent" is set, with the size and code *)
(* the stream keeps from then on.                                        *)
FrameOK(f, w, fw, flags, used, code) ==
  /\ f.type = "STREAM" => Sound(f, w, fw)
  /\ f.type = "RESET_STREAM" => "sent" \in flags /\ f.final_size = used /\ f.code = code

SoundNow(f) == Sound(f, written, fin_written)
FrameOKNow(f) == FrameOK(f, written, fin_written, reset_flags, flow.used, error_code)

DataInv ==
  /\ discarded <= written /\ written <= total
  /\ \A k \in DOMAIN src : src[k] = discarded + k

CreditInv ==
  /\ flow.used = written /\ written <= flow.limit
  /\ conn.used = other + written /\ conn.used <= conn.limit
  /\ ~applied => flow.limit = 0 /\ conn.limit = 0

StateInv ==
  /\ can_send => ~fin_written
  /\ "sent" \in reset_flags <=> state \in {"reset_sent", "reset_recved"}
  /\ state = "reset_sent" => reset_wait # 0
  /\ sending.pc \in {"retransmit", "new"} => state \notin {"reset_sent", "reset_recved"}
  /\ sending.pc = "idle" => sending = Idle
  /\ sending.pc # "idle" => sending.i >= 1

FragInv ==
  /\ \A k \in DOMAIN frags : SoundNow(frags[k])
  /\ \A k \in DOMAIN sending.tmp : SoundNow(sending.tmp[k])

FrameInv ==
  /\ \A p \in DOMAIN pkts : \A k \in DOMAIN pkts[p].frames : FrameOKNow(pkts[p].frames[k])
  /\ \A k \in DOMAIN sending.frames : FrameOKNow(sending.frames[k])

(* The inductive invariant. *)
IndInv == TypeOK /\ DataInv /\ CreditInv /\ StateInv /\ FragInv /\ FrameInv
-----------------------------------------------------------------------------
(* Sequences: where the elements of a list come from. *)

(* Erasing a list node keeps the other nodes. *)
LEMMA EraseElements ==
  ASSUME NEW S, NEW s \in Seq(S), NEW i \in 1..Len(s)
  PROVE  /\ erase(s, i) \in Seq(S)
         /\ \A k \in DOMAIN erase(s, i) : \E j \in DOMAIN s : erase(s, i)[k] = s[j]
<1> DEFINE a == SubSeq(s, 1, i - 1)
           b == SubSeq(s, i + 1, Len(s))
<1>1. a \in Seq(S) /\ Len(a) = i - 1 /\ \A k \in 1..Len(a) : a[k] = s[k]
  OBVIOUS
<1>2. b \in Seq(S) /\ Len(b) = Len(s) - i /\ \A k \in 1..Len(b) : b[k] = s[i + k]
  OBVIOUS
<1>3. erase(s, i) = a \o b
  BY DEF erase
<1> HIDE DEF a, b
<1>4. a \o b \in Seq(S) /\ Len(a \o b) = Len(s) - 1
  <2>1. a \in Seq(S) /\ b \in Seq(S)  BY <1>1, <1>2
  <2>2. a \o b \in Seq(S) /\ Len(a \o b) = Len(a) + Len(b)  BY <2>1
  <2>3. Len(a) = i - 1 /\ Len(b) = Len(s) - i  BY <1>1, <1>2
  <2>4. Len(s) \in Int /\ i \in Int  OBVIOUS
  <2> QED BY <2>2, <2>3, <2>4
<1>5. \A k \in 1..Len(a \o b) : (a \o b)[k] = IF k <= Len(a) THEN a[k] ELSE b[k - Len(a)]
  BY <1>1, <1>2
<1>6. ASSUME NEW k \in 1..Len(a \o b)
      PROVE  \E j \in DOMAIN s : (a \o b)[k] = s[j]
  <2>1. CASE k <= Len(a)
    <3>1. (a \o b)[k] = s[k] /\ k \in 1..Len(s)  BY <1>1, <1>4, <1>5, <2>1
    <3> QED BY <3>1
  <2>2. CASE k > Len(a)
    <3>1. (a \o b)[k] = b[k - Len(a)] /\ k - Len(a) \in 1..Len(b)
      BY <1>1, <1>2, <1>4, <1>5, <2>2
    <3>2. (a \o b)[k] = s[i + (k - Len(a))] /\ i + (k - Len(a)) \in 1..Len(s)
      BY <3>1, <1>1, <1>2
    <3> QED BY <3>2
  <2>3. k \in Int /\ Len(a) \in Int  BY <1>1, <1>4
  <2> QED BY <2>1, <2>2, <2>3
<1>7. DOMAIN (a \o b) = 1..Len(a \o b)
  BY <1>4
<1> QED BY <1>3, <1>4, <1>6, <1>7

(* Splicing two lists keeps the nodes of both. *)
LEMMA ConcatElements ==
  ASSUME NEW S, NEW s \in Seq(S), NEW t \in Seq(S)
  PROVE  /\ s \o t \in Seq(S)
         /\ \A k \in DOMAIN (s \o t) :
              \/ \E j \in DOMAIN s : (s \o t)[k] = s[j]
              \/ \E j \in DOMAIN t : (s \o t)[k] = t[j]
<1>1. s \o t \in Seq(S) /\ Len(s \o t) = Len(s) + Len(t)
  OBVIOUS
<1>2. ASSUME NEW k \in 1..Len(s \o t)
      PROVE  \/ \E j \in DOMAIN s : (s \o t)[k] = s[j]
             \/ \E j \in DOMAIN t : (s \o t)[k] = t[j]
  <2>1. CASE k <= Len(s)
    <3>1. k \in DOMAIN s /\ (s \o t)[k] = s[k]  BY <2>1, <1>1
    <3> QED BY <3>1
  <2>2. CASE k > Len(s)
    <3>1. k - Len(s) \in DOMAIN t /\ (s \o t)[k] = t[k - Len(s)]  BY <2>2, <1>1
    <3> QED BY <3>1
  <2>3. k \in Int /\ Len(s) \in Int  BY <1>1
  <2> QED BY <2>1, <2>2, <2>3
<1> QED BY <1>1, <1>2

(* Appending a node keeps the others. *)
LEMMA AppendElements ==
  ASSUME NEW S, NEW s \in Seq(S), NEW e \in S
  PROVE  /\ Append(s, e) \in Seq(S)
         /\ \A k \in DOMAIN Append(s, e) :
              Append(s, e)[k] = e \/ \E j \in DOMAIN s : Append(s, e)[k] = s[j]
<1>1. Append(s, e) \in Seq(S) /\ Len(Append(s, e)) = Len(s) + 1
  OBVIOUS
<1>2. ASSUME NEW k \in 1..Len(Append(s, e))
      PROVE  Append(s, e)[k] = e \/ \E j \in DOMAIN s : Append(s, e)[k] = s[j]
  <2>1. CASE k <= Len(s)
    <3>1. k \in DOMAIN s /\ Append(s, e)[k] = s[k]  BY <2>1, <1>1
    <3> QED BY <3>1
  <2>2. CASE k > Len(s)
    <3>1. Append(s, e)[k] = e  BY <2>2, <1>1
    <3> QED BY <3>1
  <2>3. k \in Int /\ Len(s) \in Int  BY <1>1
  <2> QED BY <2>1, <2>2, <2>3
<1> QED BY <1>1, <1>2

(* The tail of a list after its first d nodes. *)
LEMMA TailElements ==
  ASSUME NEW S, NEW s \in Seq(S), NEW d \in 0..Len(s)
  PROVE  /\ SubSeq(s, d + 1, Len(s)) \in Seq(S)
         /\ Len(SubSeq(s, d + 1, Len(s))) = Len(s) - d
         /\ \A k \in 1..(Len(s) - d) : SubSeq(s, d + 1, Len(s))[k] = s[d + k]
OBVIOUS

LEMMA HeadElements ==
  ASSUME NEW S, NEW s \in Seq(S), NEW d \in 0..Len(s)
  PROVE  SubSeq(s, 1, d) \in Seq(S)
OBVIOUS

(* The least of two or three numbers is one of them. *)
LEMMA MinOfTwo ==
  ASSUME NEW a \in Int, NEW b \in Int
  PROVE  Min({a, b}) \in {a, b} /\ Min({a, b}) <= a /\ Min({a, b}) <= b
<1>1. \E x \in {a, b} : \A y \in {a, b} : x <= y
  <2>1. CASE a <= b  BY <2>1
  <2>2. CASE b < a  BY <2>2
  <2> QED BY <2>1, <2>2
<1> QED BY <1>1 DEF Min

LEMMA MinOfThree ==
  ASSUME NEW a \in Int, NEW b \in Int, NEW c \in Int
  PROVE  /\ Min({a, b, c}) \in {a, b, c}
         /\ Min({a, b, c}) <= a /\ Min({a, b, c}) <= b /\ Min({a, b, c}) <= c
<1>1. \E x \in {a, b, c} : \A y \in {a, b, c} : x <= y
  <2>1. CASE a <= b /\ a <= c  BY <2>1
  <2>2. CASE b < a /\ b <= c  BY <2>2
  <2>3. CASE c < a /\ c < b  BY <2>3
  <2>4. CASE a <= b /\ c < a  BY <2>4
  <2>5. CASE b < a /\ c < b  BY <2>5
  <2> QED BY <2>1, <2>2, <2>3, <2>4, <2>5
<1> QED BY <1>1 DEF Min
-----------------------------------------------------------------------------
(* Fragments and frames *)

(* Fragments stay as they are, or are dropped with the call that held them. *)
LEMMA FragStays ==
  ASSUME FragInv, UNCHANGED <<frags, written, fin_written>>,
         sending'.tmp = sending.tmp \/ sending'.tmp = <<>>
  PROVE  FragInv'
BY DEF FragInv, SoundNow

(* What a step may change without touching the frames written before it. *)
FramesUntouched ==
  /\ UNCHANGED <<written, fin_written, error_code>>
  /\ flow'.used = flow.used
  /\ "sent" \in reset_flags => "sent" \in reset_flags'

LEMMA FrameKept ==
  ASSUME FramesUntouched
  PROVE  \A f : FrameOKNow(f) =>
           FrameOK(f, written', fin_written', reset_flags', flow'.used, error_code')
BY DEF FramesUntouched, FrameOKNow, FrameOK

(* A step that writes no frame keeps the frames sound. *)
LEMMA FrameStays ==
  ASSUME FrameInv, FramesUntouched, UNCHANGED pkts,
         sending'.frames = sending.frames \/ sending'.frames = <<>>
  PROVE  FrameInv'
BY FrameKept DEF FrameInv, FrameOKNow

LEMMA IdleType == Idle \in Sending /\ Idle.frames = <<>> /\ Idle.tmp = <<>> /\ Idle.pc = "idle"
BY DEF Idle, Sending

(* The record of the running call, updated field by field. *)
LEMMA SendingFields ==
  ASSUME NEW s \in Sending
  PROVE  /\ \A x \in {"idle", "detect", "retransmit", "new"} : [s EXCEPT !.pc = x] \in Sending
         /\ \A x \in Nat : [s EXCEPT !.room = x] \in Sending
         /\ \A x \in Nat : [s EXCEPT !.i = x] \in Sending
         /\ \A x \in Seq(FrameType) : [s EXCEPT !.frames = x] \in Sending
         /\ \A x \in Seq(Frag) : [s EXCEPT !.tmp = x] \in Sending
         /\ [s EXCEPT !.observed = TRUE] \in Sending
BY DEF Sending

LEMMA SendingBegin ==
  ASSUME NEW pc \in {"detect", "retransmit", "new"}, NEW room \in Nat,
         NEW s, s = Begin(pc, room)
  PROVE  s \in Sending /\ s.pc = pc /\ s.i = 1 /\ s.frames = <<>> /\ s.tmp = <<>>
<1>1. [Idle EXCEPT !.pc = pc] \in Sending  BY IdleType, SendingFields
<1>2. [Idle EXCEPT !.pc = pc, !.room = room] \in Sending  BY <1>1, SendingFields
<1>3. [Idle EXCEPT !.pc = pc, !.room = room, !.i = 1] \in Sending  BY <1>2, SendingFields
<1>4. s.pc = pc /\ s.i = 1  BY DEF Idle, Begin
<1>5. s.frames = <<>> /\ s.tmp = <<>>  BY DEF Idle, Begin
<1> QED BY <1>3, <1>4, <1>5 DEF Begin

LEMMA SendingNext ==
  ASSUME NEW s \in Sending, NEW t,
         \/ t = [s EXCEPT !.i = s.i + 1]
         \/ t = [s EXCEPT !.i = s.i + 1, !.observed = TRUE]
  PROVE  /\ t \in Sending /\ t.pc = s.pc /\ t.frames = s.frames /\ t.tmp = s.tmp
         /\ t.i = s.i + 1 /\ s.i \in Nat
<1>1. s.i \in Nat  BY DEF Sending
<1>2. [s EXCEPT !.i = s.i + 1] \in Sending  BY <1>1 DEF Sending
<1>3. [s EXCEPT !.i = s.i + 1, !.observed = TRUE] \in Sending  BY <1>2, SendingFields
<1>4. t \in Sending  BY <1>2, <1>3
<1> QED BY <1>1, <1>4 DEF Sending

(* Rebinding the record a node waits for. *)
LEMMA RebindElements ==
  ASSUME NEW s \in Seq(Frag), NEW i \in 1..Len(s), NEW w \in Nat
  PROVE  LET t == [s EXCEPT ![i].wait = w]
         IN  /\ t \in Seq(Frag) /\ DOMAIN t = DOMAIN s
             /\ \A k \in DOMAIN s : t[k].offset = s[k].offset /\ t[k].data = s[k].data
                                    /\ t[k].fin = s[k].fin
<1> DEFINE e == [s[i] EXCEPT !.wait = w]
           t == [s EXCEPT ![i] = e]
<1>1. s[i] \in Frag  OBVIOUS
<1>2. e \in Frag /\ e.offset = s[i].offset /\ e.data = s[i].data /\ e.fin = s[i].fin
  BY <1>1 DEF Frag
<1> HIDE DEF e
<1>3. t \in Seq(Frag) /\ DOMAIN t = DOMAIN s /\ \A k \in DOMAIN s : t[k] = IF k = i THEN e ELSE s[k]
  BY <1>2
<1>4. \A k \in DOMAIN s : t[k].offset = s[k].offset /\ t[k].data = s[k].data /\ t[k].fin = s[k].fin
  BY <1>2, <1>3
<1> QED BY <1>3, <1>4 DEF e

LEMMA PacketFrames ==
  ASSUME TypeOK
  PROVE  \A p \in DOMAIN pkts : \A k \in DOMAIN pkts[p].frames : pkts[p].frames[k] \in FrameType
<1> SUFFICES ASSUME NEW p \in DOMAIN pkts, NEW k \in DOMAIN pkts[p].frames
             PROVE  pkts[p].frames[k] \in FrameType
  OBVIOUS
<1>1. pkts[p] \in Packet  BY DEF TypeOK
<1>2. pkts[p].frames \in Seq(FrameType)  BY <1>1 DEF Packet
<1> QED BY <1>2

(* The end of a call adds at most one packet, with the frames it wrote. *)
LEMMA ReturnFrames ==
  ASSUME TypeOK, NEW s, s.frames \in Seq(FrameType), s.observed \in BOOLEAN, Return(s),
         \A p \in DOMAIN pkts : \A k \in DOMAIN pkts[p].frames :
           FrameOK(pkts[p].frames[k], written', fin_written', reset_flags', flow'.used, error_code'),
         \A k \in DOMAIN s.frames :
           FrameOK(s.frames[k], written', fin_written', reset_flags', flow'.used, error_code')
  PROVE  pkts' \in Seq(Packet) /\ sending' = Idle /\ FrameInv'
<1> DEFINE new == [rec |-> "wait", frames |-> s.frames]
<1>1. new \in Packet  BY DEF Packet
<1>2. pkts \in Seq(Packet)  BY DEF TypeOK
<1>3. pkts' = pkts \/ pkts' = Append(pkts, new)  BY DEF Return
<1>4. sending' = Idle  BY DEF Return
<1> HIDE DEF new
<1>5. pkts' \in Seq(Packet)
      /\ \A p \in DOMAIN pkts' : pkts'[p] = new \/ \E q \in DOMAIN pkts : pkts'[p] = pkts[q]
  <2>1. CASE pkts' = pkts  BY <1>2, <2>1
  <2>2. CASE pkts' = Append(pkts, new)
    <3>1. /\ Append(pkts, new) \in Seq(Packet)
          /\ \A p \in DOMAIN Append(pkts, new) :
               Append(pkts, new)[p] = new \/ \E q \in DOMAIN pkts : Append(pkts, new)[p] = pkts[q]
      BY <1>1, <1>2, AppendElements
    <3> QED BY <2>2, <3>1
  <2> QED BY <1>3, <2>1, <2>2
<1>6. new.frames = s.frames  BY DEF new
<1>7. \A p \in DOMAIN pkts' : \A k \in DOMAIN pkts'[p].frames :
        FrameOK(pkts'[p].frames[k], written', fin_written', reset_flags', flow'.used, error_code')
  BY <1>5, <1>6
<1>8. DOMAIN sending'.frames = {}  BY <1>4, IdleType
<1> QED BY <1>4, <1>5, <1>7, <1>8 DEF FrameInv, FrameOKNow

(* A part of a sound fragment is sound, FIN only on the last part. *)
LEMMA SoundPart ==
  ASSUME NEW f, f.offset \in Nat, f.data \in Seq(Nat), NEW w \in Nat, NEW fw, Sound(f, w, fw),
         NEW n \in 0..Len(f.data), NEW g, g.offset = f.offset, g.data = SubSeq(f.data, 1, n),
         g.fin => f.fin /\ n = Len(f.data)
  PROVE  Sound(g, w, fw)
<1>1. Len(g.data) = n /\ DOMAIN g.data = 1..n /\ \A k \in 1..n : g.data[k] = f.data[k]
  OBVIOUS
<1>2. EndOf(g) <= w  BY <1>1 DEF Sound, EndOf
<1>3. g.fin => fw /\ EndOf(g) = w  BY <1>1 DEF Sound, EndOf
<1>4. \A k \in DOMAIN g.data : g.data[k] = g.offset + k  BY <1>1 DEF Sound
<1> QED BY <1>2, <1>3, <1>4 DEF Sound

LEMMA SoundRest ==
  ASSUME NEW f, f.offset \in Nat, f.data \in Seq(Nat), NEW w \in Nat, NEW fw, Sound(f, w, fw),
         NEW n \in 0..Len(f.data),
         NEW g, g.offset = f.offset + n, g.data = SubSeq(f.data, n + 1, Len(f.data)),
         g.fin => f.fin
  PROVE  Sound(g, w, fw)
<1>1. /\ Len(g.data) = Len(f.data) - n /\ DOMAIN g.data = 1..Len(g.data)
      /\ \A k \in 1..Len(g.data) : g.data[k] = f.data[n + k]
  OBVIOUS
<1>2. EndOf(g) = EndOf(f)  BY <1>1 DEF EndOf
<1>3. ASSUME NEW k \in 1..Len(g.data)  PROVE  g.data[k] = g.offset + k
  <2>1. n + k \in DOMAIN f.data  BY <1>1
  <2>2. f.data[n + k] = f.offset + (n + k)  BY <2>1 DEF Sound
  <2>3. g.data[k] = f.data[n + k]  BY <1>1
  <2>4. g.data[k] = f.offset + (n + k)  BY <2>2, <2>3
  <2>5. f.offset \in Nat /\ n \in Nat /\ k \in Nat  BY <1>1
  <2> QED BY <2>4, <2>5
<1> QED BY <1>1, <1>2, <1>3 DEF Sound
-----------------------------------------------------------------------------
(* The data and the credit send_impl works with *)

LEMMA GetRemain ==
  ASSUME TypeOK, DataInv, NEW l \in Nat
  PROVE  /\ get_remain(l) \in Seq(Nat)
         /\ Len(get_remain(l)) <= l /\ Len(get_remain(l)) <= remain
         /\ \A k \in DOMAIN get_remain(l) : get_remain(l)[k] = written + k
<1> DEFINE from == written - discarded
           m    == Min({from + l, Len(src)})
           r    == SubSeq(src, from + 1, m)
<1>1. src \in Seq(Nat) /\ Len(src) \in Nat /\ written \in Nat /\ discarded \in Nat
  BY DEF TypeOK
<1>2. from \in 0..Len(src)  BY <1>1 DEF DataInv, total
<1>3. m \in 0..Len(src) /\ m <= from + l /\ m >= from
  <2>1. from + l \in Int /\ Len(src) \in Int  BY <1>1, <1>2
  <2>2. m \in {from + l, Len(src)} /\ m <= from + l /\ m <= Len(src)  BY <2>1, MinOfTwo
  <2> HIDE DEF m
  <2> QED BY <2>2, <1>1, <1>2
<1>4. get_remain(l) = r  BY DEF get_remain
<1> HIDE DEF m
<1>5. r \in Seq(Nat) /\ Len(r) = m - from /\ \A k \in 1..Len(r) : r[k] = src[from + k]
  BY <1>1, <1>2, <1>3
<1> HIDE DEF r
<1>6. Len(r) <= l /\ Len(r) <= remain
  BY <1>1, <1>2, <1>3, <1>5 DEF remain, total
<1>7. ASSUME NEW k \in 1..Len(r)  PROVE  r[k] = written + k
  <2>1. from + k \in DOMAIN src  BY <1>1, <1>2, <1>3, <1>5
  <2>2. src[from + k] = discarded + (from + k)  BY <2>1 DEF DataInv
  <2> QED BY <2>2, <1>1, <1>5
<1>8. DOMAIN r = 1..Len(r)  BY <1>5
<1> QED BY <1>4, <1>5, <1>6, <1>7, <1>8

LEMMA FlowControlLimit ==
  ASSUME TypeOK, DataInv
  PROVE  /\ flow_control_limit \in Nat
         /\ flow_control_limit <= avail_size(flow) /\ flow_control_limit <= avail_size(conn)
<1>1. avail_size(flow) \in Nat /\ avail_size(conn) \in Nat
  BY Border8Assumption DEF TypeOK, LimiterType, avail_size
<1>2. remain \in Nat /\ FairnessLimit \in Nat
  BY SendAssumption DEF TypeOK, DataInv, remain, total
<1>3. /\ payload_limit \in {remain, FairnessLimit, avail_size(flow)}
      /\ payload_limit <= avail_size(flow)
  <2>1. remain \in Int /\ FairnessLimit \in Int /\ avail_size(flow) \in Int  BY <1>1, <1>2
  <2> QED BY <2>1, MinOfThree DEF payload_limit
<1>4. payload_limit \in Nat  BY <1>1, <1>2, <1>3
<1>5. /\ flow_control_limit \in {avail_size(conn), payload_limit}
      /\ flow_control_limit <= avail_size(conn) /\ flow_control_limit <= payload_limit
  <2>1. avail_size(conn) \in Int /\ payload_limit \in Int  BY <1>1, <1>4
  <2> QED BY <2>1, MinOfTwo DEF flow_control_limit
<1> QED BY <1>1, <1>3, <1>4, <1>5

(* What send_impl is about to send is within the data and both credits. *)
LEMMA NewFitFacts ==
  ASSUME TypeOK, DataInv, sending.room \in Nat
  PROVE  LET r == get_remain(flow_control_limit)
         IN  /\ NewFit \in [ok : BOOLEAN, len : 0..Len(r), fin : BOOLEAN, size : 0..sending.room]
             /\ NewFit.ok /\ NewFit.fin => fin /\ ~fin_written
             /\ NewFit.len <= avail_size(flow) /\ NewFit.len <= avail_size(conn)
             /\ NewFit.len <= remain
<1> DEFINE r == get_remain(flow_control_limit)
<1>1. r \in Seq(Nat) /\ Len(r) \in Nat /\ Len(r) <= flow_control_limit /\ Len(r) <= remain
  BY FlowControlLimit, GetRemain
<1>2. should_fin \in BOOLEAN /\ Id \in Nat /\ written \in Nat
  BY SendAssumption DEF should_fin, TypeOK
<1>3. NewFit = make_fit_size_Stream(sending.room, Id, written, Len(r), should_fin, should_fin)
  BY DEF NewFit
<1> HIDE DEF r
<1>4. /\ NewFit \in [ok : BOOLEAN, len : 0..Len(r), fin : BOOLEAN, size : 0..sending.room]
      /\ NewFit.ok /\ NewFit.fin => should_fin
  BY <1>1, <1>2, <1>3, MakeFitSizeStream
<1>5. NewFit.len \in Nat /\ NewFit.len <= Len(r)  BY <1>1, <1>4
<1>6. avail_size(flow) \in Nat /\ avail_size(conn) \in Nat /\ remain \in Nat
  <2>1. flow \in LimiterType /\ conn \in LimiterType  BY DEF TypeOK
  <2>2. avail_size(flow) \in Nat /\ avail_size(conn) \in Nat
    BY <2>1, Border8Assumption DEF LimiterType, avail_size
  <2>3. total \in Nat /\ written \in Nat /\ written <= total  BY DEF TypeOK, total, DataInv
  <2>4. remain \in Nat  BY <2>3 DEF remain
  <2> QED BY <2>2, <2>4
<1>7. NewFit.len <= avail_size(flow) /\ NewFit.len <= avail_size(conn) /\ NewFit.len <= remain
  BY <1>1, <1>5, <1>6, FlowControlLimit
<1> QED BY <1>4, <1>7 DEF r, should_fin
-----------------------------------------------------------------------------
(* The initial state, and one step per action *)

LEMMA InitInv == Init => IndInv
<1> SUFFICES ASSUME Init  PROVE  IndInv
  OBVIOUS
<1>1. TypeOK
  <2>1. NewLimiter \in LimiterType  BY Border8Assumption DEF NewLimiter, LimiterType
  <2>2. <<>> \in Seq(Nat) /\ <<>> \in Seq(Frag) /\ <<>> \in Seq(Packet)  OBVIOUS
  <2>3. {} \subseteq ResetFlag /\ "ready" \in SendState  BY DEF SendState
  <2> QED BY <2>1, <2>2, <2>3, IdleType DEF Init, TypeOK
<1>2. DataInv  BY DEF Init, DataInv, total
<1>3. CreditInv  BY DEF Init, CreditInv, NewLimiter
<1>4. StateInv  BY IdleType DEF Init, StateInv, can_send
<1>5. FragInv  BY IdleType DEF Init, FragInv
<1>6. FrameInv  BY IdleType DEF Init, FrameInv
<1> QED BY <1>1, <1>2, <1>3, <1>4, <1>5, <1>6 DEF IndInv

(* Dropping the bytes already sent keeps the offsets of the others. *)
LEMMA DropSent ==
  ASSUME TypeOK, DataInv
  PROVE  LET kept == SubSeq(src, written - discarded + 1, Len(src))
         IN  /\ kept \in Seq(Nat) /\ Len(kept) = Len(src) - (written - discarded)
             /\ \A k \in DOMAIN kept : kept[k] = written + k
<1> DEFINE d == written - discarded
           kept == SubSeq(src, d + 1, Len(src))
<1>1. src \in Seq(Nat) /\ written \in Nat /\ discarded \in Nat /\ d \in 0..Len(src)
  BY DEF TypeOK, DataInv, total
<1>2. written = discarded + d  BY <1>1
<1>3. \A j \in 1..Len(src) : src[j] = discarded + j  BY <1>1 DEF DataInv
<1>4. SUFFICES /\ kept \in Seq(Nat) /\ Len(kept) = Len(src) - d
               /\ \A k \in DOMAIN kept : kept[k] = written + k
  OBVIOUS
<1> HIDE DEF d
<1>5. /\ kept \in Seq(Nat) /\ Len(kept) = Len(src) - d
      /\ \A k \in 1..(Len(src) - d) : kept[k] = src[d + k]
  BY <1>1, TailElements
<1> HIDE DEF kept
<1>6. ASSUME NEW k \in 1..(Len(src) - d)  PROVE  kept[k] = written + k
  <2>1. d + k \in 1..Len(src) /\ k \in Nat /\ d \in Nat  BY <1>1
  <2>2. kept[k] = discarded + (d + k)  BY <1>3, <1>5, <2>1
  <2> QED BY <1>1, <1>2, <2>1, <2>2
<1> QED BY <1>5, <1>6

(* Writing changes the buffer only: bytes keep their offsets. *)
LEMMA WriteStep ==
  ASSUME IndInv, NEW n \in Nat, NEW is_fin \in BOOLEAN, NEW discard \in BOOLEAN,
         write_ex(n, is_fin, discard)
  PROVE  IndInv'
<1> USE DEF IndInv
<1> DEFINE kept == IF discard THEN SubSeq(src, written - discarded + 1, Len(src)) ELSE src
           at   == IF discard THEN written ELSE discarded
<1>1. src \in Seq(Nat) /\ written \in Nat /\ discarded \in Nat /\ discarded <= written
      /\ written <= Len(src) + discarded
  BY DEF TypeOK, DataInv, total
<1>2. /\ kept \in Seq(Nat) /\ at \in Nat /\ Len(kept) + at = Len(src) + discarded
      /\ \A k \in DOMAIN kept : kept[k] = at + k
  <2>1. CASE ~discard  BY <1>1, <2>1 DEF DataInv
  <2>2. CASE discard
    <3>1. kept = SubSeq(src, written - discarded + 1, Len(src)) /\ at = written  BY <2>2
    <3> HIDE DEF kept, at
    <3>2. /\ kept \in Seq(Nat) /\ Len(kept) = Len(src) - (written - discarded)
          /\ \A k \in DOMAIN kept : kept[k] = written + k
      BY <3>1, DropSent
    <3> QED BY <1>1, <3>1, <3>2
  <2> QED BY <2>1, <2>2
<1>3. src' = kept \o NextBytes(n) /\ discarded' = at  BY DEF write_ex
<1>4. /\ NextBytes(n) \in Seq(Nat) /\ Len(NextBytes(n)) = n
      /\ \A k \in 1..n : NextBytes(n)[k] = total + k
  BY <1>1 DEF NextBytes, total
<1> HIDE DEF kept, at
<1>5. /\ src' \in Seq(Nat) /\ Len(src') = Len(kept) + n
      /\ \A k \in DOMAIN src' : src'[k] = discarded' + k
  <2>1. src' \in Seq(Nat) /\ Len(src') = Len(kept) + n  BY <1>2, <1>3, <1>4
  <2>2. ASSUME NEW k \in 1..Len(src')  PROVE  src'[k] = discarded' + k
    <3>1. CASE k <= Len(kept)  BY <1>2, <1>3, <1>4, <2>1, <3>1
    <3>2. CASE k > Len(kept)
      <4>1. src'[k] = NextBytes(n)[k - Len(kept)] /\ k - Len(kept) \in 1..n
        BY <1>2, <1>3, <1>4, <2>1, <3>2
      <4>2. src'[k] = total + (k - Len(kept))  BY <1>4, <4>1
      <4>3. total = Len(kept) + discarded' /\ k \in Nat /\ Len(kept) \in Nat /\ discarded' \in Nat
        BY <1>1, <1>2, <1>3, <2>1 DEF total
      <4> QED BY <4>2, <4>3
    <3> QED BY <1>2, <2>1, <3>1, <3>2
  <2> QED BY <2>1, <2>2
<1>6. TypeOK'  BY <1>2, <1>3, <1>5 DEF TypeOK, write_ex, stateVars, connVars
<1>7. DataInv'
  <2>1. discarded' <= written'  BY <1>1, <1>3 DEF write_ex, at
  <2>2. written' <= Len(src') + discarded'  BY <1>1, <1>2, <1>3, <1>5 DEF write_ex
  <2> QED BY <1>5, <2>1, <2>2 DEF DataInv, total
<1>8. CreditInv'  BY DEF CreditInv, write_ex, stateVars, connVars
<1>9. StateInv'  BY DEF StateInv, can_send, write_ex, stateVars
<1>10. FragInv'  BY FragStays DEF write_ex
<1>11. FrameInv'  BY FrameStays DEF write_ex, FramesUntouched, stateVars
<1> QED BY <1>6, <1>7, <1>8, <1>9, <1>10, <1>11

LEMMA DiscardStep ==
  ASSUME IndInv, discard_written_data
  PROVE  IndInv'
<1> USE DEF IndInv
<1>1. written \in Nat /\ discarded \in Nat /\ Len(src) \in Nat /\ written <= Len(src) + discarded
  BY DEF TypeOK, DataInv, total
<1>2. discarded' = written /\ written' = written
  BY DEF discard_written_data
<1>3. /\ src' \in Seq(Nat) /\ Len(src') = Len(src) - (written - discarded)
      /\ \A k \in DOMAIN src' : src'[k] = written + k
  BY DropSent DEF discard_written_data
<1>6. TypeOK'  BY <1>1, <1>2, <1>3 DEF TypeOK, discard_written_data, stateVars, connVars
<1>7. DataInv'  BY <1>1, <1>2, <1>3 DEF DataInv, total
<1>8. CreditInv'  BY DEF CreditInv, discard_written_data, stateVars, connVars
<1>9. StateInv'  BY DEF StateInv, can_send, discard_written_data, stateVars
<1>10. FragInv'  BY FragStays DEF discard_written_data
<1>11. FrameInv'  BY FrameStays DEF discard_written_data, FramesUntouched, stateVars
<1> QED BY <1>6, <1>7, <1>8, <1>9, <1>10, <1>11

(* A reset request: no RESET_STREAM was sent yet, so its code may change. *)
LEMMA SetErrorCodeStep ==
  ASSUME IndInv, NEW code \in Codes, NEW flag \in {"by_local", "by_peer"},
         set_error_code(code, flag)
  PROVE  IndInv'
<1> USE DEF IndInv
<1>1. "sent" \notin reset_flags  BY DEF StateInv, set_error_code, can_reset
<1>2. /\ reset_flags' = reset_flags \cup {flag} /\ error_code' = code
      /\ UNCHANGED <<state, flow, dataVars, frags, reset_wait, connVars, pkts, sending>>
  BY DEF set_error_code
<1>3. TypeOK'
  BY <1>2, SendAssumption DEF TypeOK, ResetFlag, dataVars, connVars
<1>4. DataInv' /\ CreditInv'  BY <1>2 DEF DataInv, total, CreditInv, dataVars, connVars
<1>5. StateInv'  BY <1>1, <1>2 DEF StateInv, can_send, dataVars
<1>6. FragInv'  BY <1>2, FragStays DEF dataVars
<1>7. FrameInv'
  <2>1. ASSUME NEW f, FrameOKNow(f)
        PROVE  FrameOK(f, written', fin_written', reset_flags', flow'.used, error_code')
    BY <1>1, <1>2, <2>1 DEF FrameOKNow, FrameOK, dataVars
  <2> QED BY <1>2, <2>1 DEF FrameInv, FrameOKNow
<1> QED BY <1>3, <1>4, <1>5, <1>6, <1>7

(* Credit only grows while frames are out: the first grant finds nothing sent. *)
LEMMA CreditStep ==
  ASSUME IndInv, Credit
  PROVE  IndInv'
<1> USE DEF IndInv
<1>1. flow \in LimiterType /\ conn \in LimiterType /\ written \in Nat /\ other \in Nat
      /\ flow.limit \in Nat /\ conn.limit \in Nat /\ flow.used \in Nat /\ conn.used \in Nat
  BY Border8Assumption DEF TypeOK, LimiterType
<1>2. SUFFICES ASSUME /\ flow' \in LimiterType /\ conn' \in LimiterType /\ other' \in Nat
                      /\ applied' \in BOOLEAN /\ flow'.used = flow.used /\ CreditInv'
                      /\ UNCHANGED <<state, error_code, reset_flags, dataVars, frags,
                                     reset_wait, pkts, sending>>
               PROVE  IndInv'
  <2>1. CASE apply_peer_initial_limits
    <3>1. /\ ~applied /\ applied' = TRUE /\ other' = other
          /\ flow' = [flow EXCEPT !.limit = InitialLimit]
          /\ conn' = [conn EXCEPT !.limit = ConnLimit]
          /\ UNCHANGED <<state, error_code, reset_flags, dataVars, frags, reset_wait, pkts, sending>>
      <4>1. InitialLimit < Border8 /\ ConnLimit < Border8
        BY SendAssumption, Border8Assumption
      <4> QED BY <2>1, <4>1 DEF apply_peer_initial_limits, set_limit
    <3>2. flow' \in LimiterType /\ conn' \in LimiterType
      BY <1>1, <3>1, SendAssumption DEF LimiterType
    <3>3. flow'.used = flow.used /\ conn'.used = conn.used /\ written' = written
          /\ flow'.limit \in Nat /\ conn'.limit \in Nat
      BY <1>1, <3>1, <3>2, SendAssumption DEF LimiterType, dataVars
    <3>4. written = 0 /\ conn.used = 0 /\ other = 0  BY <1>1, <3>1 DEF CreditInv
    <3>5. CreditInv'  BY <1>1, <3>1, <3>3, <3>4 DEF CreditInv
    <3>6. other' \in Nat /\ applied' \in BOOLEAN  BY <1>1, <3>1
    <3> QED BY <1>2, <3>1, <3>2, <3>3, <3>5, <3>6
  <2>2. ASSUME NEW l \in NewLimits, recv_max_stream_data(l)  PROVE  IndInv'
    <3>1. /\ applied /\ l > flow.limit /\ flow' = [flow EXCEPT !.limit = l]
          /\ UNCHANGED <<state, error_code, reset_flags, dataVars, frags, reset_wait, connVars, pkts, sending>>
      BY <2>2 DEF recv_max_stream_data, update_limit_ok, update_limit
    <3>2. l \in Nat /\ flow' \in LimiterType  BY <1>1, <3>1, SendAssumption DEF LimiterType
    <3>3. flow'.used = flow.used /\ flow'.limit = l  BY <1>1, <3>1 DEF LimiterType
    <3>4. CreditInv'  BY <1>1, <3>1, <3>2, <3>3 DEF CreditInv, dataVars, connVars
    <3>5. conn' \in LimiterType /\ other' \in Nat /\ applied' \in BOOLEAN
      BY <3>1 DEF connVars, TypeOK
    <3> QED BY <1>2, <3>1, <3>2, <3>3, <3>4, <3>5
  <2>3. ASSUME NEW l \in NewLimits, recv_max_data(l)  PROVE  IndInv'
    <3>1. /\ applied /\ l > conn.limit /\ conn' = [conn EXCEPT !.limit = l]
          /\ UNCHANGED <<flow, other, applied>>
          /\ UNCHANGED <<state, error_code, reset_flags, dataVars, frags, reset_wait, pkts, sending>>
      BY <2>3 DEF recv_max_data, update_limit_ok, update_limit, stateVars
    <3>2. l \in Nat /\ conn' \in LimiterType  BY <1>1, <3>1, SendAssumption DEF LimiterType
    <3>3. conn'.used = conn.used /\ conn'.limit = l  BY <1>1, <3>1 DEF LimiterType
    <3>4. CreditInv'  BY <1>1, <3>1, <3>2, <3>3 DEF CreditInv, dataVars
    <3>5. flow' \in LimiterType /\ other' \in Nat /\ applied' \in BOOLEAN
      BY <3>1 DEF TypeOK
    <3> QED BY <1>2, <3>1, <3>2, <3>4, <3>5
  <2>4. ASSUME NEW n \in OtherUse, use_send_credit(n)  PROVE  IndInv'
    <3>1. /\ avail_size(conn) >= n /\ conn' = [conn EXCEPT !.used = conn.used + n]
          /\ other' = other + n /\ UNCHANGED <<flow, applied>>
          /\ UNCHANGED <<state, error_code, reset_flags, dataVars, frags, reset_wait, pkts, sending>>
      <4>1. n \in Nat /\ avail_size(conn) \in Nat  BY <1>1, SendAssumption DEF avail_size
      <4> QED BY <2>4, <4>1 DEF use_send_credit, use_ok, use, on_limit, stateVars
    <3>2. n \in Nat /\ conn' \in LimiterType  BY <1>1, <3>1, SendAssumption DEF LimiterType
    <3>3. conn'.used = conn.used + n /\ conn'.limit = conn.limit  BY <1>1, <3>1 DEF LimiterType
    <3>4. conn.used + n <= conn.limit
      BY <1>1, <3>1, <3>2 DEF avail_size, CreditInv
    <3>5. CreditInv'  BY <1>1, <3>1, <3>2, <3>3, <3>4 DEF CreditInv, dataVars
    <3>6. flow' \in LimiterType /\ other' \in Nat /\ applied' \in BOOLEAN
      BY <1>1, <3>1, <3>2 DEF TypeOK
    <3> QED BY <1>2, <3>1, <3>2, <3>5, <3>6
  <2> QED BY <2>1, <2>2, <2>3, <2>4 DEF Credit
<1>3. TypeOK'  BY <1>2 DEF TypeOK, dataVars
<1>4. DataInv'  BY <1>2 DEF DataInv, total, dataVars
<1>5. StateInv'  BY <1>2 DEF StateInv, can_send, dataVars
<1>6. FragInv'  BY <1>2, FragStays DEF dataVars
<1>7. FrameInv'  BY <1>2, FrameStays DEF FramesUntouched, dataVars
<1> QED BY <1>2, <1>3, <1>4, <1>5, <1>6, <1>7

(* A call that leaves data, credit, frames and flags alone. *)
LEMMA QuietStep ==
  ASSUME IndInv,
         UNCHANGED <<flow, error_code, reset_flags, dataVars, connVars>>,
         state' \in SendState, reset_wait' \in Nat, StateInv',
         pkts' \in Seq(Packet), sending' \in Sending, frags' \in Seq(Frag),
         FragInv', FrameInv'
  PROVE  IndInv'
<1> USE DEF IndInv
<1>1. TypeOK'  BY DEF TypeOK, dataVars, connVars
<1>2. DataInv' /\ CreditInv'  BY DEF DataInv, total, CreditInv, dataVars, connVars
<1> QED BY <1>1, <1>2

LEMMA SendResetStep ==
  ASSUME IndInv, NEW room \in Rooms,
         send_reset(room) \/ send_retransmit_reset(room)
  PROVE  IndInv'
<1> USE DEF IndInv
<1> DEFINE s == [Idle EXCEPT !.frames = <<ResetFrame>>, !.observed = TRUE]
<1>1. /\ Return(s) /\ reset_wait' = Current /\ state' = "reset_sent"
      /\ UNCHANGED <<flow, error_code, dataVars, frags, connVars>>
      /\ "sent" \in reset_flags' /\ reset_flags' \subseteq ResetFlag
  <2>1. CASE send_reset(room)  BY <2>1 DEF send_reset, TypeOK, ResetFlag
  <2>2. CASE send_retransmit_reset(room)
    BY <2>2 DEF send_retransmit_reset, stateVars, TypeOK, StateInv
  <2> QED BY <2>1, <2>2
<1>2. ResetFrame \in FrameType /\ ResetFrame.type = "RESET_STREAM"
      /\ ResetFrame.final_size = flow.used /\ ResetFrame.code = error_code
  BY DEF ResetFrame, FrameType, ResetFrameType, TypeOK, LimiterType
<1>3. s.frames = <<ResetFrame>> /\ s.observed = TRUE  BY DEF Idle
<1>4. Current \in Nat \ {0}  BY DEF Current, TypeOK
<1>5. s.frames \in Seq(FrameType) /\ s.observed \in BOOLEAN
      /\ \A k \in DOMAIN s.frames : s.frames[k] = ResetFrame
  BY <1>2, <1>3
<1> HIDE DEF s
<1>6. FramesUntouched  BY <1>1 DEF FramesUntouched, dataVars
<1>7. /\ \A k \in DOMAIN s.frames :
           FrameOK(s.frames[k], written', fin_written', reset_flags', flow'.used, error_code')
      /\ \A p \in DOMAIN pkts : \A k \in DOMAIN pkts[p].frames :
           FrameOK(pkts[p].frames[k], written', fin_written', reset_flags', flow'.used, error_code')
  <2>1. FrameOK(ResetFrame, written', fin_written', reset_flags', flow'.used, error_code')
    BY <1>1, <1>2 DEF FrameOK
  <2> QED BY <1>5, <1>6, <2>1, FrameKept DEF FrameInv
<1>8. pkts' \in Seq(Packet) /\ sending' = Idle /\ FrameInv'
  BY <1>1, <1>5, <1>7, ReturnFrames
<1>9. FragInv'  BY <1>1, <1>8, IdleType, FragStays DEF dataVars
<1>10. StateInv'  BY <1>1, <1>4, <1>8, IdleType DEF StateInv, can_send
<1>11. TypeOK'
  BY <1>1, <1>4, <1>8, IdleType DEF TypeOK, SendState, dataVars, connVars
<1>12. DataInv' /\ CreditInv'  BY <1>1 DEF DataInv, total, CreditInv, dataVars, connVars
<1> QED BY <1>8, <1>9, <1>10, <1>11, <1>12

(* The steps that end a reset, and those that start a loop. *)
LEMMA BeginEndStep ==
  ASSUME IndInv,
         \/ reset_done \/ detect_reset_ack \/ detect_begin \/ detect_end
         \/ \E room \in Rooms : send_stream_begin(room)
  PROVE  IndInv'
<1> USE DEF IndInv
<1>1. CASE reset_done \/ detect_reset_ack
  <2>1. /\ state = "reset_sent" /\ state' = "reset_recved" /\ reset_wait' \in Nat
        /\ UNCHANGED <<flow, error_code, reset_flags, dataVars, frags, connVars, pkts, sending>>
        /\ sending.pc = "idle"
    BY <1>1 DEF reset_done, detect_reset_ack, Calling, TypeOK
  <2>2. StateInv'  BY <2>1 DEF StateInv, can_send, dataVars
  <2>3. FragInv'  BY <2>1, FragStays DEF dataVars
  <2>4. FrameInv'  BY <2>1, FrameStays DEF FramesUntouched, dataVars
  <2>5. pkts' \in Seq(Packet) /\ sending' \in Sending /\ frags' \in Seq(Frag)
        /\ state' \in SendState
    BY <2>1 DEF TypeOK, SendState
  <2> QED BY <2>1, <2>2, <2>3, <2>4, <2>5, QuietStep
<1>2. CASE detect_begin \/ \E room \in Rooms : send_stream_begin(room)
  <2>1. /\ UNCHANGED <<state, flow, error_code, reset_flags, dataVars, frags, reset_wait, connVars, pkts>>
        /\ reset_wait = 0 /\ sending' \in Sending
        /\ sending'.frames = <<>> /\ sending'.tmp = <<>>
        /\ sending'.pc \in {"detect", "retransmit", "new"}
        /\ sending'.pc # "detect" => ~is_terminal_state
        /\ sending'.i >= 1
    <3>1. CASE detect_begin
      <4>1. sending' = Begin("detect", 0)
        BY <3>1 DEF detect_begin
      <4>2. sending' \in Sending /\ sending'.pc = "detect" /\ sending'.i = 1
            /\ sending'.frames = <<>> /\ sending'.tmp = <<>>
        <5>1. 0 \in Nat  OBVIOUS
        <5> QED BY <4>1, <5>1, SendingBegin
      <4>3. UNCHANGED <<state, flow, error_code, reset_flags, dataVars, frags, reset_wait, connVars, pkts>>
            /\ reset_wait = 0
        BY <3>1 DEF detect_begin, stateVars
      <4> QED BY <4>2, <4>3
    <3>2. CASE \E room \in Rooms : send_stream_begin(room)
      <4>1. PICK room \in Rooms : send_stream_begin(room)  BY <3>2
      <4>2. room \in Nat  BY SendAssumption
      <4>3. PICK pc \in {"retransmit", "new"} : sending' = Begin(pc, room)
        BY <4>1 DEF send_stream_begin
      <4>4. sending' \in Sending /\ sending'.pc = pc /\ sending'.i = 1
            /\ sending'.frames = <<>> /\ sending'.tmp = <<>>
        BY <4>2, <4>3, SendingBegin
      <4>5. UNCHANGED <<state, flow, error_code, reset_flags, dataVars, frags, reset_wait, connVars, pkts>>
            /\ reset_wait = 0 /\ ~is_terminal_state
        BY <4>1 DEF send_stream_begin, stateVars, Calling
      <4> QED BY <4>4, <4>5
    <3> QED BY <1>2, <3>1, <3>2
  <2>2. StateInv'
    <3>1. sending'.pc \in {"retransmit", "new"} => state' \notin {"reset_sent", "reset_recved"}
      BY <2>1 DEF StateInv, is_terminal_state
    <3>2. sending'.pc # "idle"  BY <2>1
    <3> QED BY <2>1, <3>1, <3>2 DEF StateInv, can_send, dataVars
  <2>3. FragInv'  BY <2>1, FragStays DEF dataVars
  <2>4. FrameInv'  BY <2>1, FrameStays DEF FramesUntouched, dataVars
  <2>5. pkts' \in Seq(Packet) /\ frags' \in Seq(Frag) /\ state' \in SendState /\ reset_wait' \in Nat
    BY <2>1 DEF TypeOK
  <2> QED BY <2>1, <2>2, <2>3, <2>4, <2>5, QuietStep
<1>3. CASE detect_end
  <2>1. /\ UNCHANGED <<flow, error_code, reset_flags, dataVars, frags, reset_wait, connVars, pkts>>
        /\ sending' = Idle
        /\ state' = state \/ (state = "data_sent" /\ state' = "data_recved")
    BY <1>3 DEF detect_end
  <2>2. StateInv'  BY <2>1, IdleType DEF StateInv, can_send, dataVars
  <2>3. FragInv'  BY <2>1, IdleType, FragStays DEF dataVars
  <2>4. FrameInv'  BY <2>1, IdleType, FrameStays DEF FramesUntouched, dataVars
  <2>5. pkts' \in Seq(Packet) /\ frags' \in Seq(Frag) /\ state' \in SendState
        /\ sending' \in Sending /\ reset_wait' \in Nat
    BY <2>1, IdleType DEF TypeOK, SendState
  <2> QED BY <2>1, <2>2, <2>3, <2>4, <2>5, QuietStep
<1> QED BY <1>1, <1>2, <1>3

(* The loop steps that skip, drop or rebind one fragment. *)
LEMMA VisitStep ==
  ASSUME IndInv,
         retransmit_acked \/ retransmit_waiting \/ retransmit_no_capacity \/ detect_visit
  PROVE  IndInv'
<1> USE DEF IndInv
<1>1. frags \in Seq(Frag) /\ sending \in Sending /\ sending.i \in Nat /\ Len(pkts) \in Nat
  BY DEF TypeOK, Sending
<1>2. UNCHANGED <<state, flow, error_code, reset_flags, dataVars, reset_wait, connVars, pkts>>
      /\ sending.pc \in {"retransmit", "detect"}
  BY DEF retransmit_acked, retransmit_waiting, retransmit_no_capacity, detect_visit,
         Visiting, stateVars
<1>3. /\ sending' \in Sending /\ sending'.frames = sending.frames
      /\ sending'.tmp = sending.tmp /\ sending'.pc = sending.pc
      /\ sending'.i >= sending.i
  <2>1. \/ sending' = sending
        \/ sending' = [sending EXCEPT !.i = sending.i + 1]
        \/ sending' = [sending EXCEPT !.i = sending.i + 1, !.observed = TRUE]
    BY DEF retransmit_acked, retransmit_waiting, retransmit_no_capacity, detect_visit
  <2>2. CASE sending' = sending  BY <1>1, <2>2
  <2>3. CASE \/ sending' = [sending EXCEPT !.i = sending.i + 1]
             \/ sending' = [sending EXCEPT !.i = sending.i + 1, !.observed = TRUE]
    <3>1. /\ sending' \in Sending /\ sending'.pc = sending.pc /\ sending'.frames = sending.frames
          /\ sending'.tmp = sending.tmp /\ sending'.i = sending.i + 1 /\ sending.i \in Nat
      BY <1>1, <2>3, SendingNext
    <3> QED BY <3>1
  <2> QED BY <2>1, <2>2, <2>3
<1>4. /\ frags' \in Seq(Frag)
      /\ \A k \in DOMAIN frags' : \E j \in DOMAIN frags :
           frags'[k].offset = frags[j].offset /\ frags'[k].data = frags[j].data
           /\ frags'[k].fin = frags[j].fin
  <2>1. CASE frags' = frags  BY <1>1, <2>1
  <2>2. CASE sending.i <= Len(frags) /\ frags' = erase(frags, sending.i) /\ sending.i # 0
    <3>1. sending.i \in 1..Len(frags)  BY <1>1, <2>2
    <3>2. /\ erase(frags, sending.i) \in Seq(Frag)
          /\ \A k \in DOMAIN erase(frags, sending.i) :
               \E j \in DOMAIN frags : erase(frags, sending.i)[k] = frags[j]
      BY <1>1, <3>1, EraseElements
    <3> QED BY <2>2, <3>2
  <2>3. CASE sending.i <= Len(frags) /\ sending.i # 0 /\ frags' = [frags EXCEPT ![sending.i].wait = Current]
    <3>1. sending.i \in 1..Len(frags) /\ Current \in Nat  BY <1>1, <2>3 DEF Current
    <3>2. /\ frags' \in Seq(Frag) /\ DOMAIN frags' = DOMAIN frags
          /\ \A k \in DOMAIN frags :
               frags'[k].offset = frags[k].offset /\ frags'[k].data = frags[k].data
               /\ frags'[k].fin = frags[k].fin
      BY <1>1, <2>3, <3>1, RebindElements
    <3> QED BY <3>2
  <2> QED
    BY <2>1, <2>2, <2>3
    DEF retransmit_acked, retransmit_waiting, retransmit_no_capacity, detect_visit, Visiting, StateInv
<1>5. FragInv'
  <2>1. ASSUME NEW f, NEW g, SoundNow(f),
               g.offset = f.offset, g.data = f.data, g.fin = f.fin
        PROVE  Sound(g, written', fin_written')
    BY <1>2, <2>1 DEF SoundNow, Sound, EndOf, dataVars
  <2>2. \A k \in DOMAIN frags' : Sound(frags'[k], written', fin_written')
    BY <1>4, <2>1 DEF FragInv
  <2>3. \A k \in DOMAIN sending'.tmp : Sound(sending'.tmp[k], written', fin_written')
    BY <1>2, <1>3 DEF FragInv, SoundNow, dataVars
  <2> QED BY <2>2, <2>3 DEF FragInv, SoundNow
<1>6. FrameInv'  BY <1>2, <1>3, FrameStays DEF FramesUntouched, dataVars
<1>7. StateInv'
  <2>1. sending'.pc # "idle" /\ sending'.i >= 1  BY <1>1, <1>2, <1>3 DEF StateInv, Sending
  <2> QED BY <1>2, <1>3, <2>1 DEF StateInv, can_send, dataVars
<1>8. state' \in SendState /\ reset_wait' \in Nat /\ pkts' \in Seq(Packet)
  BY <1>2 DEF TypeOK
<1> QED BY <1>2, <1>3, <1>4, <1>5, <1>6, <1>7, <1>8, QuietStep

(* A fragment is sent again: the frame, the new fragment and the rest that *)
(* stays are parts of a sound fragment.                                    *)
LEMMA RetransmitLostStep ==
  ASSUME IndInv, retransmit_lost
  PROVE  IndInv'
<1> USE DEF IndInv
<1> DEFINE i    == sending.i
           f    == frags[i]
           fit  == RetransmitFit(f)
           part == SubSeq(f.data, 1, fit.len)
           rest == SubSeq(f.data, fit.len + 1, Len(f.data))
           left == fit.len < Len(f.data)
           keep == [offset |-> f.offset + fit.len, data |-> rest,
                    fin |-> f.fin /\ ~fit.fin, wait |-> Current]
           frame == [type |-> "STREAM", offset |-> f.offset, data |-> part, fin |-> fit.fin]
           again == [offset |-> f.offset, data |-> part, fin |-> fit.fin, wait |-> Current]
<1>1. /\ frags \in Seq(Frag) /\ sending \in Sending /\ i \in 1..Len(frags) /\ Current \in Nat
      /\ written \in Nat
  BY DEF retransmit_lost, Visiting, StateInv, TypeOK, Sending, Current
<1>2. /\ UNCHANGED <<state, flow, error_code, reset_flags, dataVars, reset_wait, connVars, pkts>>
      /\ sending.pc = "retransmit" /\ fit.ok
      /\ frags' = IF left THEN [frags EXCEPT ![i] = keep] ELSE erase(frags, i)
      /\ sending' = [sending EXCEPT !.i = IF left THEN i + 1 ELSE i,
                                    !.room = sending.room - fit.size,
                                    !.frames = Append(sending.frames, frame),
                                    !.tmp = Append(sending.tmp, again),
                                    !.observed = TRUE]
  BY DEF retransmit_lost, Visiting, stateVars
<1>3. f \in Frag /\ Sound(f, written, fin_written)
  BY <1>1 DEF FragInv, SoundNow
<1>4. f.offset \in Nat /\ f.data \in Seq(Nat) /\ Len(f.data) \in Nat /\ f.fin \in BOOLEAN
  BY <1>3 DEF Frag
<1>5. sending.room \in Nat /\ sending.frames \in Seq(FrameType) /\ sending.tmp \in Seq(Frag)
  BY <1>1 DEF Sending
<1>6. /\ fit \in [ok : BOOLEAN, len : 0..Len(f.data), fin : BOOLEAN, size : 0..sending.room]
      /\ fit.fin => f.fin /\ fit.len = Len(f.data)
  <2>1. Id \in Nat  BY SendAssumption
  <2>2. fit = make_fit_size_Stream(sending.room, Id, f.offset, Len(f.data), f.fin, f.fin)
    BY DEF RetransmitFit
  <2> HIDE DEF fit, f
  <2> QED BY <1>2, <1>4, <1>5, <2>1, <2>2, MakeFitSizeStream
<1>7. fit.len \in 0..Len(f.data) /\ fit.fin \in BOOLEAN /\ sending.room - fit.size \in Nat
  <2> HIDE DEF fit, f
  <2> QED BY <1>5, <1>6
<1> HIDE DEF fit, f
<1>8. part \in Seq(Nat) /\ rest \in Seq(Nat)
  BY <1>4, <1>7, TailElements, HeadElements
<1>9. /\ again \in Frag /\ frame \in FrameType
      /\ Sound(again, written, fin_written) /\ Sound(frame, written, fin_written)
      /\ frame.type = "STREAM"
  <2>1. again \in Frag  BY <1>1, <1>4, <1>7, <1>8 DEF Frag
  <2>2. frame \in FrameType  BY <1>4, <1>7, <1>8 DEF FrameType, StreamFrameType
  <2>3. again.offset = f.offset /\ again.data = part /\ again.fin = fit.fin  OBVIOUS
  <2>4. frame.offset = f.offset /\ frame.data = part /\ frame.fin = fit.fin
        /\ frame.type = "STREAM"
    OBVIOUS
  <2> HIDE DEF again, frame
  <2>5. Sound(again, written, fin_written)
    BY <1>1, <1>3, <1>4, <1>6, <1>7, <2>3, SoundPart
  <2>6. Sound(frame, written, fin_written)
    BY <1>1, <1>3, <1>4, <1>6, <1>7, <2>4, SoundPart
  <2> QED BY <2>1, <2>2, <2>4, <2>5, <2>6
<1>10. keep \in Frag /\ Sound(keep, written, fin_written)
  <2>1. (f.fin /\ ~fit.fin) \in BOOLEAN /\ f.offset + fit.len \in Nat  BY <1>4, <1>7
  <2>2. keep \in Frag  BY <1>1, <1>8, <2>1 DEF Frag
  <2>3. keep.offset = f.offset + fit.len /\ keep.data = rest /\ (keep.fin => f.fin)
    OBVIOUS
  <2> HIDE DEF keep
  <2>4. Sound(keep, written, fin_written)
    BY <1>1, <1>3, <1>4, <1>7, <2>3, SoundRest
  <2> QED BY <2>2, <2>4
<1> HIDE DEF keep, frame, again, left
<1>11. /\ frags' \in Seq(Frag)
       /\ \A k \in DOMAIN frags' : frags'[k] = keep \/ \E j \in DOMAIN frags : frags'[k] = frags[j]
  <2>1. CASE left
    <3>1. frags' = [frags EXCEPT ![i] = keep]  BY <1>2, <2>1
    <3> HIDE DEF i
    <3> QED BY <1>1, <1>10, <3>1
  <2>2. CASE ~left
    <3>1. frags' = erase(frags, i)  BY <1>2, <2>2
    <3> HIDE DEF i
    <3>2. /\ erase(frags, i) \in Seq(Frag)
          /\ \A k \in DOMAIN erase(frags, i) : \E j \in DOMAIN frags : erase(frags, i)[k] = frags[j]
      BY <1>1, EraseElements
    <3> QED BY <3>1, <3>2
  <2> QED BY <2>1, <2>2
<1>12. /\ Append(sending.tmp, again) \in Seq(Frag)
       /\ \A k \in DOMAIN Append(sending.tmp, again) :
            \/ Append(sending.tmp, again)[k] = again
            \/ \E j \in DOMAIN sending.tmp : Append(sending.tmp, again)[k] = sending.tmp[j]
  BY <1>5, <1>9, AppendElements
<1>13. /\ Append(sending.frames, frame) \in Seq(FrameType)
       /\ \A k \in DOMAIN Append(sending.frames, frame) :
            \/ Append(sending.frames, frame)[k] = frame
            \/ \E j \in DOMAIN sending.frames : Append(sending.frames, frame)[k] = sending.frames[j]
  BY <1>5, <1>9, AppendElements
<1> DEFINE j1 == IF left THEN i + 1 ELSE i
           T  == Append(sending.tmp, again)
           F  == Append(sending.frames, frame)
<1>14. j1 \in Nat /\ j1 >= 1  BY <1>1
<1> HIDE DEF j1, T, F
<1>15. /\ sending' \in Sending /\ sending'.pc = "retransmit" /\ sending'.i = j1
       /\ sending'.tmp = T /\ sending'.frames = F
  <2>1. sending' = [sending EXCEPT !.i = j1, !.room = sending.room - fit.size,
                                   !.frames = F, !.tmp = T, !.observed = TRUE]
    BY <1>2 DEF j1, T, F
  <2>2. [sending EXCEPT !.i = j1] \in Sending  BY <1>1, <1>14, SendingFields
  <2>3. [sending EXCEPT !.i = j1, !.room = sending.room - fit.size] \in Sending
    BY <1>7, <2>2, SendingFields
  <2>4. [sending EXCEPT !.i = j1, !.room = sending.room - fit.size, !.frames = F] \in Sending
    BY <1>13, <2>3, SendingFields DEF F
  <2>5. [sending EXCEPT !.i = j1, !.room = sending.room - fit.size, !.frames = F, !.tmp = T]
          \in Sending
    BY <1>12, <2>4, SendingFields DEF T
  <2>6. sending' \in Sending  BY <2>1, <2>5, SendingFields
  <2>7. sending'.pc = sending.pc /\ sending'.i = j1 /\ sending'.tmp = T /\ sending'.frames = F
    BY <1>1, <2>1 DEF Sending
  <2> QED BY <1>2, <2>6, <2>7
<1>16. FragInv'
  <2>1. written' = written /\ fin_written' = fin_written  BY <1>2 DEF dataVars
  <2>2. \A k \in DOMAIN frags' : Sound(frags'[k], written, fin_written)
    BY <1>10, <1>11 DEF FragInv, SoundNow
  <2>3. \A k \in DOMAIN sending'.tmp : Sound(sending'.tmp[k], written, fin_written)
    BY <1>9, <1>12, <1>15 DEF FragInv, SoundNow, T
  <2> QED BY <2>1, <2>2, <2>3 DEF FragInv, SoundNow
<1>17. FrameInv'
  <2>1. FramesUntouched /\ pkts' = pkts  BY <1>2 DEF FramesUntouched, dataVars
  <2>2. FrameOKNow(frame)  BY <1>9 DEF FrameOKNow, FrameOK
  <2>3. \A k \in DOMAIN sending'.frames : FrameOKNow(sending'.frames[k])
    BY <1>13, <1>15, <2>2 DEF FrameInv, F
  <2>4. \A k \in DOMAIN sending'.frames :
          FrameOK(sending'.frames[k], written', fin_written', reset_flags', flow'.used, error_code')
    BY <2>1, <2>3, FrameKept
  <2>5. \A p \in DOMAIN pkts' : \A k \in DOMAIN pkts'[p].frames :
          FrameOK(pkts'[p].frames[k], written', fin_written', reset_flags', flow'.used, error_code')
    BY <2>1, FrameKept DEF FrameInv
  <2> QED BY <2>4, <2>5 DEF FrameInv, FrameOKNow
<1>18. StateInv'
  <2>1. sending'.pc = "retransmit" /\ sending'.i >= 1  BY <1>14, <1>15
  <2> QED BY <1>2, <2>1 DEF StateInv, can_send, dataVars
<1>19. state' \in SendState /\ reset_wait' \in Nat /\ pkts' \in Seq(Packet)
  BY <1>2 DEF TypeOK
<1> QED BY <1>2, <1>11, <1>15, <1>16, <1>17, <1>18, <1>19, QuietStep

(* The fragments sent again join the list. *)
LEMMA RetransmitEndStep ==
  ASSUME IndInv, retransmit_end
  PROVE  IndInv'
<1> USE DEF IndInv
<1>1. frags \in Seq(Frag) /\ sending \in Sending /\ sending.tmp \in Seq(Frag)
  BY DEF TypeOK, Sending
<1>2. /\ UNCHANGED <<flow, error_code, reset_flags, dataVars, reset_wait, connVars, pkts>>
      /\ sending.pc = "retransmit" /\ frags' = frags \o sending.tmp
      /\ sending' = [sending EXCEPT !.pc = "new", !.tmp = <<>>]
      /\ state' = state \/ (state = "data_sent" /\ state' = "data_recved")
  BY DEF retransmit_end
<1>3. /\ sending' \in Sending /\ sending'.pc = "new" /\ sending'.tmp = <<>>
      /\ sending'.frames = sending.frames /\ sending'.i = sending.i
  <2>1. [sending EXCEPT !.pc = "new"] \in Sending  BY <1>1, SendingFields
  <2>2. <<>> \in Seq(Frag)  OBVIOUS
  <2>3. [[sending EXCEPT !.pc = "new"] EXCEPT !.tmp = <<>>] \in Sending
    BY <2>1, <2>2, SendingFields
  <2>5. sending' = [[sending EXCEPT !.pc = "new"] EXCEPT !.tmp = <<>>]
    BY <1>1, <1>2 DEF Sending
  <2>6. sending' \in Sending  BY <2>3, <2>5
  <2>4. /\ sending'.pc = "new" /\ sending'.tmp = <<>> /\ sending'.frames = sending.frames
        /\ sending'.i = sending.i
    BY <1>1, <1>2 DEF Sending
  <2> QED BY <2>6, <2>4
<1>4. frags' \in Seq(Frag)
      /\ \A k \in DOMAIN frags' : \/ \E j \in DOMAIN frags : frags'[k] = frags[j]
                                  \/ \E j \in DOMAIN sending.tmp : frags'[k] = sending.tmp[j]
  <2> DEFINE tmp == sending.tmp
  <2>1. frags \in Seq(Frag) /\ tmp \in Seq(Frag)  BY <1>1
  <2>2. frags' = frags \o tmp  BY <1>2
  <2> HIDE DEF tmp
  <2>3. /\ frags \o tmp \in Seq(Frag)
        /\ \A k \in DOMAIN (frags \o tmp) : \/ \E j \in DOMAIN frags : (frags \o tmp)[k] = frags[j]
                                            \/ \E j \in DOMAIN tmp : (frags \o tmp)[k] = tmp[j]
    BY <2>1, ConcatElements
  <2> QED BY <2>2, <2>3 DEF tmp
<1>5. FragInv'
  <2>1. \A k \in DOMAIN frags' : Sound(frags'[k], written', fin_written')
    BY <1>2, <1>4 DEF FragInv, SoundNow, dataVars
  <2>2. DOMAIN sending'.tmp = {}  BY <1>3
  <2> QED BY <2>1, <2>2 DEF FragInv, SoundNow
<1>6. FrameInv'  BY <1>2, <1>3, FrameStays DEF FramesUntouched, dataVars
<1>7. StateInv'
  <2>1. sending'.pc = "new" /\ sending'.i >= 1  BY <1>2, <1>3 DEF StateInv
  <2> QED BY <1>2, <2>1 DEF StateInv, can_send, dataVars
<1>8. state' \in SendState /\ reset_wait' \in Nat /\ pkts' \in Seq(Packet)
  BY <1>2 DEF TypeOK, SendState
<1> QED BY <1>2, <1>3, <1>4, <1>5, <1>6, <1>7, <1>8, QuietStep

LEMMA SendNothingStep ==
  ASSUME IndInv, send_nothing
  PROVE  IndInv'
<1> USE DEF IndInv
<1>1. /\ Return(sending)
      /\ UNCHANGED <<state, flow, error_code, reset_flags, dataVars, frags, reset_wait, connVars>>
  BY DEF send_nothing, stateVars
<1>2. sending.frames \in Seq(FrameType) /\ sending.observed \in BOOLEAN  BY DEF TypeOK, Sending
<1>3. FramesUntouched  BY <1>1 DEF FramesUntouched, dataVars
<1>4. pkts' \in Seq(Packet) /\ sending' = Idle /\ FrameInv'
  <2>1. \A p \in DOMAIN pkts : \A k \in DOMAIN pkts[p].frames :
          FrameOK(pkts[p].frames[k], written', fin_written', reset_flags', flow'.used, error_code')
    BY <1>3, FrameKept DEF FrameInv
  <2>2. \A k \in DOMAIN sending.frames :
          FrameOK(sending.frames[k], written', fin_written', reset_flags', flow'.used, error_code')
    BY <1>3, FrameKept DEF FrameInv
  <2> QED BY <1>1, <1>2, <2>1, <2>2, ReturnFrames
<1>5. FragInv'  BY <1>1, <1>4, IdleType, FragStays DEF dataVars
<1>6. StateInv'  BY <1>1, <1>4, IdleType DEF StateInv, can_send, dataVars
<1>7. state' \in SendState /\ reset_wait' \in Nat /\ frags' \in Seq(Frag) /\ sending' \in Sending
  BY <1>1, <1>4, IdleType DEF TypeOK
<1> QED BY <1>1, <1>4, <1>5, <1>6, <1>7, QuietStep

(* ACK and loss marks change no frame. *)
LEMMA MarkStep ==
  ASSUME IndInv, NEW p \in DOMAIN pkts, NEW rec \in {"ack", "lost"}, mark(p, rec)
  PROVE  IndInv'
<1> USE DEF IndInv
<1>1. /\ UNCHANGED <<state, flow, error_code, reset_flags, dataVars, frags, reset_wait, connVars, sending>>
      /\ pkts' = [pkts EXCEPT ![p].rec = rec] /\ pkts \in Seq(Packet)
  BY DEF mark, stateVars, TypeOK
<1> DEFINE e == [pkts[p] EXCEPT !.rec = rec]
<1>2. pkts[p] \in Packet  BY <1>1
<1>3. e \in Packet /\ e.frames = pkts[p].frames  BY <1>2 DEF Packet
<1>4. pkts' = [pkts EXCEPT ![p] = e]  BY <1>1
<1> HIDE DEF e
<1>5. pkts' \in Seq(Packet) /\ DOMAIN pkts' = DOMAIN pkts
      /\ \A q \in DOMAIN pkts : pkts'[q] = IF q = p THEN e ELSE pkts[q]
  BY <1>1, <1>3, <1>4
<1>6. \A q \in DOMAIN pkts' : pkts'[q].frames = pkts[q].frames  BY <1>3, <1>5
<1>7. FrameInv'
  <2>1. FramesUntouched  BY <1>1 DEF FramesUntouched, dataVars
  <2>2. \A q \in DOMAIN pkts' : \A k \in DOMAIN pkts'[q].frames :
          FrameOK(pkts'[q].frames[k], written', fin_written', reset_flags', flow'.used, error_code')
    BY <1>5, <1>6, <2>1, FrameKept DEF FrameInv
  <2>3. \A k \in DOMAIN sending'.frames :
          FrameOK(sending'.frames[k], written', fin_written', reset_flags', flow'.used, error_code')
    BY <1>1, <2>1, FrameKept DEF FrameInv
  <2> QED BY <2>2, <2>3 DEF FrameInv, FrameOKNow
<1>8. FragInv'  BY <1>1, FragStays DEF dataVars
<1>9. StateInv'  BY <1>1 DEF StateInv, can_send, dataVars
<1>10. state' \in SendState /\ reset_wait' \in Nat /\ frags' \in Seq(Frag) /\ sending' \in Sending
  BY <1>1 DEF TypeOK
<1> QED BY <1>1, <1>5, <1>7, <1>8, <1>9, <1>10, QuietStep

(* New data: FIN was not sent before, so written may still move. *)
LEMMA SendStreamStep ==
  ASSUME IndInv, send_stream
  PROVE  IndInv'
<1> USE DEF IndInv
<1> DEFINE r     == get_remain(flow_control_limit)
           fit   == NewFit
           n     == fit.len
           data  == SubSeq(r, 1, n)
           frag  == [offset |-> written, data |-> data, fin |-> fit.fin, wait |-> Current]
           frame == [type |-> "STREAM", offset |-> written, data |-> data, fin |-> fit.fin]
           F     == Append(sending.frames, frame)
           s     == [sending EXCEPT !.frames = F, !.observed = TRUE]
<1>1. /\ sending.pc = "new" /\ can_send /\ fit.ok
      /\ update_use_ok(flow, written + n)
      /\ conn' = IF n = 0 THEN conn ELSE use(conn, n)
      /\ flow' = update_use(flow, written + n)
      /\ written' = written + n
      /\ state' = IF fit.fin THEN "data_sent" ELSE "send"
      /\ fin_written' = (fin_written \/ fit.fin)
      /\ frags' = Append(frags, frag)
      /\ Return(s)
      /\ UNCHANGED <<error_code, reset_flags, src, discarded, fin, reset_wait, other, applied>>
  BY DEF send_stream, Sendable
<1>2. /\ written \in Nat /\ frags \in Seq(Frag) /\ sending \in Sending /\ Current \in Nat
      /\ fin_written \in BOOLEAN /\ other \in Nat
      /\ flow \in LimiterType /\ conn \in LimiterType
      /\ flow.used \in Nat /\ flow.limit \in Nat /\ conn.used \in Nat /\ conn.limit \in Nat
  BY Border8Assumption DEF TypeOK, Current, LimiterType
<1>3. sending.room \in Nat /\ sending.frames \in Seq(FrameType)  BY <1>2 DEF Sending
<1>4. ~fin_written /\ "sent" \notin reset_flags  BY <1>1 DEF StateInv, can_send
<1>5. /\ fit \in [ok : BOOLEAN, len : 0..Len(r), fin : BOOLEAN, size : 0..sending.room]
      /\ n <= avail_size(flow) /\ n <= avail_size(conn) /\ n <= remain
  BY <1>3, NewFitFacts
<1>6. /\ r \in Seq(Nat) /\ Len(r) \in Nat /\ \A k \in DOMAIN r : r[k] = written + k
  BY FlowControlLimit, GetRemain
<1> HIDE DEF r, fit
<1>7. n \in 0..Len(r) /\ n \in Nat /\ fit.fin \in BOOLEAN  BY <1>5, <1>6
<1>8. /\ data \in Seq(Nat) /\ Len(data) = n /\ DOMAIN data = 1..n
      /\ \A k \in 1..n : data[k] = written + k
  <2>1. data \in Seq(Nat) /\ Len(data) = n /\ DOMAIN data = 1..n  BY <1>6, <1>7
  <2>2. \A k \in 1..n : data[k] = r[k] /\ k \in DOMAIN r  BY <1>6, <1>7
  <2> QED BY <1>6, <2>1, <2>2
<1> HIDE DEF n, data
<1>9. conn' = [conn EXCEPT !.used = conn.used + n] /\ conn' \in LimiterType
      /\ conn'.used = conn.used + n /\ conn'.limit = conn.limit /\ conn.used + n <= conn.limit
  <2>1. conn.used + n <= conn.limit /\ avail_size(conn) \in Nat
    BY <1>2, <1>5, <1>7 DEF avail_size, CreditInv
  <2>2. use(conn, n) = [conn EXCEPT !.used = conn.used + n]
    BY <1>5, <1>7, <2>1 DEF use, use_ok, on_limit
  <2>3. n = 0 => [conn EXCEPT !.used = conn.used + n] = conn  BY <1>2 DEF LimiterType
  <2>4. conn' = [conn EXCEPT !.used = conn.used + n]  BY <1>1, <2>2, <2>3
  <2> QED BY <1>2, <1>7, <2>1, <2>4 DEF LimiterType
<1>10. flow' \in LimiterType /\ flow'.used = written + n /\ flow'.limit = flow.limit
       /\ written + n <= flow.limit
  <2>1. written + n <= flow.limit  BY <1>1 DEF update_use_ok
  <2>2. flow.used = written  BY DEF CreditInv
  <2>3. CASE n = 0
    <3>1. flow' = flow  BY <1>1, <1>2, <2>1, <2>2, <2>3 DEF update_use
    <3> QED BY <1>2, <2>1, <2>2, <2>3, <3>1
  <2>4. CASE n # 0
    <3>1. flow' = [flow EXCEPT !.used = written + n]
      BY <1>1, <1>2, <1>7, <2>1, <2>2, <2>4 DEF update_use
    <3> QED BY <1>2, <1>7, <2>1, <3>1 DEF LimiterType
  <2> QED BY <2>3, <2>4
<1>11. frag \in Frag /\ frame \in FrameType
  BY <1>2, <1>7, <1>8 DEF Frag, FrameType, StreamFrameType
<1>12. fin_written' = fit.fin /\ fin_written' \in BOOLEAN  BY <1>1, <1>4, <1>7
<1>13. \A g : g.offset = written /\ g.data = data /\ g.fin = fit.fin
              => Sound(g, written', fin_written')
  BY <1>1, <1>2, <1>7, <1>8, <1>12 DEF Sound, EndOf
<1>14. /\ frag.offset = written /\ frag.data = data /\ frag.fin = fit.fin
       /\ frame.offset = written /\ frame.data = data /\ frame.fin = fit.fin
       /\ frame.type = "STREAM"
  OBVIOUS
<1> HIDE DEF frag, frame
<1>15. Sound(frag, written', fin_written') /\ Sound(frame, written', fin_written')
  BY <1>13, <1>14
<1>16. ASSUME NEW g, SoundNow(g), EndOf(g) \in Int  PROVE  Sound(g, written', fin_written')
  <2>1. EndOf(g) <= written' /\ ~g.fin  BY <1>1, <1>2, <1>4, <1>7, <1>16 DEF SoundNow, Sound
  <2> QED BY <1>16, <2>1 DEF SoundNow, Sound
<1>17. ASSUME NEW k \in DOMAIN frags  PROVE  EndOf(frags[k]) \in Int
  <2>1. frags[k] \in Frag  BY <1>2
  <2>2. frags[k].offset \in Nat /\ Len(frags[k].data) \in Nat  BY <2>1 DEF Frag
  <2> QED BY <2>2 DEF EndOf
<1>18. FrameOK(frame, written', fin_written', reset_flags', flow'.used, error_code')
  BY <1>14, <1>15 DEF FrameOK
<1>19. ASSUME NEW g \in FrameType, FrameOKNow(g)
       PROVE  FrameOK(g, written', fin_written', reset_flags', flow'.used, error_code')
  <2>1. g.type # "RESET_STREAM"  BY <1>4, <1>19 DEF FrameOKNow, FrameOK
  <2>2. g \in StreamFrameType  BY <1>19, <2>1 DEF FrameType, ResetFrameType
  <2>3. EndOf(g) \in Int /\ g.type = "STREAM"  BY <2>2 DEF StreamFrameType, EndOf
  <2>4. SoundNow(g)  BY <1>19, <2>3 DEF FrameOKNow, FrameOK, SoundNow
  <2> QED BY <1>16, <2>1, <2>3, <2>4 DEF FrameOK
<1>20. F \in Seq(FrameType)
       /\ \A k \in DOMAIN F : F[k] = frame \/ \E j \in DOMAIN sending.frames : F[k] = sending.frames[j]
  BY <1>3, <1>11, AppendElements
<1> HIDE DEF F
<1>21. s.frames = F /\ s.observed = TRUE  BY <1>2 DEF Sending
<1> HIDE DEF s
<1>22. pkts' \in Seq(Packet) /\ sending' = Idle /\ FrameInv'
  <2>1. \A p \in DOMAIN pkts : \A k \in DOMAIN pkts[p].frames :
          FrameOK(pkts[p].frames[k], written', fin_written', reset_flags', flow'.used, error_code')
    <3>1. \A p \in DOMAIN pkts : \A k \in DOMAIN pkts[p].frames : pkts[p].frames[k] \in FrameType
      BY PacketFrames
    <3> QED BY <1>19, <3>1 DEF FrameInv
  <2>2. \A k \in DOMAIN s.frames :
          FrameOK(s.frames[k], written', fin_written', reset_flags', flow'.used, error_code')
    <3>1. \A k \in DOMAIN sending.frames : sending.frames[k] \in FrameType  BY <1>3
    <3> QED BY <1>18, <1>19, <1>20, <1>21, <3>1 DEF FrameInv
  <2>3. s.frames \in Seq(FrameType) /\ s.observed \in BOOLEAN  BY <1>20, <1>21
  <2> QED BY <1>1, <2>1, <2>2, <2>3, ReturnFrames
<1>23. frags' \in Seq(Frag)
       /\ \A k \in DOMAIN frags' : frags'[k] = frag \/ \E j \in DOMAIN frags : frags'[k] = frags[j]
  <2>1. frags' = Append(frags, frag)  BY <1>1
  <2>2. frags \in Seq(Frag) /\ frag \in Frag  BY <1>2, <1>11
  <2> HIDE DEF frag
  <2>3. /\ Append(frags, frag) \in Seq(Frag)
        /\ \A k \in DOMAIN Append(frags, frag) : \/ Append(frags, frag)[k] = frag
                                                \/ \E j \in DOMAIN frags : Append(frags, frag)[k] = frags[j]
    BY <2>2, AppendElements
  <2> QED BY <2>1, <2>3
<1>24. FragInv'
  <2>1. \A k \in DOMAIN frags' : Sound(frags'[k], written', fin_written')
    BY <1>15, <1>16, <1>17, <1>23 DEF FragInv
  <2>2. DOMAIN sending'.tmp = {}  BY <1>22, IdleType
  <2> QED BY <2>1, <2>2 DEF FragInv, SoundNow
<1>25. TypeOK'
  <2>1. written' \in Nat /\ state' \in SendState  BY <1>1, <1>2, <1>7 DEF SendState
  <2>2. sending' \in Sending  BY <1>22, IdleType
  <2> QED BY <1>1, <1>9, <1>10, <1>12, <1>22, <1>23, <2>1, <2>2 DEF TypeOK
<1>26. DataInv'
  <2>1. discarded \in Nat /\ Len(src) \in Nat /\ discarded <= written /\ written <= total
    BY DEF TypeOK, DataInv
  <2>2. discarded' <= written' /\ written' <= total
    BY <1>1, <1>2, <1>5, <1>7, <2>1 DEF remain, total, n
  <2> QED BY <1>1, <2>2 DEF DataInv, total
<1>27. CreditInv'
  <2>1. flow'.used = written' /\ written' <= flow'.limit  BY <1>1, <1>10
  <2>2. conn'.used = other' + written' /\ conn'.used <= conn'.limit
    BY <1>1, <1>2, <1>7, <1>9 DEF CreditInv
  <2>3. ~applied' => flow'.limit = 0 /\ conn'.limit = 0  BY <1>1, <1>9, <1>10 DEF CreditInv
  <2> QED BY <2>1, <2>2, <2>3 DEF CreditInv
<1>28. StateInv'
  <2>1. state' \in {"send", "data_sent"} /\ (state' = "send" => ~fin_written')
    BY <1>1, <1>12
  <2> QED BY <1>1, <1>4, <1>22, <2>1, IdleType DEF StateInv, can_send
<1> QED BY <1>22, <1>24, <1>25, <1>26, <1>27, <1>28
-----------------------------------------------------------------------------
(* The invariant is inductive. *)
LEMMA NextInv == IndInv /\ [Next]_vars => IndInv'
<1> SUFFICES ASSUME IndInv, [Next]_vars  PROVE  IndInv'
  OBVIOUS
<1>1. CASE User
  <2>1. ASSUME NEW n \in 0..MaxData, NEW f \in BOOLEAN, NEW d \in BOOLEAN, write_ex(n, f, d)
        PROVE  IndInv'
    <3>1. n \in Nat  BY SendAssumption
    <3> QED BY <2>1, <3>1, WriteStep
  <2>2. ASSUME NEW c \in Codes, request_reset(c)  PROVE  IndInv'
    BY <2>2, SetErrorCodeStep DEF request_reset
  <2> QED BY <1>1, <2>1, <2>2, DiscardStep DEF User
<1>2. CASE Credit  BY <1>2, CreditStep
<1>3. CASE Send
  BY <1>3, SendResetStep, BeginEndStep, VisitStep, RetransmitLostStep, RetransmitEndStep,
     SendStreamStep, SendNothingStep DEF Send
<1>4. CASE Detect  BY <1>4, BeginEndStep, VisitStep DEF Detect
<1>5. ASSUME NEW c \in Codes, recv_stop_sending(c)  PROVE  IndInv'
  BY <1>5, SetErrorCodeStep DEF recv_stop_sending
<1>6. ASSUME NEW p \in DOMAIN pkts, mark_as_ack(p) \/ mark_as_lost(p)  PROVE  IndInv'
  BY <1>6, MarkStep DEF mark_as_ack, mark_as_lost
<1>7. CASE UNCHANGED vars
  <2>1. UNCHANGED <<state, flow, error_code, reset_flags, src, discarded, written, fin, fin_written,
                    frags, reset_wait, conn, other, applied, pkts, sending>>
    BY <1>7 DEF vars, stateVars, dataVars, connVars
  <2>2. TypeOK'  BY <2>1 DEF IndInv, TypeOK
  <2>3. DataInv' /\ CreditInv'  BY <2>1 DEF IndInv, DataInv, total, CreditInv
  <2>4. StateInv'  BY <2>1 DEF IndInv, StateInv, can_send
  <2>5. FragInv'  BY <2>1, FragStays DEF IndInv
  <2>6. FrameInv'  BY <2>1, FrameStays DEF IndInv, FramesUntouched
  <2> QED BY <2>2, <2>3, <2>4, <2>5, <2>6 DEF IndInv
<1> QED BY <1>1, <1>2, <1>3, <1>4, <1>5, <1>6, <1>7 DEF Next

LEMMA SpecInv == Spec => []IndInv
BY InitInv, NextInv, PTL DEF Spec

(* Every frame out satisfies FrameOK. *)
LEMMA SentFramesOK ==
  ASSUME IndInv, NEW f \in SentFrames
  PROVE  f \in FrameType /\ FrameOKNow(f)
<1>1. CASE \E p \in DOMAIN pkts : f \in FramesOf(p)
  <2>1. PICK p \in DOMAIN pkts : f \in FramesOf(p)  BY <1>1
  <2>2. PICK k \in DOMAIN pkts[p].frames : f = pkts[p].frames[k]  BY <2>1 DEF FramesOf
  <2> QED BY <2>2, PacketFrames DEF IndInv, FrameInv
<1>2. CASE \E k \in DOMAIN sending.frames : f = sending.frames[k]
  <2>1. sending.frames \in Seq(FrameType)  BY DEF IndInv, TypeOK, Sending
  <2> QED BY <1>2, <2>1 DEF IndInv, FrameInv
<1>3. \/ f \in UNION {FramesOf(p) : p \in DOMAIN pkts}
      \/ f \in {sending.frames[k] : k \in DOMAIN sending.frames}
  BY DEF SentFrames
<1>4. ASSUME f \in UNION {FramesOf(p) : p \in DOMAIN pkts}
      PROVE  \E p \in DOMAIN pkts : f \in FramesOf(p)
  <2>1. PICK S \in {FramesOf(p) : p \in DOMAIN pkts} : f \in S  BY <1>4
  <2>2. PICK p \in DOMAIN pkts : S = FramesOf(p)  BY <2>1
  <2> QED BY <2>1, <2>2
<1> QED BY <1>1, <1>2, <1>3, <1>4

LEMMA StreamFrameFacts ==
  ASSUME NEW f \in FrameType
  PROVE  /\ f.type = "STREAM" => EndOf(f) \in Nat
         /\ f.type = "RESET_STREAM" => f \in ResetFrameType
<1>1. ASSUME f.type = "STREAM"  PROVE  EndOf(f) \in Nat
  <2>1. f \in StreamFrameType  BY <1>1 DEF FrameType, ResetFrameType
  <2>2. f.offset \in Nat /\ Len(f.data) \in Nat  BY <2>1 DEF StreamFrameType
  <2> QED BY <2>2 DEF EndOf
<1>2. ASSUME f.type = "RESET_STREAM"  PROVE  f \in ResetFrameType
  BY <1>2 DEF FrameType, StreamFrameType
<1> QED BY <1>1, <1>2
-----------------------------------------------------------------------------
(* The state of SendUniStreamState, StreamWriteData and the Retransmiter   *)
(* keeps its types, whatever is written, sent, lost, acknowledged or reset. *)
THEOREM TypeCorrect == Spec => []TypeOK
<1>1. IndInv => TypeOK  BY DEF IndInv
<1> QED BY <1>1, SpecInv, PTL

(* Every STREAM frame carries the user's bytes of its offsets, through     *)
(* discard_written_data, splitting and any number of retransmissions.      *)
THEOREM Faithful == Spec => []ContentFaithful
<1>1. IndInv => ContentFaithful
  <2> SUFFICES ASSUME IndInv, NEW f \in SentFrames, f.type = "STREAM"
               PROVE  \A k \in DOMAIN f.data : f.data[k] = f.offset + k
    BY DEF ContentFaithful
  <2> QED BY SentFramesOK DEF FrameOKNow, FrameOK, Sound
<1> QED BY <1>1, SpecInv, PTL

(* All FINs and RESET_STREAMs of a stream agree on its final size. *)
THEOREM OneFinalSize == Spec => []FinalSizeAgreed
<1>1. IndInv => FinalSizeAgreed
  <2> SUFFICES ASSUME IndInv, NEW f \in SentFrames, NEW g \in SentFrames
               PROVE  /\ f.type = "STREAM" /\ f.fin /\ g.type = "STREAM" => EndOf(g) <= EndOf(f)
                      /\ f.type = "RESET_STREAM" /\ g.type = "STREAM" =>
                           EndOf(g) <= f.final_size /\ (g.fin => EndOf(g) = f.final_size)
                      /\ f.type = "RESET_STREAM" /\ g.type = "RESET_STREAM" => f = g
    BY DEF FinalSizeAgreed
  <2>1. f \in FrameType /\ g \in FrameType /\ FrameOKNow(f) /\ FrameOKNow(g)  BY SentFramesOK
  <2>2. written \in Nat /\ flow.used = written  BY DEF IndInv, TypeOK, CreditInv
  <2>3. f.type = "STREAM" /\ f.fin /\ g.type = "STREAM" => EndOf(g) <= EndOf(f)
    BY <2>1 DEF FrameOKNow, FrameOK, Sound
  <2>4. f.type = "RESET_STREAM" /\ g.type = "STREAM" =>
          EndOf(g) <= f.final_size /\ (g.fin => EndOf(g) = f.final_size)
    BY <2>1, <2>2 DEF FrameOKNow, FrameOK, Sound
  <2>5. ASSUME f.type = "RESET_STREAM", g.type = "RESET_STREAM"  PROVE  f = g
    <3>1. f \in ResetFrameType /\ g \in ResetFrameType  BY <2>1, <2>5, StreamFrameFacts
    <3>2. f.final_size = g.final_size /\ f.code = g.code /\ f.type = g.type
      BY <2>1, <2>5 DEF FrameOKNow, FrameOK
    <3> QED BY <3>1, <3>2 DEF ResetFrameType
  <2> QED BY <2>3, <2>4, <2>5
<1> QED BY <1>1, SpecInv, PTL

(* No frame reaches past the stream's limit, and the connection is charged *)
(* each byte of this stream exactly once.                                  *)
THEOREM CreditRespected == Spec => []WithinCredit
<1>1. IndInv => WithinCredit
  <2> SUFFICES ASSUME IndInv  PROVE  WithinCredit
    OBVIOUS
  <2>1. ASSUME NEW f \in SentFrames, f.type = "STREAM"  PROVE  EndOf(f) <= flow.limit
    <3>1. EndOf(f) \in Nat /\ EndOf(f) <= written
      BY <2>1, SentFramesOK, StreamFrameFacts DEF FrameOKNow, FrameOK, Sound
    <3>2. written \in Nat /\ flow.limit \in Nat /\ written <= flow.limit
      BY Border8Assumption DEF IndInv, TypeOK, CreditInv, LimiterType
    <3> QED BY <3>1, <3>2
  <2> QED BY <2>1 DEF WithinCredit, IndInv, CreditInv
<1> QED BY <1>1, SpecInv, PTL

(* The branches the code reports as library bugs are unreachable:          *)
(* invalid_data in send_retransmit_stream, a refused state.send or         *)
(* use_send_credit in send_impl, a refused StreamWriteData::update.        *)
THEOREM BugBranchesDead == Spec => []NoLibraryBug
<1>1. IndInv => NoLibraryBug
  <2> SUFFICES ASSUME IndInv  PROVE  NoLibraryBug
    OBVIOUS
  <2>1. frags \in Seq(Frag) /\ sending.tmp \in Seq(Frag) /\ sending.room \in Nat /\ written \in Nat
    BY DEF IndInv, TypeOK, Sending
  <2>2. ASSUME NEW k \in DOMAIN InFlight  PROVE  ~invalid_data(InFlight[k])
    <3>1. /\ InFlight \in Seq(Frag)
          /\ \/ \E j \in DOMAIN frags : InFlight[k] = frags[j]
             \/ \E j \in DOMAIN sending.tmp : InFlight[k] = sending.tmp[j]
      BY <2>1, ConcatElements DEF InFlight
    <3>2. Sound(InFlight[k], written, fin_written)  BY <3>1 DEF IndInv, FragInv, SoundNow
    <3>3. InFlight[k] \in Frag  BY <3>1
    <3> DEFINE f == InFlight[k]
    <3>4. f.offset + Len(f.data) \in Nat  BY <3>3 DEF Frag
    <3> HIDE DEF f
    <3>5. ~(f.offset + Len(f.data) > written)  BY <2>1, <3>2, <3>4 DEF Sound, EndOf, f
    <3>6. f.fin => fin_written /\ f.offset + Len(f.data) = written  BY <3>2 DEF Sound, EndOf, f
    <3> QED BY <3>5, <3>6 DEF invalid_data, f
  <2>3. update_use_ok(flow, written + NewFit.len) /\ use_ok(conn, NewFit.len)
    <3>1. flow.limit \in Nat /\ flow.used = written /\ written <= flow.limit
          /\ avail_size(flow) \in Nat /\ avail_size(conn) \in Nat
      BY <2>1, Border8Assumption DEF IndInv, TypeOK, LimiterType, CreditInv, avail_size
    <3>2. LET r == get_remain(flow_control_limit)
          IN  /\ NewFit \in [ok : BOOLEAN, len : 0..Len(r), fin : BOOLEAN, size : 0..sending.room]
              /\ NewFit.len <= avail_size(flow) /\ NewFit.len <= avail_size(conn)
      BY <2>1, NewFitFacts DEF IndInv
    <3>3. NewFit.len \in Int  BY <3>2
    <3>4. written + NewFit.len <= flow.limit
      BY <2>1, <3>1, <3>2, <3>3 DEF avail_size
    <3> QED BY <3>1, <3>2, <3>3, <3>4 DEF update_use_ok, use_ok, on_limit
  <2>4. discarded <= written /\ written <= total  BY DEF IndInv, DataInv
  <2> QED BY <2>2, <2>3, <2>4 DEF NoLibraryBug
<1> QED BY <1>1, SpecInv, PTL

(* Once RESET_STREAM is out the stream sends nothing but that frame, and   *)
(* the send states only advance.                                           *)
THEOREM ResetIsFinal == Spec => ResetStopsData
<1> DEFINE Stops ==
      /\ state \in {"reset_sent", "reset_recved"} =>
           /\ state' \in {"reset_sent", "reset_recved"}
           /\ \A p \in DOMAIN pkts' \ DOMAIN pkts :
                \A k \in DOMAIN pkts'[p].frames : pkts'[p].frames[k] = ResetFrame
      /\ is_terminal_state => state' = state
      /\ state = "data_sent" => state' \notin {"ready", "send"}
<1>1. IndInv /\ [Next]_vars => [Stops]_vars
  <2> SUFFICES ASSUME IndInv, Next  PROVE  Stops
    BY DEF vars
  <2> USE DEF is_terminal_state
  <2>1. CASE state' = state /\ pkts' = pkts  BY <2>1
  <2>2. ASSUME NEW room \in Rooms, send_reset(room)  PROVE  Stops
    BY <2>2 DEF send_reset, Calling, can_reset
  <2>3. ASSUME NEW room \in Rooms, send_retransmit_reset(room)  PROVE  Stops
    <3>1. pkts' = Append(pkts, [rec |-> "wait", frames |-> <<ResetFrame>>])
          /\ state = "reset_sent" /\ state' = state
      BY <2>3 DEF send_retransmit_reset, Return, Idle, stateVars
    <3>2. pkts \in Seq(Packet) /\ Len(pkts) \in Nat  BY DEF IndInv, TypeOK
    <3>3. \A p \in DOMAIN pkts' \ DOMAIN pkts :
            pkts'[p] = [rec |-> "wait", frames |-> <<ResetFrame>>]
      BY <3>1, <3>2
    <3> QED BY <3>1, <3>3
  <2>4. CASE reset_done \/ detect_reset_ack
    BY <2>4 DEF reset_done, detect_reset_ack
  <2>5. CASE retransmit_end \/ detect_end
    BY <2>5 DEF retransmit_end, detect_end
  <2>6. CASE send_stream
    BY <2>6 DEF send_stream, Sendable, can_send
  <2>7. CASE send_nothing
    <3>1. state \notin {"reset_sent", "reset_recved"} /\ state' = state
      BY <2>7 DEF send_nothing, IndInv, StateInv, stateVars
    <3> QED BY <3>1
  <2>8. ASSUME NEW p \in DOMAIN pkts, mark_as_ack(p) \/ mark_as_lost(p)  PROVE  Stops
    <3>1. DOMAIN pkts' = DOMAIN pkts /\ state' = state
      BY <2>8 DEF mark_as_ack, mark_as_lost, mark, stateVars
    <3> QED BY <3>1
  <2>9. CASE User
    BY <2>1, <2>9 DEF User, write_ex, discard_written_data, request_reset, set_error_code, stateVars
  <2>10. CASE Credit
    BY <2>1, <2>10 DEF Credit, apply_peer_initial_limits, recv_max_stream_data, recv_max_data,
                       use_send_credit, stateVars
  <2>11. CASE \/ \E room \in Rooms : send_stream_begin(room)
              \/ retransmit_acked \/ retransmit_waiting \/ retransmit_no_capacity
              \/ retransmit_lost \/ detect_begin \/ detect_visit
    BY <2>1, <2>11 DEF send_stream_begin, retransmit_acked, retransmit_waiting,
       retransmit_no_capacity, retransmit_lost, detect_begin, detect_visit, stateVars
  <2>12. ASSUME NEW c \in Codes, recv_stop_sending(c)  PROVE  Stops
    BY <2>1, <2>12 DEF recv_stop_sending, set_error_code
  <2> HIDE DEF Stops
  <2> QED BY <2>2, <2>3, <2>4, <2>5, <2>6, <2>7, <2>8, <2>9, <2>10, <2>11, <2>12
          DEF Next, Send, Detect
<1>2. ResetStopsData <=> [][Stops]_vars  BY DEF ResetStopsData
<1> HIDE DEF Stops
<1> QED BY <1>1, <1>2, SpecInv, PTL DEF Spec
=============================================================================
