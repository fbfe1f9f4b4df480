---------------------------- MODULE RecvHistory ----------------------------
(***************************************************************************)
(* The receive history of the application packet number space              *)
(* (RecvSpaceHistory and RecvPacketHistory, ack/recv_history.h), the ACK   *)
(* ranges it writes and the peer reads (frame/ack.h), and the rule that    *)
(* forgets what the peer knows to be acknowledged (SentAckTracker,         *)
(* status/pn_manage.h).  Packets arrive in any order and any number of     *)
(* times; packets with our ACK frames are acknowledged late or never.  One *)
(* acknowledged ACK frame per packet is enough: only the highest counts.   *)
(***************************************************************************)
EXTENDS Integers, Sequences, FiniteSets, FiniteSetsExt

CONSTANTS
  MaxPn,              \* bound: packet numbers are 0..MaxPn
  DelayCount,         \* config.delay_ack_packet_count
  UseDelay,           \* config.use_ack_delay
  MaxAcks             \* bound: ACK frames sent

ASSUME HistoryAssumption ==
  MaxPn \in Nat /\ DelayCount \in Nat /\ UseDelay \in BOOLEAN /\ MaxAcks \in Nat

PN == 0..MaxPn
infinity == MaxPn + 2    \* above every number the code compares it with

VARIABLES
  ranges,             \* RecvRange list, lowest first
  ignore_under,
  lowest, largest,    \* received since the last ACK, infinity for none
  eliciting,          \* ack_eliciting_packet_since_last_ack
  ack_delay,          \* the timer: "off", "set" or "expired"
  largest_acked_sent_ack,
  processed,          \* how often each packet was processed
  wanted,             \* ack-eliciting packets that were processed
  acks,               \* the ACK frames sent, as ranges and on the wire
  closed              \* an IOResult::fatal closed the connection

vars == <<ranges, ignore_under, lowest, largest, eliciting, ack_delay,
          largest_acked_sent_ack, processed, wanted, acks, closed>>

Contains(r, pn) == r.begin <= pn /\ pn <= r.end
Members(r) == r.begin..r.end
insert_at(s, i, r) == SubSeq(s, 1, i - 1) \o <<r>> \o SubSeq(s, i, Len(s))
erase_at(s, i) == SubSeq(s, 1, i - 1) \o SubSeq(s, i + 1, Len(s))

Init ==
  /\ ranges = <<>> /\ ignore_under = 0
  /\ lowest = infinity /\ largest = infinity /\ eliciting = 0
  /\ ack_delay = "off" /\ largest_acked_sent_ack = 0
  /\ processed = [pn \in PN |-> 0] /\ wanted = {} /\ acks = {} /\ closed = FALSE
-----------------------------------------------------------------------------
(* is_duplicated looks from the highest range down to the first that holds *)
(* pn or ends below it.                                                    *)
(* Mutant of is_duplicated: what was deleted is forgotten. *)
is_duplicated_no_ignore(pn) ==
  LET stop == {i \in DOMAIN ranges : Contains(ranges[i], pn) \/ ranges[i].end < pn}
  IN  stop # {} /\ Contains(ranges[Max(stop)], pn)
is_duplicated(pn) ==
  LET stop == {i \in DOMAIN ranges : Contains(ranges[i], pn) \/ ranges[i].end < pn}
  IN  \/ pn < ignore_under
      \/ stop # {} /\ Contains(ranges[Max(stop)], pn)

(* add_to_range: the first range from the top that pn extends, follows or  *)
(* is in.  Only a range that pn itself belongs to would be merged.         *)
(* Mutant of add_to_range: the range is extended without a look at the gap. *)
add_to_range_stretch(rs, under, pn) ==
  LET stop == {i \in DOMAIN rs : rs[i].end < pn + 1 \/ Contains(rs[i], pn)}
  IN  IF stop = {} THEN <<[begin |-> pn, end |-> pn]>> \o rs
      ELSE [rs EXCEPT ![Max(stop)].end = pn]
add_to_range(rs, under, pn) ==
  LET stop == {i \in DOMAIN rs : rs[i].end < pn + 1 \/ Contains(rs[i], pn)}
      i    == Max(stop)
      new  == [begin |-> pn, end |-> pn]
      grown == [rs EXCEPT ![i].end = pn]
  IN  IF pn < under THEN rs
      ELSE IF stop = {}
      THEN IF rs # <<>> /\ pn + 1 = rs[1].begin
           THEN [rs EXCEPT ![1].begin = pn] ELSE <<new>> \o rs
      ELSE IF rs[i].end + 1 = pn
      THEN IF i < Len(rs) /\ rs[i + 1].begin = pn
           THEN erase_at([grown EXCEPT ![i + 1].begin = rs[i].begin], i + 1) ELSE grown
      ELSE IF rs[i].end < pn + 1 THEN insert_at(rs, i + 1, new)
      ELSE rs

(* delete_under forgets what lies below the first number still of interest. *)
delete_under(pn) ==
  LET kept == {i \in DOMAIN ranges : ranges[i].end >= pn}
  IN  IF kept = {} THEN <<>>
      ELSE [i \in 1..(Len(ranges) - Min(kept) + 1) |->
              [begin |-> Max({ranges[i + Min(kept) - 1].begin, pn}),
               end |-> ranges[i + Min(kept) - 1].end]]

(* SentAckTracker: the packets with the ACK frames F were acknowledged.    *)
(* Mutant of largest_acked: one number too many is given up. *)
largest_acked_next(F) == Max({largest_acked_sent_ack} \cup {f.largest_ack + 2 : f \in F})
largest_acked(F) == Max({largest_acked_sent_ack} \cup {f.largest_ack + 1 : f \in F})

(* A packet arrives.  A duplicate is dropped.  Else its frames are         *)
(* handled, first the acknowledgement of packets that carried our ACK      *)
(* frames F, if it has one; last, on_packet_processed records it.          *)
handle_single_packet(pn, is_ack_eliciting, F) ==
  LET under == largest_acked(F)
      kept  == IF F = {} THEN ranges ELSE delete_under(under)
  IN
  /\ ~closed
  /\ ~is_duplicated(pn)
  /\ largest_acked_sent_ack' = under
  /\ ignore_under' = IF F = {} THEN ignore_under ELSE under
  /\ eliciting' = eliciting + (IF is_ack_eliciting THEN 1 ELSE 0)
  /\ lowest' = IF lowest = infinity \/ pn < lowest THEN pn ELSE lowest
  /\ largest' = IF lowest = infinity \/ pn > largest THEN pn ELSE largest
  /\ ranges' = add_to_range(kept, ignore_under', pn)
  /\ ack_delay' = IF ack_delay = "off" /\ eliciting' < DelayCount THEN "set" ELSE ack_delay
  /\ processed' = [processed EXCEPT ![pn] = @ + 1]
  /\ wanted' = IF is_ack_eliciting THEN wanted \cup {pn} ELSE wanted
  /\ UNCHANGED <<acks, closed>>

timeout ==
  /\ ~closed /\ ack_delay = "set"
  /\ ack_delay' = "expired"
  /\ UNCHANGED <<ranges, ignore_under, lowest, largest, eliciting, largest_acked_sent_ack,
                 processed, wanted, acks, closed>>
-----------------------------------------------------------------------------
(* Mutant of should_send_app_ack: the delay timer is not looked at. *)
should_send_app_ack_count == ~UseDelay \/ eliciting >= DelayCount
should_send_app_ack == ~UseDelay \/ ack_delay = "expired" \/ eliciting >= DelayCount

(* get_ranges: the part of the history since the last ACK, highest first. *)
Clip(r) == [largest |-> Min({r.end, largest}), smallest |-> Max({r.begin, lowest})]
get_ranges ==
  LET in == {i \in DOMAIN ranges : ranges[i].begin <= largest /\ ranges[i].end >= lowest}
  IN  IF lowest = infinity \/ in = {} THEN <<>>
      ELSE [k \in 1..(Max(in) - Min(in) + 1) |-> Clip(ranges[Max(in) + 1 - k])]

is_sorted_ack_ranges(rs) ==
  /\ rs # <<>>
  /\ \A k \in DOMAIN rs : rs[k].smallest <= rs[k].largest
  /\ \A k \in DOMAIN rs \ {1} : /\ rs[k].smallest < rs[k - 1].smallest
                               /\ rs[k].largest < rs[k - 1].largest

(* convert_to_ACKFrame; a gap below zero wraps to a number that no varint  *)
(* holds, and writing the frame fails.                                     *)
(* Mutant of convert_to_ACKFrame: the gap is one too large. *)
convert_to_ACKFrame_gap(rs) ==
  [largest_ack |-> rs[1].largest, first_ack_range |-> rs[1].largest - rs[1].smallest,
   ack_ranges |-> [k \in 1..(Len(rs) - 1) |->
                     [gap |-> rs[k].smallest - rs[k + 1].largest - 1,
                      len |-> rs[k + 1].largest - rs[k + 1].smallest]]]
convert_to_ACKFrame(rs) ==
  [largest_ack |-> rs[1].largest, first_ack_range |-> rs[1].largest - rs[1].smallest,
   ack_ranges |-> [k \in 1..(Len(rs) - 1) |->
                     [gap |-> rs[k].smallest - rs[k + 1].largest - 2,
                      len |-> rs[k + 1].largest - rs[k + 1].smallest]]]
Encodable(f) == \A k \in DOMAIN f.ack_ranges : f.ack_ranges[k].gap >= 0

(* convert_from_ACKFrame, what the peer reads. *)
convert_from_ACKFrame(f) ==
  LET range[k \in 1..(Len(f.ack_ranges) + 1)] ==
        IF k = 1
        THEN [largest |-> f.largest_ack, smallest |-> f.largest_ack - f.first_ack_range]
        ELSE LET w == f.ack_ranges[k - 1]
                 l == range[k - 1].smallest - w.gap - 2
             IN  [largest |-> l, smallest |-> l - w.len]
  IN  range

(* send() with room for the frame. *)
send ==
  /\ ~closed
  /\ should_send_app_ack
  /\ eliciting # 0 /\ get_ranges # <<>>
  /\ Cardinality(acks) < MaxAcks
  /\ LET f  == convert_to_ACKFrame(get_ranges)
         ok == is_sorted_ack_ranges(get_ranges) /\ Encodable(f)
     IN  IF ok
         THEN /\ acks' = acks \cup {f}
              /\ eliciting' = 0 /\ lowest' = infinity /\ largest' = infinity
              /\ ack_delay' = "off"
              /\ closed' = FALSE
         ELSE /\ closed' = TRUE
              /\ UNCHANGED <<acks, eliciting, lowest, largest, ack_delay>>
  /\ UNCHANGED <<ranges, ignore_under, largest_acked_sent_ack, processed, wanted>>
-----------------------------------------------------------------------------
Next ==
  \/ \E pn \in PN, e \in BOOLEAN, F \in SUBSET acks :
        Cardinality(F) <= 1 /\ handle_single_packet(pn, e, F)
  \/ timeout
  \/ send

Spec == Init /\ [][Next]_vars
FairSpec == Spec /\ WF_vars(timeout) /\ WF_vars(send)
-----------------------------------------------------------------------------
Recorded == UNION {Members(ranges[i]) : i \in DOMAIN ranges}
AckedBy(f) == LET rs == convert_from_ACKFrame(f)
              IN  UNION {rs[k].smallest..rs[k].largest : k \in DOMAIN rs}

(* The types of the history. *)
TypeOK ==
  /\ \A i \in DOMAIN ranges : ranges[i].begin \in PN /\ ranges[i].end \in PN
  /\ ignore_under \in 0..(MaxPn + 1) /\ largest_acked_sent_ack \in 0..(MaxPn + 1)
  /\ lowest \in PN \cup {infinity} /\ largest \in PN \cup {infinity}
  /\ eliciting \in Nat /\ ack_delay \in {"off", "set", "expired"}
  /\ processed \in [PN -> Nat] /\ wanted \subseteq PN /\ closed \in BOOLEAN

(* The list stands for the set it should: in whatever order packets come   *)
(* and ranges are deleted, it holds exactly the processed packets from     *)
(* ignore_under on, in rising ranges that do not overlap.                  *)
RangesExact ==
  /\ Recorded = {pn \in PN : processed[pn] > 0 /\ pn >= ignore_under}
  /\ \A i \in DOMAIN ranges : ranges[i].begin <= ranges[i].end
  /\ \A i, j \in DOMAIN ranges : i < j => ranges[i].end < ranges[j].begin

(* However often a packet arrives, and however late, its frames are        *)
(* handled at most once, also after its range was deleted.                 *)
ProcessedOnce == \A pn \in PN : processed[pn] <= 1

(* The peer never reads an acknowledgement of a packet that was not        *)
(* processed: true of the ranges after encoding and decoding.              *)
AcksOnlyProcessed == \A f \in acks : \A pn \in AckedBy(f) : pn \in PN /\ processed[pn] > 0

(* An ack-eliciting packet is acknowledged, unless its range was deleted   *)
(* first because it came after a higher number whose ACK is known.         *)
AckedEventually ==
  \A pn \in PN :
    pn \in wanted ~> \/ \E f \in acks : pn \in AckedBy(f)
                     \/ pn < ignore_under \/ closed

(* frame/ack.h encodes the ranges by RFC 9000 19.3.1, where two ranges are *)
(* at least one packet apart: writing the ACK frame never fails.           *)
AckNeverFatal == ~closed
=============================================================================
