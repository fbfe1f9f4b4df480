----------------------------- MODULE RecvSorter -----------------------------
(***************************************************************************)
(* RecvSorter of stream/impl/recv_stream.h: the list of received ranges    *)
(* that a stream's reader drains.  A sorter is a record of the fields; a   *)
(* method is the sorter it leaves behind.  Every method runs under the     *)
(* sorter's lock.  A range is [offset, data]; the code's per-range fin is  *)
(* never read.  prev_notified starts at -1, its value before a callback.   *)
(***************************************************************************)
EXTENDS Integers, Sequences, FiniteSetsExt

RecvRange == [offset : Nat, data : Seq(Nat)]

SorterType ==
  [sorted : Seq(RecvRange), done : BOOLEAN, fin : BOOLEAN, rst : BOOLEAN,
   prev_notified : Nat \cup {-1}, read_pos : Nat, prev_pos : Nat]

NewSorter ==
  [sorted |-> <<>>, done |-> FALSE, fin |-> FALSE, rst |-> FALSE,
   prev_notified |-> -1, read_pos |-> 0, prev_pos |-> 0]

(* offset + size: curmax of a range, newmax of a fragment. *)
max_of(r) == r.offset + Len(r.data)

(* view::rvec::substr: empty past the end, cut to what is there.  An       *)
(* unsigned difference below zero is a huge position or length.            *)
substr(d, pos, n) ==
  IF pos < 0 \/ pos > Len(d) THEN <<>>
  ELSE SubSeq(d, pos + 1, IF n < 0 THEN Len(d) ELSE Min({pos + n, Len(d)}))
substr_from(d, pos) == substr(d, pos, Len(d))

insert(s, i, r) == SubSeq(s, 1, i - 1) \o <<r>> \o SubSeq(s, i, Len(s))

(* Data the reader can take without waiting. *)
available(s) == s.sorted # <<>> /\ s.sorted[1].offset = s.read_pos
(* Mutant of notifies: only the first data is announced. *)
notifies_once(s) == available(s) /\ s.prev_notified = -1
notifies(s) == available(s) /\ s.read_pos # s.prev_notified

contiguous(s) ==
  \A i \in DOMAIN s.sorted :
    s.sorted[i].offset = IF i = 1 THEN s.read_pos ELSE max_of(s.sorted[i - 1])

(* Mutant of check_done: FIN alone ends the stream. *)
check_done_no_scan(s) ==
  [s EXCEPT !.prev_notified = IF notifies(s) THEN s.read_pos ELSE @,
            !.done = s.done \/ s.fin \/ s.rst]

check_done(s) ==
  [s EXCEPT !.prev_notified = IF notifies(s) THEN s.read_pos ELSE @,
            !.done = s.done \/ ((s.fin \/ s.rst) /\ contiguous(s))]
-----------------------------------------------------------------------------
(* The loop of recv carries the list, what is left of the fragment, and    *)
(* whether the call has returned: "loop", "ok" or "error".                 *)

(* The fragment meets range i and reaches no later one. *)
handle_single_range(acc, i) ==
  LET it   == acc.sorted[i]
      pos  == acc.frag.offset - it.offset
      cmp1 == substr_from(it.data, pos)
      add  == substr_from(acc.frag.data, Len(cmp1))
      ok   == [acc EXCEPT !.ret = "ok"]
      fragment_error == [acc EXCEPT !.ret = "error"]
  IN  IF max_of(acc.frag) <= max_of(it)
      THEN IF substr(it.data, pos, Len(acc.frag.data)) = acc.frag.data THEN ok ELSE fragment_error
      ELSE IF acc.frag.offset > max_of(it)
      THEN [ok EXCEPT !.sorted = insert(acc.sorted, i + 1, acc.frag)]
      ELSE IF cmp1 = substr(acc.frag.data, 0, Len(cmp1))
      THEN [ok EXCEPT !.sorted[i].data = it.data \o add]
      ELSE fragment_error

(* The fragment reaches into range i + 1: fill the gap between the two and *)
(* go on with the rest.  The gap is cut from the fragment by               *)
(* nextofs - curmax, wherever the fragment begins.                         *)
fill_gap(acc, i) ==
  LET it   == acc.sorted[i]
      next == acc.sorted[i + 1].offset
      cmp1 == substr_from(it.data, acc.frag.offset - it.offset)
      gap  == next - max_of(it)
  IN  IF cmp1 # substr(acc.frag.data, 0, Len(cmp1))
      THEN [acc EXCEPT !.ret = "error"]
      ELSE [acc EXCEPT
              !.sorted[i].data = it.data \o substr(acc.frag.data, Len(cmp1), gap),
              !.frag = [offset |-> next, data |-> substr_from(acc.frag.data, gap)]]

visit(acc, i) ==
  IF acc.ret # "loop" \/ acc.sorted[i].offset > acc.frag.offset THEN acc
  ELSE IF i = Len(acc.sorted) THEN handle_single_range(acc, i)
  ELSE IF acc.sorted[i + 1].offset <= acc.frag.offset THEN acc
  ELSE IF max_of(acc.frag) <= acc.sorted[i + 1].offset THEN handle_single_range(acc, i)
  ELSE fill_gap(acc, i)

place(sorted, frag) ==
  LET scan[i \in 0..Len(sorted)] ==
        IF i = 0 THEN [sorted |-> sorted, frag |-> frag, ret |-> "loop"]
        ELSE visit(scan[i - 1], i)
      end == scan[Len(sorted)]
      front == end.sorted # <<>> /\ end.frag.offset < end.sorted[1].offset
  IN  IF end.ret # "loop" THEN end
      ELSE [end EXCEPT !.sorted = IF front THEN <<end.frag>> \o end.sorted
                                  ELSE Append(end.sorted, end.frag),
                       !.ret = "ok"]

(* Mutant of sorter_recv: the list is not searched, fragments are appended. *)
sorter_recv_append(s, frag, is_fin) ==
  IF s.done THEN [err |-> FALSE, sorter |-> s]
  ELSE [err |-> FALSE,
        sorter |-> check_done([s EXCEPT !.sorted = Append(s.sorted, frag), !.fin = s.fin \/ is_fin])]

(* recv: a fragment that begins before read_pos is ignored, FIN included. *)
sorter_recv(s, frag, is_fin) ==
  LET placed == place(s.sorted, frag)
  IN  IF s.done THEN [err |-> FALSE, sorter |-> s]
      ELSE IF frag.offset < s.read_pos THEN [err |-> FALSE, sorter |-> check_done(s)]
      ELSE IF placed.ret = "error"
      THEN [err |-> TRUE, sorter |-> [s EXCEPT !.sorted = placed.sorted]]
      ELSE [err |-> FALSE,
            sorter |-> check_done([s EXCEPT !.sorted = placed.sorted, !.fin = s.fin \/ is_fin])]

sorter_reset(s) == [s EXCEPT !.rst = TRUE]
-----------------------------------------------------------------------------
(* What read_impl copies into a buffer of n bytes: ranges are consumed as  *)
(* long as each begins at read_pos, the last one perhaps in part.          *)
read_impl(s, n) ==
  LET copy(p) ==
        LET d == p.rest[1].data
            room == n - Len(p.got)
            m == Min({Len(d), room})
        IN  IF p.rest = <<>> \/ room = 0 \/ p.rest[1].offset # p.pos THEN p
            ELSE [got |-> p.got \o SubSeq(d, 1, m), pos |-> p.pos + m,
                  rest |-> IF Len(d) > room
                           THEN <<[offset |-> p.pos + m, data |-> SubSeq(d, m + 1, Len(d))]>>
                                \o Tail(p.rest)
                           ELSE Tail(p.rest)]
      loop[i \in 0..Len(s.sorted)] ==
        IF i = 0 THEN [got |-> <<>>, pos |-> s.read_pos, rest |-> s.sorted]
        ELSE copy(loop[i - 1])
      end == loop[Len(s.sorted)]
  IN  [got |-> end.got,
       sorter |-> [s EXCEPT !.sorted = end.rest, !.read_pos = end.pos],
       eos |-> end.rest = <<>> /\ s.done]

(* Mutant of read_direct: read_pos stays where it was. *)
read_direct_no_advance(s) ==
  [got |-> s.sorted[1].data, sorter |-> [s EXCEPT !.sorted = Tail(s.sorted)],
   eos |-> Len(s.sorted) = 1 /\ s.done]

(* read_direct: the range at the front, whole; s is available. *)
read_direct(s) ==
  LET rest == Tail(s.sorted)
  IN  [got |-> s.sorted[1].data,
       sorter |-> [s EXCEPT !.sorted = rest, !.read_pos = s.read_pos + Len(s.sorted[1].data)],
       eos |-> rest = <<>> /\ s.done]
=============================================================================
