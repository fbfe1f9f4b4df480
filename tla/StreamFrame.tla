---------------------------- MODULE StreamFrame ----------------------------
(***************************************************************************)
(* The size arithmetic of STREAM frames: how many bytes of stream data a   *)
(* frame written into a given room carries, and whether it carries FIN.    *)
(* Pure operators, translated from frame/calc_data.h, the two size helpers *)
(* of frame/stream_manage.h and varint::len.  SendStream builds every      *)
(* frame it sends with make_fit_size_Stream.                               *)
(***************************************************************************)
EXTENDS Integers, FiniteSetsExt, Limiter

CONSTANT Borders    \* varint::border(1), border(2), border(4) (exclusive)

(* The three borders grow; 0x40, 0x4000 and 0x40000000 in the code. *)
ASSUME BordersAssumption ==
  /\ Borders \in [1..3 -> Nat \ {0}]
  /\ Borders[1] <= Borders[2]
  /\ Borders[2] <= Borders[3]

(* The width of the shortest variable-length integer that holds n. *)
varint_len(n) ==
  IF n < Borders[1] THEN 1
  ELSE IF n < Borders[2] THEN 2
  ELSE IF n < Borders[3] THEN 4
  ELSE 8

(* Type, stream id and (unless zero) offset: what every frame pays. *)
calc_stream_overhead(id, offset) ==
  1 + varint_len(id) + (IF offset # 0 THEN varint_len(offset) ELSE 0)

(* A frame without the length field must fill the room exactly. *)
shrink_to_fit_no_len(to_fit, fixed, n) ==
  LET len == IF fixed + n > to_fit THEN to_fit - fixed ELSE n
  IN  IF fixed + n > to_fit /\ n < fixed + n - to_fit
      THEN [usable |-> FALSE, len |-> 0, valid |-> FALSE]
      ELSE [usable |-> TRUE, len |-> len, valid |-> fixed + len = to_fit]

(* How many of the delta bytes that a shorter length field frees are usable. *)
(* A negative length wraps to a number no varint holds, of width 0; the sum  *)
(* with the overhead is back in range unless it is negative too.             *)
length_exists_max_len(fixed, len) == fixed + (IF len < 0 THEN 0 ELSE varint_len(len)) + len
correct_delta(to_fit, fixed, len, delta) ==
  Max({k \in 0..delta :
         \A j \in 1..k : length_exists_max_len(fixed, len + j) \in 0..to_fit})

(* A frame with the length field: shrink the data until the frame fits.    *)
(* A length that no varint holds is refused.                               *)
shrink_to_fit_with_len(to_fit, fixed, n, min_zero) ==
  LET to_write == length_exists_max_len(fixed, n)
      cut      == IF to_write > to_fit THEN n - (to_write - to_fit) ELSE n
      delta    == varint_len(n) - (IF cut < 0 THEN 1 ELSE varint_len(cut))
      len      == cut + (IF delta # 0 THEN correct_delta(to_fit, fixed, cut, delta) ELSE 0)
  IN  IF n >= Border8 \/ (IF min_zero THEN len < 0 ELSE len <= 0)
      THEN [len |-> 0, valid |-> FALSE]
      ELSE [len |-> len, valid |-> TRUE]

(* Mutant of make_fit_size_Stream: the size is that of the data before shrinking. *)
make_fit_size_Stream_unshrunk(to_fit, id, offset, n, fin, allow_zero) ==
  LET fixed   == calc_stream_overhead(id, offset)
      no_len  == shrink_to_fit_no_len(to_fit, fixed, n)
      with    == shrink_to_fit_with_len(to_fit, fixed, n, allow_zero)
      none    == [ok |-> FALSE, len |-> 0, fin |-> FALSE, size |-> 0]
  IN  IF no_len.valid
      THEN [ok |-> TRUE, len |-> no_len.len, fin |-> fin /\ no_len.len = n, size |-> fixed + n]
      ELSE IF ~no_len.usable \/ ~with.valid THEN none
      ELSE [ok |-> TRUE, len |-> with.len, fin |-> fin /\ with.len = n,
            size |-> fixed + varint_len(with.len) + with.len]

(* The frame for n bytes of data at an offset in a room of to_fit bytes:   *)
(* ok, the bytes of data it carries, its FIN flag and its encoded size.    *)
make_fit_size_Stream(to_fit, id, offset, n, fin, allow_zero) ==
  LET fixed   == calc_stream_overhead(id, offset)
      no_len  == shrink_to_fit_no_len(to_fit, fixed, n)
      with    == shrink_to_fit_with_len(to_fit, fixed, n, allow_zero)
      none    == [ok |-> FALSE, len |-> 0, fin |-> FALSE, size |-> 0]
  IN  IF no_len.valid
      THEN [ok |-> TRUE, len |-> no_len.len, fin |-> fin /\ no_len.len = n, size |-> to_fit]
      ELSE IF ~no_len.usable \/ ~with.valid THEN none
      ELSE [ok |-> TRUE, len |-> with.len, fin |-> fin /\ with.len = n,
            size |-> fixed + varint_len(with.len) + with.len]
=============================================================================
