------------------------- MODULE StreamFrameProofs -------------------------
(***************************************************************************)
(* What make_fit_size_Stream guarantees for every room, offset and amount  *)
(* of data: the facts the proofs about SendStream rest on.                 *)
(***************************************************************************)
EXTENDS StreamFrame, TLAPS

(* varint::len is one of the four widths and grows with the number. *)
LEMMA VarintLenType ==
  ASSUME NEW n \in Int
  PROVE  varint_len(n) \in {1, 2, 4, 8}
BY DEF varint_len

LEMMA VarintLenMonotone ==
  ASSUME NEW m \in Int, NEW n \in Int, m <= n
  PROVE  varint_len(m) <= varint_len(n)
BY BordersAssumption DEF varint_len

(* The largest element exists for a subset of 0..7 that holds 0. *)
LEMMA MaxOfSmallSet ==
  ASSUME NEW S \in SUBSET (0..7), 0 \in S
  PROVE  Max(S) \in S /\ \A y \in S : y <= Max(S)
<1>1. \E x \in S : \A y \in S : x >= y
  <2>1. CASE 7 \in S  BY <2>1
  <2>2. CASE 7 \notin S /\ 6 \in S  BY <2>2
  <2>3. CASE 7 \notin S /\ 6 \notin S /\ 5 \in S  BY <2>3
  <2>4. CASE 7 \notin S /\ 6 \notin S /\ 5 \notin S /\ 4 \in S  BY <2>4
  <2>5. CASE S \subseteq 0..3  BY <2>5
  <2>6. S \subseteq 0..3 \/ 7 \in S \/ 6 \in S \/ 5 \in S \/ 4 \in S  OBVIOUS
  <2> QED BY <2>1, <2>2, <2>3, <2>4, <2>5, <2>6
<1>2. Max(S) \in S /\ \A y \in S : Max(S) >= y
  BY <1>1 DEF Max
<1> QED BY <1>2

(* A frame with a length field fits the room and carries at most the data. *)
LEMMA WithLenFits ==
  ASSUME NEW to_fit \in Nat, NEW fixed \in Nat, NEW n \in Nat, NEW z \in BOOLEAN,
         shrink_to_fit_with_len(to_fit, fixed, n, z).valid
  PROVE  LET r == shrink_to_fit_with_len(to_fit, fixed, n, z)
         IN  /\ r.len \in 0..n
             /\ fixed + varint_len(r.len) + r.len <= to_fit
<1> DEFINE to_write == fixed + varint_len(n) + n
           cut      == IF to_write > to_fit THEN n - (to_write - to_fit) ELSE n
           delta    == varint_len(n) - (IF cut < 0 THEN 1 ELSE varint_len(cut))
           fits(k)  == length_exists_max_len(fixed, cut + k) \in 0..to_fit
           S        == {k \in 0..delta : \A j \in 1..k : fits(j)}
           len      == cut + (IF delta # 0 THEN Max(S) ELSE 0)
<1>0. length_exists_max_len(fixed, n) = to_write
  BY DEF length_exists_max_len
<1>1. cut \in Int /\ cut <= n /\ varint_len(n) \in {1, 2, 4, 8}
  BY VarintLenType
<1>2. varint_len(cut) \in {1, 2, 4, 8} /\ varint_len(cut) <= varint_len(n)
  BY <1>1, VarintLenType, VarintLenMonotone
<1>3. delta \in 0..7
  BY <1>1, <1>2
<1>4. Max(S) \in S
  <2>1. S \in SUBSET (0..7) /\ 0 \in S  BY <1>3
  <2> HIDE DEF S
  <2> QED BY <2>1, MaxOfSmallSet
<1>5. shrink_to_fit_with_len(to_fit, fixed, n, z) =
        IF n >= Border8 \/ (IF z THEN len < 0 ELSE len <= 0)
        THEN [len |-> 0, valid |-> FALSE] ELSE [len |-> len, valid |-> TRUE]
  BY <1>0 DEF shrink_to_fit_with_len, correct_delta
<1>6. shrink_to_fit_with_len(to_fit, fixed, n, z).len = len /\ len >= 0 /\ len \in Int
  <2>1. len \in Int  BY <1>1, <1>3, <1>4
  <2> HIDE DEF len
  <2> QED BY <1>5, <2>1
<1>7. fixed + varint_len(len) + len <= to_fit
  <2>1. CASE to_write <= to_fit
    <3>1. cut = n /\ delta = 0 /\ len = n  BY <2>1, <1>1
    <3> QED BY <2>1, <3>1
  <2>2. CASE to_write > to_fit
    <3>1. fixed + varint_len(n) + cut = to_fit  BY <2>2, <1>1
    <3>2. CASE delta = 0 \/ Max(S) = 0
      <4>1. len = cut  BY <3>2, <1>1
      <4> QED BY <3>1, <4>1, <1>1, <1>2
    <3>3. CASE delta # 0 /\ Max(S) # 0
      <4> DEFINE m == Max(S)
      <4>1. len = cut + m  BY <3>3
      <4>2. m \in 1..m /\ m \in Nat  BY <3>3, <1>4, <1>3
      <4>3. fits(m)  BY <4>2, <1>4
      <4>4. cut \in Int /\ len \in Int /\ len >= 0  BY <1>1, <1>6
      <4>6. varint_len(len) \in Nat
        <5> HIDE DEF len
        <5> QED BY <4>4, VarintLenType
      <4> HIDE DEF cut, S, len, m
      <4>5. len < 0 \/ fixed + varint_len(len) + len <= to_fit
        BY <4>1, <4>3, <4>4, <4>6 DEF length_exists_max_len
      <4> HIDE DEF fits
      <4> QED BY <4>1, <4>2, <4>4, <4>5, <4>6
    <3> QED BY <3>2, <3>3
  <2>3. to_write \in Int  BY <1>1
  <2> HIDE DEF to_write, cut, delta, S, len
  <2> QED BY <2>1, <2>2, <2>3
<1>8. len <= n
  <2>1. CASE to_write <= to_fit
    <3>1. cut = n /\ delta = 0 /\ len = n  BY <2>1, <1>1
    <3> QED BY <3>1
  <2>2. CASE to_write > to_fit
    <3>1. SUFFICES ASSUME len > n PROVE FALSE  BY <1>6
    <3>2. varint_len(n) <= varint_len(len)  BY <3>1, <1>6, VarintLenMonotone
    <3>3. varint_len(len) \in Nat  BY <1>6, VarintLenType
    <3>4. len \in Int /\ varint_len(n) \in Nat  BY <1>1, <1>6
    <3> HIDE DEF len
    <3> QED BY <2>2, <3>1, <3>2, <3>3, <3>4, <1>7
  <2>3. to_write \in Int  BY <1>1
  <2> HIDE DEF to_write, cut, delta, S, len
  <2> QED BY <2>1, <2>2, <2>3
<1> HIDE DEF len
<1> QED BY <1>6, <1>7, <1>8

(* A frame that fits: at most the data, FIN only with all of it, and never *)
(* larger than the room it was made for.                                   *)
THEOREM MakeFitSizeStream ==
  ASSUME NEW to_fit \in Nat, NEW id \in Nat, NEW offset \in Nat, NEW n \in Nat,
         NEW f \in BOOLEAN, NEW z \in BOOLEAN
  PROVE  LET r == make_fit_size_Stream(to_fit, id, offset, n, f, z)
         IN  /\ r \in [ok : BOOLEAN, len : 0..n, fin : BOOLEAN, size : 0..to_fit]
             /\ r.ok /\ r.fin => f /\ r.len = n
<1> DEFINE fixed  == calc_stream_overhead(id, offset)
           no_len == shrink_to_fit_no_len(to_fit, fixed, n)
           with   == shrink_to_fit_with_len(to_fit, fixed, n, z)
           none   == [ok |-> FALSE, len |-> 0, fin |-> FALSE, size |-> 0]
           r      == make_fit_size_Stream(to_fit, id, offset, n, f, z)
<1>1. fixed \in Nat
  BY VarintLenType DEF calc_stream_overhead
<1>2. r = IF no_len.valid
          THEN [ok |-> TRUE, len |-> no_len.len, fin |-> f /\ no_len.len = n, size |-> to_fit]
          ELSE IF ~no_len.usable \/ ~with.valid THEN none
          ELSE [ok |-> TRUE, len |-> with.len, fin |-> f /\ with.len = n,
                size |-> fixed + varint_len(with.len) + with.len]
  BY DEF make_fit_size_Stream
<1>3. CASE no_len.valid
  <2>1. no_len.len \in 0..n
    <3> HIDE DEF fixed
    <3> QED BY <1>3, <1>1 DEF shrink_to_fit_no_len
  <2>2. r = [ok |-> TRUE, len |-> no_len.len, fin |-> f /\ no_len.len = n, size |-> to_fit]
    BY <1>2, <1>3
  <2> DEFINE all == f /\ no_len.len = n
  <2>3. all \in BOOLEAN /\ (all => f /\ no_len.len = n)  OBVIOUS
  <2> HIDE DEF no_len, with, fixed
  <2>4. r = [ok |-> TRUE, len |-> no_len.len, fin |-> all, size |-> to_fit]  BY <2>2
  <2> HIDE DEF all
  <2> QED BY <2>1, <2>3, <2>4
<1>4. CASE ~no_len.valid /\ (~no_len.usable \/ ~with.valid)
  <2>1. r = none  BY <1>2, <1>4
  <2> QED BY <2>1
<1>5. CASE ~no_len.valid /\ no_len.usable /\ with.valid
  <2>1. with.len \in 0..n /\ fixed + varint_len(with.len) + with.len <= to_fit
    <3> HIDE DEF fixed
    <3> QED BY <1>5, <1>1, WithLenFits
  <2>2. varint_len(with.len) \in Nat  BY <2>1, VarintLenType
  <2>3. r = [ok |-> TRUE, len |-> with.len, fin |-> f /\ with.len = n,
             size |-> fixed + varint_len(with.len) + with.len]
    BY <1>2, <1>5
  <2> DEFINE all  == f /\ with.len = n
             size == fixed + varint_len(with.len) + with.len
  <2>4. all \in BOOLEAN /\ (all => f /\ with.len = n)  OBVIOUS
  <2>5. size \in 0..to_fit  BY <2>1, <2>2, <1>1
  <2> HIDE DEF no_len, with, fixed
  <2>6. r = [ok |-> TRUE, len |-> with.len, fin |-> all, size |-> size]  BY <2>3
  <2> HIDE DEF all, size
  <2> QED BY <2>1, <2>4, <2>5, <2>6
<1> QED BY <1>3, <1>4, <1>5
=============================================================================
