------------------------------ MODULE Limiter ------------------------------
(***************************************************************************)
(* core/limiter.h: a limit the peer (or this endpoint) grants and the      *)
(* usage charged against it.  A Limiter is the record [limit, used].  Each *)
(* bool-returning method is a pair: the condition under which it returns   *)
(* true, and the Limiter it leaves behind.                                 *)
(***************************************************************************)
EXTENDS Integers

CONSTANT Border8    \* varint::border(8), 2^62 in the code

ASSUME Border8Assumption == Border8 \in Nat \ {0}

LimiterType == [limit : 0..(Border8 - 1), used : Nat]

NewLimiter == [limit |-> 0, used |-> 0]

avail_size(l) == IF l.limit > l.used THEN l.limit - l.used ELSE 0

on_limit(l, delta) == avail_size(l) < delta

(* Only for the first time or for transport parameters: may lower the limit. *)
set_limit(l, new) == IF new < Border8 THEN [l EXCEPT !.limit = new] ELSE l

update_limit_ok(l, new) == new < Border8 /\ new > l.limit
update_limit(l, new) == IF update_limit_ok(l, new) THEN [l EXCEPT !.limit = new] ELSE l

(* Mutant of use: the amount is taken for the absolute usage. *)
use_absolute(l, s) == [l EXCEPT !.used = s]
use_ok(l, s) == ~on_limit(l, s)
use(l, s) == IF use_ok(l, s) THEN [l EXCEPT !.used = l.used + s] ELSE l

(* Mutant of update_use: the absolute usage is added as if it were a delta. *)
update_use_delta(l, new_used) == [l EXCEPT !.used = l.used + new_used]

(* new_used is absolute: an end offset or a stream count. *)
update_use_ok(l, new_used) == new_used <= l.limit
update_use(l, new_used) ==
  IF update_use_ok(l, new_used) /\ new_used > l.used
  THEN [l EXCEPT !.used = new_used] ELSE l
=============================================================================
