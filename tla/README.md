# TLA+ models of the QUIC transport in futils

futils is a C++ library; the part of it that keeps state across threads,
packets and timers is its QUIC transport, `src/src/include/fnet/quic`
(paths below are relative to it). This directory models the transport's
streams, their flow control and the acknowledgement of received packets,
checks the models with TLC on small instances and proves the sending half
with TLAPS for all instances.

## The system and its parts

| part | code | state | operations | model |
|---|---|---|---|---|
| sending half of a stream | `stream/impl/stream.h`, `stream/core/stream_base.h`, `core/base.h`, `resend/fragments.h` | send state, write buffer, sent fragments, credit, reset | write, discard, send, retransmit, reset, STOP_SENDING, MAX_(STREAM_)DATA, ack/loss | `SendStream` |
| STREAM frame sizes | `frame/calc_data.h`, `frame/stream_manage.h` | none | `make_fit_size_Stream` | `StreamFrame` |
| limits | `stream/core/limiter.h` | limit, used | use, update | `Limiter` |
| reordering of received data | `stream/impl/recv_stream.h` | list of ranges, read position, done/fin/rst | recv, read, read_direct, reset | `RecvSorter` |
| receiving half of a stream | `stream/impl/stream.h`, `core/stream_base.h`, `impl/recv_buffer.h` | receive state, window, control frames in flight | recv, reset, automatic window update, send of control frames, read, stop | `RecvStream` |
| received packets | `ack/recv_history.h`, `frame/ack.h` | ranges, border, delay timer | process packet, time out, send ACK, forget | `RecvHistory` |
| streams of a connection | `stream/impl/conn.h`, `conn_flow.h`, `conn_handler.h`, `core/conn_base.h`, `core/issue_accept.h` | stream table, stream and data limits, announcements | receive a frame, remove, send, raise limits | `ConnStreams` |
| sent packets, loss, congestion | `ack/sent_history.h`, `status/` | sent packets, timers, windows | send, ack, time out | planned |
| connection IDs | `connid/` | issued and accepted IDs | issue, accept, retire | planned |
| context, handshake, close, key update, datagrams, path MTU, server | `context/`, `crypto/`, `close/`, `dgram/`, `path/`, `server/` | | | planned |

The rest of the repository (text and number utilities, parsers, file and
console I/O, code generators, the command line tools) is sequential code on
strings and bytes; `PROJECT.json` lists each part with the reason it is left out.

### Interaction and threads

A UDP payload is parsed by `Context::parse_udp_payload` and built by
`create_udp_payload`; both are documented as "thread unsafe call"
(`context/context.h:1445`, `1492`), so one *connection thread* at a time
receives and sends. The *user's thread* writes to and reads from streams,
removes them and raises limits at any time; the stream's lock, the sorter's
lock and the connection's locks keep single methods apart. The models follow
that structure. A method that runs under one lock is one action (or a run of
actions during which nothing else that takes this lock can happen). Where the
code leaves a lock and takes it again, the model has a step in between:
`do_auto_update` of the receive buffer, which asks the sorter before it takes
the stream's lock; `AutoIncreaser`, which counts the open streams under another
lock than the one under which it raises the limit; `update_max_data` and
`send_max_data`, which take two different locks.

Streams learn the fate of their packets from `ACKLostRecord`: every frame that
must not be lost watches the record of the packet that last carried it. In all
models a packet is a record in state `wait`, `ack` or `lost`, and the packet
layer moves it out of `wait` once, at any time: also a packet that did arrive
may be given up as lost.

### What is hard to get right here

The full list is under `hazards` in `PROJECT.json`. The main ones: frames
that are split again when they are retransmitted; fragments bound to a record
of a packet that does not carry them; late acknowledgements of old packets;
frames reordered and repeated while the user drains the list; wakeups suppressed
because the same position was notified before; a window that grows while the user
reads; one error code field used for both directions of a reset; limits raised
while their announcement is lost or under way; ranges of packet numbers that an ACK
frame cannot express.

## Modules

`SendStream` has the fields of `SendUniStreamState`, `StreamWriteData` and
`Retransmiter` as variables, and `sending`, the call that holds the stream's
lock: `send()` visits one fragment per step (`retransmit_acked`,
`retransmit_waiting`, `retransmit_no_capacity`, `retransmit_lost`,
`retransmit_end`), then sends new data (`send_stream`) or nothing;
`detect_ack_lost` is `detect_*`. The user's k-th byte is the number k, so a
fragment's content can be compared with its offset. What the model leaves out:
the text of errors, the BLOCKED frames (they inform, nothing waits for them), and
the move of the stream between the sender's lists.

`RecvSorter` translates the list handling of `recv` branch by branch,
unsigned wrap-around of `substr` included. `RecvStream` puts it behind
`recv_impl`, adds the window update and the two control frames, and models the
peer as any sender that keeps to the limits it was told and names one final size.
Which frames that peer may cut its data into is the constant `Frames`. If every
frame is retransmitted as it was sent first, the checked properties hold, with one
exception: a frame without data and without FIN, which this library's own sender
makes when the room equals the frame's overhead, can cost the reader a wakeup. If
frames are cut differently, the order of ranges breaks too (see findings).
`user_read_full` has no condition on what the user has read, as in the code. The
user of the model reads on after a full buffer and waits after one that was not
filled.

`RecvHistory` has one action per received packet: the duplicate check, the
forgetting of ranges for an acknowledged ACK, then the registration of the packet,
in the code's order. `convert_to_ACKFrame` and `convert_from_ACKFrame` are the
frame's real arithmetic of gaps and lengths.

`ConnStreams` models the streams the peer opens. Each thread has a list of
steps still to do (`todo`), one per lock-held piece of `Conn::recv`,
`remove`, `send`, `auto_increase` and the user's calls that raise limits.

`SendStreamProofs` and `StreamFrameProofs` hold the theorems. The `MC*`
modules give the constants that a configuration file cannot write; `MCSendRooms`
puts two sets of constants for `SendStream` into one run, chosen in the initial state.

In `SendStream`, `RecvStream` and `ConnStreams` the constant `Border8` (2^62 in
the code) and the varint borders are parameters. The runs set `Border8` to 100, far
above every value they reach; the theorems hold for every value.

## Runs

Deadlock checking is off everywhere: every bounded instance comes to a state
where the data is sent, the packets are used up or the stream is over, and
a real stream also simply stops there.

| run | shows |
|---|---|
| `send_any` | tight conditions (rooms of 3, 4 and 9 bytes, a limit of 1 that grows to 3, another stream using credit, two error codes) or roomy ones (every fragment fits whole, credit for everything): types, faithful content, one final size, credit, unreachable bug branches, nothing after a reset; in the roomy case also that no byte is forgotten and FIN comes with the last byte |
| `recv_any` | four frames, one of them empty, in any order and number, a reset, a stop by the user, reads of 1 and 3 bytes at any moment, a window of 3 for 4 bytes, rooms where only one control frame fits, a loss: order, completeness, no wakeup lost except to the empty frame, exact window, single charge, no false accusation, no forgotten limit, codes kept apart |
| `recv_live` | a window of 2 for 4 bytes in frames that each bring data or FIN, and one lost announcement: the reader reaches the end |
| `history_any` | packets 0..4 in any order, repeated, ACK frames acknowledged late or never; every ack-eliciting packet is acknowledged or dropped by the border |
| `conn_streams` | two stream types, removal by both threads, limits raised by the handler and the user, one lost announcement; the handler's stale count never gives the peer three times the initial number of streams |
| `conn_single` | all calls on one thread, two streams allowed at first: a data limit raised twice is announced, the peer never gets twice the initial number of streams, and its bidirectional limit is raised again after its streams ended |

In both runs of the connection the handler's branch for unidirectional streams is
off (as the repository's server sets it, `src/src/tool/server/quic_server.cpp:44`). `OpenBounded` is stated for that
case only: the branch raises the bidirectional limit by a count that leaves the open
bidirectional streams out, and with it on (as `quic.h:63` sets it) the bound does not
hold. `BidiReplenished` is checked without it, since it raises the same limit.

The bounds (3 or 4 bytes, 2 to 6 packets, 1 or 2 losses) are the smallest at
which a fragment can be split twice, a packet be given up and acknowledged late,
and two ranges coexist with a gap that a third frame fills; every listed mutant of the code
breaks its property within them.

### Fairness

`RecvStream!FairSpec`: a running call goes on (weak); the connection's loop comes
round to sending and to judging packets (strong: receiving calls in between
disable them for a moment, and an endless stream of datagrams does not keep the
loop from its timer); a frame the peer keeps retransmitting arrives (strong);
the peer sends what acknowledged limits allow; a notified user reads. Losses are
bounded, as a connection with endless losses ends by its idle timeout.
`RecvHistory!FairSpec`: the delay timer fires and `send` is called while an ACK is
due. `ConnStreams!FairSpec`: threads finish the calls they began (weak), and the
runtime's send calls come round (strong, for the reason above). Nothing is assumed of
the user: finished streams go because `send()` removes them (`remove_auto`).

## Findings

Six runs are expected to be violated: the code does something else than its
comments or assertions say. The details are under `findings` in `PROJECT.json`.

| run | property | where |
|---|---|---|
| `send_early_fin` | `FinCoversData`: FIN is sent with data cut by flow control, before the user's last byte | `core/stream_base.h:106` |
| `send_rebind` | `TransmittedMeansAcked`: a fragment with no room is bound to a packet that does not carry it | `resend/fragments.h:99` |
| `recv_overlap` | `CheckOffset`: overlapping range put in front, the reader's assertion fails | `impl/recv_stream.h:175` |
| `recv_empty` | `NoLostWakeup`: an empty frame is announced as data, the data that follows at its position is not | `impl/recv_stream.h:65` |
| `history_adjacent` | `AckNeverFatal`: packets 0, 2, 1 give ranges no ACK frame can express | `ack/recv_history.h:77` |
| `conn_race` | `DataLimitKnown`: a raised limit is never announced, two locks for one flag | `impl/conn_flow.h:27` |

Three more places are modelled as the code has them and have no run of their
own: a frame that spans two ranges is spliced at the wrong place
(`impl/recv_stream.h:167`, `169`), and the handler's branch for
unidirectional streams raises the bidirectional limit (`impl/conn_handler.h:41`).

`send_any` tells tight from roomy conditions because of the first two findings:
`NoDataForgotten` and `FinCoversData` hold where fragments fit and credit suffices,
the other properties hold in general. `recv_any` and `recv_live` are confined by the
third and fourth in the same way: `recv_any` states what is left of `NoLostWakeup` when
empty frames come (`WakeupLostOnlyToEmpty`), and `EndReached` is only claimed for frames
that bring data or FIN.

## Proofs

All theorems are about `Spec` of `SendStream`, for every value of its constants that
satisfies `SendAssumption`, `BordersAssumption` and `Border8Assumption` (the
varint borders grow, limits are below the largest varint). Nothing else is assumed.

`StreamFrameProofs`: `MakeFitSizeStream` says what the frame arithmetic
delivers: the frame fits the room, carries no more data than given, and has FIN only
with all of it.

`SendStreamProofs`: `TypeCorrect`, `Faithful` (`ContentFaithful`), `OneFinalSize`
(`FinalSizeAgreed`), `CreditRespected` (`WithinCredit`), `BugBranchesDead`
(`NoLibraryBug`) and `ResetIsFinal` (`ResetStopsData`). They rest on one inductive
invariant, `IndInv`:

* `DataInv`: the buffer holds bytes `discarded+1 ..`, and
  `discarded <= written <= total`; without it the content of a new frame is unknown;
* `CreditInv`: usage equals what was written, plus the other streams' use;
* `StateInv`: FIN was written exactly in the states after `send`, and a reset leaves
  the flags and the record in step;
* `FragInv`: every fragment, kept or just split, is faithful, ends at or before
  `written`, and one with FIN ends exactly there;
* `FrameInv`: the same for every frame in a packet, and RESET_STREAM frames
  equal the one the current state would send.

None of the listed properties is inductive alone: a retransmitted frame is
faithful because the fragment was, and the fragment because the buffer was.

Only model-checked: the liveness properties (`EndReached`, `AckedEventually`,
`BidiReplenished`), which need fairness, and everything about `RecvStream`,
`RecvSorter`, `RecvHistory` and `ConnStreams`.

## Plan

1. Compose both halves over a lossy network and show that the composition
   implements an abstract byte stream; local side of `ConnStreams` (opening streams,
   MAX_STREAMS from the peer).
2. Connection IDs; sent packets with loss detection; datagrams; key update; close and
   the context's choice of packets; path MTU search; the lock over several mutexes
   (`helper/lock.h`) and the channels of `thread/`.
3. Proofs: `WindowExact`, `ChargedOnce` and `LimitNotForgotten` of the receiver,
   `RangesExact` and `ProcessedOnce` of the history, `CreatedOnce` and
   `StreamLimitKnown` of the connection.
