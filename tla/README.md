# The L4S feedback loop and the data channel transport of WebRTC in TLA+

The repository is a WebRTC tree with RFC 8888 congestion control feedback and
ECT(1) marking (L4S). This project specifies the control part of that loop: how
packets are numbered, marked and remembered by the sender, how the receiver
reports them, how the sender turns reports into feedback for the congestion
controller, and how the controller's target rate reaches the encoders. It also
specifies dcSCTP, the SCTP implementation under data channels: how two sockets
connect and disconnect, and how messages are sent, acknowledged, given up and
delivered. All paths
below are relative to `src/libwebrtc/src`.

## 1. The system

```
  encoders <-- target rate -- CongestionControlHandler <-- controller (goog_cc)
     |                                                          ^ TransportPacketsFeedback
     v                                                          |
  PacketRouter --AddPacket--> TransportFeedbackAdapter <--- RTCP reports <---+
     | ECT(1)?                    ^ ProcessSentPacket                        |
     v                            |                                          |
  transport / network ------------+---> CongestionControlFeedbackTracker     |
                                        CongestionControlFeedbackGenerator --+
```

| Part | State | Operations | What makes it hard |
|---|---|---|---|
| `modules/congestion_controller/rtp/transport_feedback_adapter` | `history_`, `rtp_to_transport_sequence_number_`, `last_ack_seq_num_`, `in_flight_`, `network_route_` | `AddPacket`, `ProcessSentPacket`, `ProcessTransportFeedback`, `ProcessCongestionControlFeedback`, `SetNetworkRoute` | sending, sent notifications, feedback, expiry and route changes come in any order; two maps and a counter must agree |
| `modules/remote_bitrate_estimator/congestion_control_feedback_tracker` | `last_sequence_number_in_feedback_`, `packets_` | `ReceivedPacket`, `AddPacketsToFeedback` | reordering across messages, duplicates with different marks, the limit on entries, an unstable sort |
| `modules/remote_bitrate_estimator/congestion_control_feedback_generator` | trackers, `marker_bit_seen_`, `first_arrival_time_since_feedback_`, `next_possible_feedback_send_time_`, `send_rate_debt_` | `OnReceivedPacket`, `Process`, `SendFeedback` | two triggers of feedback, a rate limit with debt, a task that sleeps on an old deadline |
| `modules/congestion_controller/rtp/control_handler` | last incoming and reported rate, network state, queue state | `SetTargetRate`, `SetNetworkAvailability`, `SetPacerQueue`, `GetUpdate` | suppresses unchanged reports, is replaced with the controller |
| `call/rtp_transport_controller_send` | controller, handler, tasks, ECN flags, routes, congestion window | network availability, reconfiguration, periodic tasks, sent packets, feedback, route changes | lifetime of the controller against the tasks that use it |
| `call/call` (network state) | state of the audio and video channels, streams | `SignalChannelNetworkState`, creation and destruction of streams | changes posted from the network thread to the worker thread |
| `modules/pacing/packet_router` | transport sequence number, ECT(1) flag | `SendPacket` | |
| `modules/pacing/prioritized_packet_queue` | queues by level and stream, round robin tables, sums, `enqueue_times_` | `Push`, `Pop`, `RemovePacketsForSsrc`, `SetPauseState`, `UpdateAverageQueueTime` | packets leave in four ways; sums across pauses; raw pointers to streams |
| `modules/pacing` (the rest) | budgets, probes | enqueue, process, pause, congestion | not modelled yet |
| `net/dcsctp/socket` | state of the socket, TCB, T1, T2, heartbeat and reconfiguration timers | `Connect`, `Shutdown`, `Close`, `Send`, `ResetStreams`, handover, one handler per chunk, one per timer | both sides connect at once, restart, or shut down while data is in flight; packets are late, repeated and lost |
| `net/dcsctp/tx` | queues of streams, `outstanding_data_`, breakpoints, T3-rtx | `Add`, `Produce`, `Discard`, `Pause`, `HandleSack`, `NackAll`, `CreateForwardTsn` | a message can be given up in any state of each of its fragments |
| `net/dcsctp/rx` | cumulative TSN, gap blocks, chunks waiting for reassembly, deferred reset | `Observe`, `HandleForwardTsn`, `Add`, `ResetStreams...` | TSNs in any order, SSNs that start again |

The rest of the tree (`api`, `audio`, `common_audio`, `common_video`, `examples`,
`experiments`, `logging`, `media`, `modules/audio_*`, `modules/video_*`,
`modules/rtp_rtcp`, `modules/congestion_controller/{goog_cc,pcc}`,
`p2p`, `pc`, `rtc_base`, `rtc_tools`, `sdk`, `stats`, `system_wrappers`, `test`,
`tools_webrtc`, `video`) is listed in `PROJECT.json` with the reason it is left
out. Most of it is signal processing, numerical estimation, wire formats,
platform code or bindings; ICE, signalling and the controller appear in the
models as callers and callees whose choices are arbitrary.

The correctness properties the loop needs: bytes in flight do not drift; feedback
is attributed to the right packet, once, in send order; a receiver's message says
of the packets that wait for it what RFC 8888 asks for; feedback is neither late nor
too frequent; encoders stop without a network and resume with it; the probing of a path for ECN ends because
of packets that say something about it. Those that dcSCTP needs: an association is
the same one at both ends, or ends; messages are delivered whole, once and in order,
and what the application is told of them is true, and told. The hazards in `PROJECT.json` say, line by
line, where each could go wrong.

## 2. Modules

| Module | Models | Correspondence |
|---|---|---|
| `TransportFeedbackAdapter` | the adapter, `InFlightBytesTracker`, `NetworkRoute` | one action per method; a feedback message is `StartFeedback`, one `ProcessPacketInfo` per entry, `FinishFeedback`, with no other call in between, as on the task queue |
| `TransportFeedbackAdapterProofs` | theorems about it | section 5 |
| `CongestionControlFeedbackTracker` | the tracker | its two methods as operators on a tracker's state, used by `CongestionControlFeedbackGenerator` and `L4sFeedbackLoop` |
| `CongestionControlFeedbackTrackerProofs` | theorems about it | section 5 |
| `CongestionControlFeedbackGenerator` | the generator and its repeating task | trackers of several SSRCs, packets in any order and in copies, a clock in ticks, the size of messages (`BlockLength`) |
| `CongestionControlFeedbackGeneratorProofs` | theorems about it | section 5 |
| `RtpTransportControllerSend` | life of controller, handler and tasks; `CongestionControlHandler` | one action per call, each with every `PostUpdates` and `UpdateControlState` it makes |
| `CallNetworkState` | `Call`'s network state on top of it | closures posted to the worker thread are a queue |
| `CallNetworkStateProofs` | theorems about it and `RtpTransportControllerSend` | section 5 |
| `L4sFeedbackLoop` | sender, network, receiver and RTCP together | composes the adapter (`EXTENDS`) and the tracker (`INSTANCE`) with `PacketRouter::SendPacket`, route changes and ECT(1) probing |
| `L4sFeedbackLoopProofs` | theorems about it | section 5 |
| `PrioritizedPacketQueue` | the pacer's queue | a record and its methods as operators |
| `PacerQueue` | one queue as `PacingController` drives it | one action per call, any order, a clock that does not go back |
| `DcSctpSocket` | two `DcSctpSocket`s with their TCBs, heartbeats and timers, and the network between them | a socket is a record; one operator per handler, one action per call, packet or timer |
| `DcSctpSocketProofs` | theorems about it | section 5 |
| `DataTracker` | which TSNs arrived, and when to acknowledge | its methods as operators on a record |
| `DataTrackerProofs` | theorems about it | section 5 |
| `DcSctpSender` | `RRSendQueue`, `StreamScheduler`, `OutstandingData`, `RetransmissionQueue`, the sending part of the TCB and of `StreamResetHandler` | a record and operators; where the code's choice is abstracted, an operator gives the set of outcomes |
| `DcSctpReceiver` | `ReassemblyQueue`, `TraditionalReassemblyStreams`, the answering part of `StreamResetHandler` | a record and operators, with a `DataTracker` in it |
| `DcSctpTransfer` | sender, network and receiver of an established association | one action per call, packet or timer |
| `DcSctpDelivery` | nothing: what a data channel promises its application | the abstract specification that `DcSctpTransfer` implements (`DeliversAsPromised`); `status` is the sender's record of lifecycle events, `delivered` the messages whose fragments were put together |
| `MC...` | | constants for TLC |

Operators whose name extends that of another, with a comment "Mutant of", are
plausible bugs; nothing uses them, and each is there to show that a property
notices it.

### Abstractions

- Transport and RTP sequence numbers are unwrapped. Send times are reduced to sent
  or not sent; receive time offsets and untracked data only travel inside results
  and are left out.
- A route is a path and the packet id it was stamped with. The two comparisons the
  code makes are kept apart: `operator==` looks at both, the comparator of the
  in-flight map at the path only. The path also stands for the network ids that
  decide whether a route change is relevant. There is one transport.
- In `L4sFeedbackLoop` a route is announced between sends, but its packet id is any
  id in use; the first route is only remembered, as in the code.
- goog_cc may answer any call with any rate, or none, except that the first process
  interval of a new controller gives a rate: it starts from an infinite round trip
  time (`goog_cc_network_control.h:134`) and reports the change.
- `Call::EnsureStarted` registers the observer in the same step as the first stream.
  `MaybeCreateControllers` is called there too (`RegistrationCreates`), without effect:
  no network was announced before (`ControllerHasHandler`).
- Of what the handler reports only the rate is modelled. Of the pacer there are
  "paused" and "its queue is too long".
- The generator's task queue is not overloaded: its task runs no later than it
  asked to. It may run earlier, since the transport-cc generator shares it. A
  packet is handled at most `MaxLag` ticks after it arrived.
- A packet in the pacer queue is its type, size, key frame flag and stream; an
  iterator into `enqueue_times_` is the number of the push that made it.
- dcSCTP's TSNs, SSNs and request numbers are unwrapped, and random numbers never
  repeat. A packet is one chunk, with DATA riding on a COOKIE ECHO or COOKIE ACK where
  the code bundles them; the SACK of a packet goes in a packet of its own.
- `DcSctpSocket` has one message in flight in each direction. It loses packets when
  they are sent, and any packet may be delayed for ever. It repeats them only as the
  code's timers do.
- Chunks that `SendBufferedPackets` bundles into one packet may be lost and reordered one
  by one. The congestion window is one packet after T3-rtx expired (`slow`), and more once
  a SACK moves the cumulative TSN: that the window must have been used up for that
  (`retransmission_queue.cc:122`) holds with fragments that fill a packet and is not tested.
  The bit that asks for an immediate SACK is set while the window is one packet
  (`transmission_control_block.cc:251` has a threshold in packets).
- `HandleData` leaves out the tests of the TSN's range (`IsTSNValid`) and of the
  reassembly buffer (`dcsctp_socket.cc:1063-1129`), which few and small messages do not
  reach.
- In `DcSctpTransfer` a fragment fills a packet. Congestion and receiver windows are
  any number of packets, but at least one when nothing is in flight, and one after
  T3-rtx expired (`slow`). The limits of the reassembly buffer, the limit on reported
  gap blocks and message interleaving are left out, and so are shutdown and the
  other direction.
- Where `std::sort` leaves the order open, every order is explored.

## 3. Runs

| Run | Question | Bounds |
|---|---|---|
| `generator` | Is what a message says right, and is feedback timely and within its bound? | 1 SSRC, sequence numbers 1..3, a limit of 2 entries, so reordering, copies and cutting happen; clock to 5, intervals 1 to 3, a rate at which the longest message takes longer than the maximal interval to pay for, as with the code's values |
| `call_network` | Do controller, handler, encoders and pacer follow network and streams? | 2 kinds of media, 1 stream each, 2 posted changes, 2 rates |
| `loop` | Are the adapter's maps sound and complete, is no packet reported twice, is feedback of the current route and in order, are bytes in flight exact, is what the controller is told of received packets true, and does ECT(1) probing end for the right reason? | 3 packets, 4 arrivals, route announcements and renegotiations together, 2 messages, 2 markings; an RTP number may be sent again; a history window of 0 in a clock of 1, so packets expire before others; notifications may come twice or late |
| `pacer_queue` | Do sums, lists and tables of the pacer queue agree with the packets in it, and do the streams of a level take turns? | 2 streams, 3 packets on 3 levels, two of them with a time to live of 1, culling after 1 tick, clock to 3, pauses at any time |
| `association` | Do timers match states, do matching tags mean matching TSNs, and does a half-open association end? | 2 sockets; 3 calls of `Connect`, `Shutdown`, `Close`, handover or restart; 1 packet under way, with late and repeated ones from 1 retransmission of each kind; 4 random draws by each socket, so that a restarted peer connects again; 1 message |
| `transfer` | Are TSNs tracked, are messages delivered as promised, does every lifecycle end? | three workloads of 2 messages: a fragmented one that is given up and one with a lifetime; one with a lifetime and unordered fragments; a limited and a reliable one on a stream that is reset. 1 packet lost, all reordered, bursts of 2, 1 retransmission of T3 |
| `call_tasks`, `pacer_ttl`, `association_acked`, `association_consistent`, `transfer_blocked`, `transfer_expiry` | the findings of section 4 | as small as the case allows |

The bounds are enough in this sense: every action is taken, each
limit the code has (history window, entries in a message, rate clamp) is exceeded,
and for each property there is a plausible bug that TLC finds under the same
bounds. The invariants of `generator`, `call_network`, `loop` and `association` are also
proved for every value of the constants (section 5).

`loop` drives the adapter with the feedback a receiver can send. The adapter's own
specification `Spec` (feedback of both formats with any packets, in any order) has no run:
its properties are proved for it (`TransportFeedbackAdapterProofs`).

In `association` the cases A to D of a COOKIE ECHO that meets a TCB all occur, and so does
a cookie of none of them. One branch does not: a restarted peer met in `kShutdownAckSent`
takes four calls and two packets under way. With these, one caller and no data or
heartbeats the branch is taken and the invariants hold (581,550 states). With up to 3
random draws per socket, too few for case A, the invariants also hold with 2 packets
under way (9,131,126 states), and `HalfOpenEnds` with 2 packets and 2 calls. These are
outside the run, which is bounded to finish in minutes.

Notable properties:

- `InFlightExact`: a counter against a sum over the history.
- `ReportedPacketsForgotten`: the receiver reports old packets as lost after
  reordering (`congestion_control_feedback_tracker.cc:48-53`); this is why it does no
  harm.
- `FeedbackConsistent`: a result carries the route its packet was sent on, which the
  history no longer knows when the message is finished.
- `PendingAboveLast`: what the loop of `AddPacketsToFeedback` relies on.
- `ReportMatchesPending` is about the copies that wait for a message. It is less than
  RFC 8888 asks: a copy that an earlier message reported is forgotten, and its number may be
  reported as lost later (the TODO at `congestion_control_feedback_tracker.cc:48-53`).
- `PendingHasDeadline`, `FeedbackDelayBounded`: no packet waits for feedback until
  another happens to arrive, nor longer than the intervals add up to.
- `FeedbackRateBounded`: what the debt and its clamps guarantee of all feedback so far.
  With 500 kbit/s, 500 ms and 16384 packets the rate pays for 31,250 bytes in the maximal
  interval, and the report of one SSRC may have 32,788. The clamp of the interval then
  lets the next message go with debt left, so that the bound is the larger of the rate and
  one longest message for each maximal interval. The run has such values.
- `ObserverUpToDate`: suppressing unchanged reports loses none, across replacement.
- `QueueTimeExact`: the sum against ticks counted packet by packet.
- `RoundRobinExact`: no pointer in `streams_by_prio_` outlives its stream.
- `TagsAgreeOnTsns`: INIT, INIT ACK and cookie of three attempts can make up a TCB;
  whichever they are, tags that match mean TSNs that match.
- `HalfOpenEnds`: what brings a socket out of an association that its peer does not
  have. `TimersMatchState` is what `IsConsistent` asserts, but for one timer
  in three states (see section 4).
- `DeliversAsPromised`: a refinement. Nothing is delivered twice, in pieces or out of
  order; nothing reliable is passed over, except by a stream reset; a message reported
  as never sent is never delivered.
- `LifecycleEnds`: everything the sender waits for either comes or has a timer.
- `ProbeAnswered` has the precondition that no older packet of the route awaited
  feedback when the probing began. Without it the statement is not one the code
  makes: feedback for older packets does end the probing.

Fairness. In `CallNetworkState`: the worker thread runs what is posted to it
(`WF(ApplyNetworkState)`), and the task that polls the pacer queue runs every 25 ms
(`WF(PollPacerQueue)`). Nothing is assumed of channels, streams, controller or pacer:
the properties are conditional on what those settle to. In `DcSctpSocket`: of the
timers of a socket that run, one expires (the application provides the clock);
packets need not arrive. In `DcSctpTransfer`: timers that run expire, and packets
that are not among the `MaxLosses` lost ones arrive; behaviours that would number more
than `MaxReqs` reset requests are exempt from `LifecycleEnds`.

Deadlock is not checked where the system may stop: in `L4sFeedbackLoop`, where packets,
arrivals and messages run out, and in the dcSCTP modules, where the application may
have no more to do and associations end.

## 4. Findings

1. `call_tasks` (`TasksHaveController`). `ReconfigureBandwidthEstimation` destroys the
   controller and its handler; if the network is down they are not created again, but
   the repeating tasks go on. The next one trips `RTC_DCHECK(controller_)`
   (`call/rtp_transport_controller_send.cc:777`) or uses a null handler (line 760).
   The model leaves the steps after that out.
2. `pacer_ttl` (`KeptForTimeToLive`). The time to live is how long a packet may stay in the
   queue (`modules/pacing/prioritized_packet_queue.h:32`), but it is compared with an enqueue
   time from which all earlier pauses were taken off (`prioritized_packet_queue.cc:450-452`).
   A packet pushed during or after a pause is dropped earlier by as much.
3. `association_acked` (`AckedIsDelivered`). When both sides connect, a COOKIE ECHO can
   replace a TCB that has sent data (`socket/dcsctp_socket.cc:1422-1431`); the new TCB
   starts at the same TSN. The peer discards the COOKIE ECHO of the first attempt as
   late, but takes the DATA bundled with it. Its acknowledgement is then one of the next
   message, which is reported as delivered (`public/dcsctp_socket.h:488`) and is not.
4. `association_consistent` (`IsConsistent`). A COOKIE ECHO that is sent again takes a
   socket that is shutting down back to `kEstablished` with T2-shutdown running
   (`socket/dcsctp_socket.cc:1352-1358`). `IsConsistent` excludes that (lines 242-244), and is
   asserted when the packet was handled (line 830).
5. `transfer_blocked` (`AckedIsDelivered`). A FORWARD-TSN stops at the breakpoint of a
   stream reset (`tx/outstanding_data.cc:528`), which may lie inside a message of another
   stream, but skips the SSN of the message. A late fragment of it is then kept under
   an SSN that is over, and blocks the stream's fragmented messages from then on.
6. `transfer_expiry` (`LifecycleEnds`). A fragment that expired before it was produced is
   abandoned without a packet or a timer (`tx/outstanding_data.cc:438`). If nothing is
   outstanding, the FORWARD-TSN that ends the lifecycle waits for another event, while
   `public/dcsctp_socket.h:516` guarantees `OnLifecycleEnd`.

The runs above are the project's findings. Reading the code for the models also showed
the following, which no run states:

- `congestion_control_feedback_tracker.cc:117`: a message cut at `kMaxPacketsPerSsrc`
  is followed by one that starts after the newest packet; the sequence numbers in
  between are in neither. It takes a jump of over 16384 sequence numbers.
- `transport_feedback_adapter.cc:135`: when an RTP sequence number is sent again on its
  SSRC, the arrival of the second packet is reported for the first. A comment shows the
  case is known; `ReceivedIsTrue` speaks of numbers used once.
- `dcsctp_socket.cc:397-423`: `Shutdown` before the COOKIE ACK came stops T1-cookie but
  leaves the COOKIE ECHO chunk, which keeps T3-rtx from retransmitting
  (`LeftWithCookie` in `HalfOpenEnds`).
- `dcsctp_socket.cc:982-1011`: T2-shutdown sends SHUTDOWN again also in
  `kShutdownAckSent`, where the comment at line 1793 speaks of SHUTDOWN ACK.
- `dcsctp_socket.cc:1772`: the test for outstanding data before SHUTDOWN does not see
  chunks that were nacked or are still in the send queue.
- `outstanding_data.cc:230`: the comparison is never true, since `RemoveAcked` has
  already moved `last_cumulative_tsn_ack_`.

## 5. Proofs

Every theorem holds for all values of the constants that satisfy the named assumptions
(`ASSUME`) of the modules, which TLC evaluates on each run. Bounds such as `MaxPackets`,
`MaxSeq`, `MaxClock`, `MaxDraws` or `MaxCalls` are any natural numbers. The remaining
assumptions are that sizes, rates, intervals and limits are positive where the code's
are, that the two feedback intervals are in order, that there are finitely many SSRCs,
that keys, rates and sequence numbers are numbers, and that the value that stands for
"none" is not one of the others (`NulloptAssumption`, `NoneAssumption`,
`LoopAssumption`, `PathsAssumption`, `RatesAssumption`).

### The adapter

| Theorem of `TransportFeedbackAdapterProofs` | States |
|---|---|
| `Invariance` | `IInv` is an invariant |
| `TypeCorrect` | `[]TypeOK` |
| `InFlightIsExact` | `[]InFlightExact` |
| `RtpMapIsSound`, `RtpMapIsComplete` | `[]RtpMapSound`, `[]RtpMapComplete` |
| `ReportedAreForgotten` | `[]ReportedPacketsForgotten` |
| `FeedbackIsConsistent` | `[]FeedbackConsistent` |

None of the properties is inductive alone. `IInv` is the conjunction of the first five with two
facts: `FeedbackOK` types the message being handled, and `KeysOK` ties each packet
in the history to the key it was added with, which is what completeness of the map
needs when a key is erased. `InFlightExact` needs that a sum over packets changes by
the packets removed: the lemmas `DataSize...` and `RemoveExact` give that for a
finite sum written with a recursive function. The type of the counters (natural
numbers) follows from exactness, not the other way round: the subtraction in
`RemoveInFlightPacketBytes` stays non-negative because what is removed is part of
what is counted. `NextIInv` has one lemma per action.

`FeedbackConsistent` speaks of a message when it is finished, so `ReturnInv` adds what
holds while it is handled (`FeedbackProgress`): the results so far were sent on the
current route, are of packets up to the last acknowledged one, keep the claim of ECN
support, and, for transport-cc, are in send order and precede the packets still to be handled. RFC 8888
results are in send order because the code sorts them at the end.

### The receiver of feedback

| Theorem | States |
|---|---|
| `ReceivedPacketOK` | `ReceivedPacket` keeps a tracker in order (`TrackerOK`) |
| `AddPacketsToFeedbackOK` | `AddPacketsToFeedback` keeps it in order, and reports consecutive numbers, each with what its waiting copies amount to, within the limit, and every packet if the report is not full |
| `GeneratorTypeCorrect`, `NoPacketStranded` | `[]GeneratorTypeOK`, `[]PendingHasDeadline` |
| `DelayBounded` | `[]FeedbackDelayBounded` |
| `RateBounded` | `[]FeedbackRateBounded` |
| `MessagesSpaced` | the action property `FeedbackSpaced` |
| `NoPacketBehind` | `[]PendingAboveLast` |
| `FeedbackMatchesPending`, `FeedbackComplete` | `[]ReportMatchesPending`, `[]ReportComplete` |

The first two are in `CongestionControlFeedbackTrackerProofs`, about the operators, for
sequence numbers above 0; the others in `CongestionControlFeedbackGeneratorProofs`, whose
invariant has `TrackerOK` of every tracker. `TrackerOK` says that no packet waits
behind the start of the next message. `AddPacketsToFeedback` walks the sorted packets in
one loop, a recursive function in the model; what it computes is proved from an invariant
of the loop, by the least position at which that fails. That the sort may leave
copies of a packet in any order is part of the theorem.

`TimeInv` adds to the deadline that the repeating task is planned: it is due no earlier
than now, and in time for every packet that waits. `RateInv` gives the meaning of the debt:
what was sent is at most what the rate allowed until the last message plus the debt. If
the longest message can be paid for within the maximal interval, the debt is paid by the
next possible send time. If it cannot, the clamp loses some of it, and the argument is by
cases: a message is followed by a wait that pays for it, or by the whole maximal interval.

### Call and its transport controller

| Theorem of `CallNetworkStateProofs` | States |
|---|---|
| `CallTypeCorrect` | `[]CallTypeOK` |
| `HandlerWithController` | `[]ControllerHasHandler` |
| `EncodersPausedWithoutNetwork` | `[]PausedWithoutNetwork` |
| `NoUpdateLost` | `[]ObserverUpToDate` |
| `CallIdleWithoutMedia` | `[]IdleWithoutMedia` |

`ObserverUpToDate` is not inductive: that skipping an unchanged update is right depends
on what the handler remembers of the last report. `Synced` relates that memory to what the
observer holds, also for a handler that has just been made. `CallInv` adds that the network
is available to the controller iff some kind of media with streams has its channel up.

### The loop

| Theorem of `L4sFeedbackLoopProofs` | States |
|---|---|
| `AdapterInTheLoop` | the adapter's six invariants, `[](TypeOK /\ InFlightExact /\ ...)` |
| `CongestionControllerIsToldTheTruth` | `[]ReceivedIsTrue` |
| `ProbingEndsWithAnAnswer` | `[]ProbeAnswered` |

The steps of the loop are not those of the adapter's own specification, so the adapter's
lemmas, one per action, are used again. `TruthInv` follows the claim "this packet arrived with this
marking" through every place where it is kept: the network, the receiver's tracker, the
RTCP messages under way, the message being handled, and what was returned. The step
where it could go wrong is the lookup of an RTP number that was used again, which is
why the property is about numbers used once. `ProbeInv` says that while a route that
was clean is probed, every packet of that route in the history or already looked up was
sent as ECT(1) in this round.

### Associations of dcSCTP

| Theorem of `DcSctpSocketProofs` | States |
|---|---|
| `TimersFollowState` | `[]TimersMatchState` |
| `TagsDetermineTsns` | `[]TagsAgreeOnTsns` |

`TagsAgreeOnTsns` relates two TCBs whose contents may come from INITs, INIT ACKs and
cookies of different attempts, some of them in packets that are still under way. The
invariant `SocketInv` says that there is a register of pairs of a tag and an initial TSN,
each tag drawn by one of the sockets and with one TSN, such that every pair that a socket,
a TCB, a cookie or a packet holds is in it. A handler only copies pairs, or draws a new
tag that no one has (`RegisterGrows`); so the register stays functional, and equal tags mean
equal TSNs. The proof has one lemma per handler and one per action. It assumes that random
numbers do not repeat, as the model does.

### Which TSNs arrived

`DataTrackerProofs` proves, for all TSNs and with no assumption on their order or
number, that `DataTracker` is exact. `Tracks(d, got)` is the invariant: `d` has its type,
and `TracksExactly` holds of it and of `got`, the TSNs that arrived or were given up.

| Theorem | States |
|---|---|
| `NewTracksExactly` | a new tracker tracks the empty set |
| `NewIsExact` | a TSN is called new iff it is not in `got` |
| `ObserveTracksExactly` | after `Observe(tsn)` the tracker tracks `got` and `tsn`, and its cumulative TSN has not moved back |
| `ForwardTracksExactly` | the same for a FORWARD-TSN and all TSNs up to it |

The argument is that blocks kept apart by at least one missing TSN have at most one
neighbour on each side of a TSN (`AddJoins`), and that at most one of them follows the
cumulative TSN (`CumulativeExact`), so that a single step of the code, which looks at one
block only, is enough. `TsnsTracked` is the same statement in `DcSctpTransfer`, where TLC
also checks that the callers use the tracker as the theorems assume.

Only model-checked:

- the liveness properties `EncoderResumes`, `AvailabilityConverges`, `HalfOpenEnds` and
  `LifecycleEnds`, since the prover has no fairness;
- `TsnsTracked`, `AckedIsDelivered` and the refinement `DeliversAsPromised` of `DcSctpTransfer`: sender and
  receiver are written with recursive operators, which the prover does not accept; the
  theorems about `DataTracker` are the core of the first;
- the properties of `PacerQueue`, whose sums are folds over the packets of all levels.

## 6. Plan

Done: the modules above, and the proofs of section 5.

Next, more of the system:

1. `PacingController` and `TaskQueuePacedSender`: pausing, congestion, keep-alive, the
   wake-up schedule; on top of `PrioritizedPacketQueue`, composed with the congestion
   window, for the hazard that `is_congested_` is stale after packets expire.
2. `BitrateProber` and `ProbeController`: cluster life cycles.
3. `TransportSequenceNumberFeedbackGenerator` and `PacketArrivalTimeMap`: the
   transport-cc counterpart of the receiver.
4. `rtcp::CongestionControlFeedback::Create` and `Parse` as pure algorithms:
   round trip, alignment, wrap-around; `RtpSequenceNumberUnwrapper`.
5. An abstract specification of per-packet feedback that `L4sFeedbackLoop` implements.
6. dcSCTP: windows and the limits of the reassembly buffer, message interleaving, and
   shutdown while messages are in flight.

Not modelled, and why: goog_cc's and PCC's estimators and the bitrate allocator are
numerical; RTP, RTCP and SCTP encodings are formats, not control; ICE, signalling and
media engines are the environment of the parts modelled. `PROJECT.json` has the list.

Then more proofs: `RoundRobinExact` and `TopLevelExact` of the pacer queue, which need no
sums; and `DcSctpSender` and `DcSctpReceiver` with recursive functions, so that
`TsnsTracked` can be proved of `DcSctpTransfer`.
