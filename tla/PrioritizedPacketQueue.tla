---- MODULE PrioritizedPacketQueue ----
(***************************************************************************)
(* The queue of the pacer: modules/pacing/prioritized_packet_queue.{h,cc}. *)
(* Packets wait by priority level and, in each level, by stream; the       *)
(* streams of a level take turns.  Packets older than the time to live of  *)
(* their level are dropped on the way.  The queue keeps sums (packets,     *)
(* bytes, time in the queue without the time it was paused) that it        *)
(* updates as packets come and go.                                         *)
(*                                                                         *)
(* The queue is one record, its methods are operators on it.  An iterator  *)
(* into enqueue_times_ is the number of the Push that made it.             *)
(***************************************************************************)
EXTENDS Integers, Sequences, FiniteSets, FiniteSetsExt, Functions

CONSTANTS
  Ssrcs,        \* SSRCs of the streams
  RtpPackets,   \* what may be pushed: [type, original_type, size, is_key_frame]
  PrioritizeAudioRetransmission,  \* prioritize_audio_retransmission_
  Ttl,          \* PacketQueueTTL: [audio_retransmission, video_retransmission, video]
  Infinite,     \* TimeDelta::PlusInfinity()
  Timeout       \* kTimeout of Push

kNumPriorityLevels == 5
Levels == 0 .. kNumPriorityLevels - 1

MediaTypes == {"audio", "retransmission", "video", "fec", "padding"}
OriginalTypes == {"audio", "video", "none"}

ASSUME QueueAssumption ==
  /\ RtpPackets \subseteq [type : MediaTypes, original_type : OriginalTypes,
                           size : Nat, is_key_frame : BOOLEAN]
  /\ PrioritizeAudioRetransmission \in BOOLEAN
  /\ DOMAIN Ttl = {"audio_retransmission", "video_retransmission", "video"}
  /\ \A t \in DOMAIN Ttl : Ttl[t] = Infinite \/ Ttl[t] \in Nat
  /\ Timeout \in Nat

GetPriorityForType(type, original_type) ==
  CASE type = "audio" -> 0
    [] type = "retransmission" -> IF original_type = "video" THEN 2 ELSE 1
    [] type \in {"video", "fec"} -> 3
    [] type = "padding" -> 4

\* ToTtlPerPrio: time_to_live_per_prio_.
TimeToLive ==
  [level \in Levels |-> CASE level = 1 -> Ttl.audio_retransmission
                          [] level = 2 -> Ttl.video_retransmission
                          [] level = 3 -> Ttl.video
                          [] OTHER -> Infinite]

PrioLevel(packet) ==
  GetPriorityForType(packet.type, IF PrioritizeAudioRetransmission
                                  THEN packet.original_type ELSE "none")

NewQueue ==
  [streams |-> <<>>,          \* streams_
   streams_by_prio |-> [level \in Levels |-> <<>>],
   top_active_prio_level |-> -1,
   size_packets |-> 0,
   size_packets_per_media_type |-> [type \in MediaTypes |-> 0],
   size_payload |-> 0,
   queue_time_sum |-> 0,
   pause_time_sum |-> 0,
   last_update_time |-> 0,
   last_culling_time |-> 0,
   paused |-> FALSE,
   enqueue_times |-> <<>>]    \* [id, time] of each packet

NewStreamQueue(time) ==
  [packets |-> [level \in Levels |-> <<>>], last_enqueue_time |-> time,
   num_keyframe_packets |-> 0]

(***************************************************************************)
(* Helpers                                                                 *)
(***************************************************************************)
Keyframes(packets) == Cardinality({p \in packets : p.is_key_frame})

\* Mutant of DequeuePacketInternal: the oldest enqueue times are erased.
DequeuePacketInternalFront(q, packets) ==
  [q EXCEPT
     !.size_packets = @ - Cardinality(packets),
     !.size_packets_per_media_type =
        [type \in MediaTypes |-> @[type] - Cardinality({p \in packets : p.type = type})],
     !.size_payload = @ - MapThenSumSet(LAMBDA p : p.size, packets),
     !.queue_time_sum =
        @ - MapThenSumSet(LAMBDA p : q.last_update_time - p.enqueue_time - q.pause_time_sum,
                          packets),
     !.enqueue_times = SubSeq(@, Cardinality(packets) + 1, Len(@))]

\* DequeuePacketInternal for each of a set of packets.
DequeuePacketInternal(q, packets) ==
  [q EXCEPT
     !.size_packets = @ - Cardinality(packets),
     !.size_packets_per_media_type =
        [type \in MediaTypes |-> @[type] - Cardinality({p \in packets : p.type = type})],
     !.size_payload = @ - MapThenSumSet(LAMBDA p : p.size, packets),
     !.queue_time_sum =
        @ - MapThenSumSet(LAMBDA p : q.last_update_time - p.enqueue_time - q.pause_time_sum,
                          packets),
     !.enqueue_times = SelectSeq(@, LAMBDA e : \A p \in packets : e.id /= p.id)]

\* StreamQueue::DequeuePacket, n times at a level.
DequeuePackets(stream, level, n) ==
  [stream EXCEPT
     !.packets[level] = SubSeq(@, n + 1, Len(@)),
     !.num_keyframe_packets = @ - Keyframes(Range(SubSeq(stream.packets[level], 1, n)))]

\* How many packets at the head of a level of a stream are too old.
Expired(stream, level, now) ==
  LET packets == stream.packets[level]
      Old(i)  == now - packets[i].enqueue_time > TimeToLive[level]
  IN Max({n \in 0 .. Len(packets) : \A i \in 1 .. n : Old(i)})

\* Mutant of StillWaiting: a stream is kept although all its packets were old.
StillWaitingAll(streams, level, order) == order

\* The streams of a level that still have packets, in order.
StillWaiting(streams, level, order) ==
  SelectSeq(order, LAMBDA s : streams[s].packets[level] /= <<>>)

PurgeOldPacketsAtPriorityLevel(q, level, now) ==
  IF TimeToLive[level] = Infinite THEN q
  ELSE LET order == q.streams_by_prio[level]
           n     == [s \in Range(order) |-> Expired(q.streams[s], level, now)]
           old   == UNION {Range(SubSeq(q.streams[s].packets[level], 1, n[s])) :
                             s \in Range(order)}
           left  == [s \in DOMAIN q.streams |->
                       IF s \in Range(order) THEN DequeuePackets(q.streams[s], level, n[s])
                       ELSE q.streams[s]]
       IN [DequeuePacketInternal(q, old) EXCEPT
             !.streams = left,
             !.streams_by_prio[level] = StillWaiting(left, level, order)]

\* The levels from i on are purged until one has packets left: <<queue, level>>,
\* with level kNumPriorityLevels if none has.
PurgeUntilPacket(q) ==
  LET purge[i \in 0 .. kNumPriorityLevels] ==
        IF i = 0 THEN <<q, 0>>
        ELSE LET before == purge[i - 1]
                 purged == PurgeOldPacketsAtPriorityLevel(before[1], i - 1,
                                                          q.last_update_time)
             IN IF before[2] < i - 1 THEN before
                ELSE <<purged, IF purged.streams_by_prio[i - 1] = <<>> THEN i ELSE i - 1>>
  IN purge[kNumPriorityLevels]

\* Mutant of MaybeUpdateTopPrioLevel: the level stays when everything was dropped.
MaybeUpdateTopPrioLevelStays(q) ==
  IF q.top_active_prio_level /= -1 /\ q.streams_by_prio[q.top_active_prio_level] /= <<>>
  THEN q
  ELSE LET purged == PurgeUntilPacket(q)
       IN IF purged[2] < kNumPriorityLevels
          THEN [purged[1] EXCEPT !.top_active_prio_level = purged[2]]
          ELSE purged[1]

MaybeUpdateTopPrioLevel(q) ==
  IF q.top_active_prio_level /= -1 /\ q.streams_by_prio[q.top_active_prio_level] /= <<>>
  THEN q
  ELSE LET purged == PurgeUntilPacket(q)
           top    == IF purged[2] < kNumPriorityLevels THEN purged[2]
                     ELSE q.top_active_prio_level
       IN [purged[1] EXCEPT
             !.top_active_prio_level = IF purged[1].size_packets = 0 THEN -1 ELSE top]

(***************************************************************************)
(* Methods                                                                 *)
(***************************************************************************)
UpdateAverageQueueTime(q, now) ==
  LET delta == now - q.last_update_time
  IN [q EXCEPT
        !.pause_time_sum = IF q.paused THEN @ + delta ELSE @,
        !.queue_time_sum = IF q.paused THEN @ ELSE @ + delta * q.size_packets,
        !.last_update_time = now]

SetPauseState(q, paused, now) == [UpdateAverageQueueTime(q, now) EXCEPT !.paused = paused]

\* Mutant of EnqueueTime: pauses before the packet came are not subtracted.
EnqueueTimePlain(q, now) == now

\* QueuedPacket::enqueue_time: the time the queue was paused so far is taken
\* off, so that subtracting all of it later takes off what came after.
EnqueueTime(q, now) == now - q.pause_time_sum

\* StreamQueue::EnqueuePacket and the place of the stream in the round robin.
EnqueuePacket(q, ssrc, packet, level) ==
  [q EXCEPT
     !.streams[ssrc].packets[level] = Append(@, packet),
     !.streams[ssrc].num_keyframe_packets = IF packet.is_key_frame THEN @ + 1 ELSE @,
     !.streams_by_prio[level] = IF q.streams[ssrc].packets[level] = <<>>
                                THEN Append(@, ssrc) ELSE @,
     !.top_active_prio_level = IF @ < 0 \/ level < @ THEN level ELSE @]

IsEmpty(stream) == \A level \in Levels : stream.packets[level] = <<>>

\* The end of Push: streams without packets are forgotten now and then.
CullStreams(q, now) ==
  IF now - q.last_culling_time <= Timeout THEN q
  ELSE LET old == {s \in DOMAIN q.streams :
                     IsEmpty(q.streams[s]) /\ q.streams[s].last_enqueue_time + Timeout < now}
       IN [q EXCEPT !.streams = [s \in DOMAIN @ \ old |-> @[s]], !.last_culling_time = now]

Push(q, now, ssrc, rtp_packet, id) ==
  LET level    == PrioLevel(rtp_packet)
      inserted == [q EXCEPT
                     !.streams = [s \in DOMAIN @ \cup {ssrc} |->
                                    IF s \in DOMAIN @ THEN @[s] ELSE NewStreamQueue(now)],
                     !.enqueue_times = Append(@, [id |-> id, time |-> now])]
      updated  == UpdateAverageQueueTime(PurgeOldPacketsAtPriorityLevel(inserted, level, now),
                                         now)
      packet   == [id |-> id, ssrc |-> ssrc, type |-> rtp_packet.type,
                   size |-> rtp_packet.size, is_key_frame |-> rtp_packet.is_key_frame,
                   enqueue_time |-> EnqueueTime(updated, now)]
      counted  == [updated EXCEPT
                     !.size_packets = @ + 1,
                     !.size_packets_per_media_type[packet.type] = @ + 1,
                     !.size_payload = @ + packet.size]
  IN CullStreams(EnqueuePacket(counted, ssrc, packet, level), now)

\* Mutant of Rotate: a stream is served until it is empty.
RotateNot(order, ssrc, more) == IF more THEN order ELSE Tail(order)

\* The stream at the head of its level goes to the end if it has more packets.
Rotate(order, ssrc, more) == IF more THEN Append(Tail(order), ssrc) ELSE Tail(order)

\* The packet Pop returns, if there is one.
NextPacket(q) ==
  LET level == q.top_active_prio_level
  IN Head(q.streams[Head(q.streams_by_prio[level])].packets[level])

Pop(q) ==
  IF q.size_packets = 0 THEN q
  ELSE LET level   == q.top_active_prio_level
           ssrc    == Head(q.streams_by_prio[level])
           stream  == DequeuePackets(q.streams[ssrc], level, 1)
           more    == stream.packets[level] /= <<>>
           without == [DequeuePacketInternal(q, {NextPacket(q)}) EXCEPT
                         !.streams[ssrc] = stream,
                         !.streams_by_prio[level] = Rotate(@, ssrc, more)]
       IN IF more THEN without ELSE MaybeUpdateTopPrioLevel(without)

\* Mutant of RemovePacketsForSsrc: the count of key frame packets is not reset.
RemovePacketsForSsrcKeyframes(q, ssrc) ==
  IF ssrc \notin DOMAIN q.streams THEN MaybeUpdateTopPrioLevel(q)
  ELSE LET packets == UNION {Range(q.streams[ssrc].packets[level]) : level \in Levels}
       IN MaybeUpdateTopPrioLevel(
            [DequeuePacketInternal(q, packets) EXCEPT
               !.streams[ssrc].packets = [level \in Levels |-> <<>>],
               !.streams_by_prio = [level \in Levels |->
                  SelectSeq(@[level], LAMBDA s : s /= ssrc)]])

\* RemovePacketsForSsrc, with StreamQueue::DequeueAll.
RemovePacketsForSsrc(q, ssrc) ==
  IF ssrc \notin DOMAIN q.streams THEN MaybeUpdateTopPrioLevel(q)
  ELSE LET packets == UNION {Range(q.streams[ssrc].packets[level]) : level \in Levels}
       IN MaybeUpdateTopPrioLevel(
            [DequeuePacketInternal(q, packets) EXCEPT
               !.streams[ssrc].packets = [level \in Levels |-> <<>>],
               !.streams[ssrc].num_keyframe_packets = 0,
               !.streams_by_prio = [level \in Levels |->
                  SelectSeq(@[level], LAMBDA s : s /= ssrc)]])
====
