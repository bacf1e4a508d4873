---- MODULE PacerQueue ----
(***************************************************************************)
(* A PrioritizedPacketQueue as PacingController uses it: packets pushed    *)
(* and popped, streams removed, pauses, and updates of the queue time, in  *)
(* any order, with a clock that does not go back.                          *)
(***************************************************************************)
EXTENDS PrioritizedPacketQueue

CONSTANTS
  MaxPushes,    \* bound: packets pushed
  MaxClock      \* bound: time

ASSUME QueueBoundsAssumption == MaxPushes \in Nat /\ MaxClock \in Nat

VARIABLES
  clock,
  queue,
  pushes,    \* how many packets were pushed
  waited,    \* history variable: ticks each packet waited while not paused
  popped,    \* history variable: level, SSRC and number of the packet popped last
  passed,    \* history variable: <<level, s, t>> if s had a turn that t waited for
  dropped    \* history variable: level and age of packets the last step dropped

queueVars == <<clock, queue, pushes, waited, popped, passed, dropped>>

\* The packets of a level of a stream.
At(q, level, ssrc) ==
  IF ssrc \in DOMAIN q.streams THEN Range(q.streams[ssrc].packets[level]) ELSE {}

Queued(q) == UNION {At(q, level, ssrc) : level \in Levels, ssrc \in Ssrcs}

Ids(q) == {p.id : p \in Queued(q)}

\* History variables for a step from queue to queue' that pops or removes gone.
Remember(gone) ==
  /\ waited' = [id \in Ids(queue') |-> IF id \in DOMAIN waited THEN waited[id] ELSE 0]
  /\ dropped' = {[level |-> level, age |-> clock - e.time] :
                   <<level, e>> \in
                     {<<level, e>> \in Levels \X Range(queue.enqueue_times) :
                        /\ e.id \in Ids(queue) \ (Ids(queue') \cup gone)
                        /\ \E ssrc \in Ssrcs : \E p \in At(queue, level, ssrc) : p.id = e.id}}

\* What remains of passed: those who waited for the turn still wait for it.
StillPassed(pairs) ==
  {<<level, s, t>> \in pairs : At(queue, level, t) \cap At(queue', level, t) /= {}}

DoPush(ssrc, rtp_packet) ==
  /\ queue' = Push(queue, clock, ssrc, rtp_packet, pushes + 1)
  /\ pushes' = pushes + 1
  /\ Remember({})
  /\ passed' = StillPassed(passed)
  /\ UNCHANGED <<clock, popped>>

DoPop ==
  /\ queue.size_packets > 0
  /\ LET level == queue.top_active_prio_level
         p     == NextPacket(queue)
     IN /\ queue' = Pop(queue)
        /\ popped' = [level |-> level, ssrc |-> p.ssrc, id |-> p.id]
        /\ Remember({p.id})
        /\ passed' = StillPassed({x \in passed : x[1] /= level \/ x[3] /= p.ssrc}
                                   \cup {<<level, p.ssrc, t>> : t \in Ssrcs \ {p.ssrc}})
  /\ UNCHANGED <<clock, pushes>>

DoRemove(ssrc) ==
  /\ queue' = RemovePacketsForSsrc(queue, ssrc)
  /\ Remember(UNION {{p.id : p \in At(queue, level, ssrc)} : level \in Levels})
  /\ passed' = StillPassed(passed)
  /\ UNCHANGED <<clock, pushes, popped>>

DoPause(paused) ==
  /\ queue' = SetPauseState(queue, paused, clock)
  /\ dropped' = {}
  /\ UNCHANGED <<clock, pushes, waited, popped, passed>>

DoUpdate ==
  /\ queue' = UpdateAverageQueueTime(queue, clock)
  /\ dropped' = {}
  /\ UNCHANGED <<clock, pushes, waited, popped, passed>>

Tick ==
  /\ clock' = clock + 1
  /\ waited' = [id \in DOMAIN waited |-> IF queue.paused THEN waited[id] ELSE waited[id] + 1]
  /\ dropped' = {}
  /\ UNCHANGED <<queue, pushes, popped, passed>>

QueueInit ==
  /\ clock = 0
  /\ queue = NewQueue
  /\ pushes = 0
  /\ waited = <<>>
  /\ popped = [level |-> -1, id |-> 0]
  /\ passed = {}
  /\ dropped = {}

QueueNext ==
  \/ /\ pushes < MaxPushes
     /\ \E ssrc \in Ssrcs, rtp_packet \in RtpPackets : DoPush(ssrc, rtp_packet)
  \/ DoPop
  \/ \E ssrc \in Ssrcs : DoRemove(ssrc)
  \/ \E paused \in BOOLEAN : DoPause(paused)
  \/ DoUpdate
  \/ clock < MaxClock /\ Tick

QueueSpec == QueueInit /\ [][QueueNext]_queueVars

(***************************************************************************)
(* Properties                                                              *)
(***************************************************************************)
\* The sums agree with the packets in the queue, and every stream knows how
\* many of its packets belong to key frames, however packets left: popped,
\* dropped as too old, or with their stream (the RTC_DCHECKs on the counters).
SizesExact ==
  /\ queue.size_packets = Cardinality(Queued(queue))
  /\ queue.size_payload = MapThenSumSet(LAMBDA p : p.size, Queued(queue))
  /\ \A type \in MediaTypes :
       queue.size_packets_per_media_type[type]
         = Cardinality({p \in Queued(queue) : p.type = type})
  /\ \A s \in DOMAIN queue.streams :
       queue.streams[s].num_keyframe_packets
         = Keyframes(UNION {At(queue, level, s) : level \in Levels})

\* enqueue_times_ has the enqueue time of each packet in the queue and of no
\* other, oldest first, so its front is the oldest one (OldestEnqueueTime).
EnqueueTimesExact ==
  /\ {e.id : e \in Range(queue.enqueue_times)} = Ids(queue)
  /\ \A i, j \in DOMAIN queue.enqueue_times :
       i < j => /\ queue.enqueue_times[i].id < queue.enqueue_times[j].id
                /\ queue.enqueue_times[i].time <= queue.enqueue_times[j].time

\* Whenever it is up to date, queue_time_sum_ is the sum of the times the
\* packets spent in the queue while it was not paused, through any number of
\* pauses (AverageQueueTime, and the RTC_DCHECK that it is 0 without packets).
QueueTimeExact ==
  queue.last_update_time = clock \/ queue.size_packets = 0 =>
    queue.queue_time_sum = MapThenSumSet(LAMBDA p : waited[p.id], Queued(queue))

\* Each level lists the streams that have packets at the level, once each: Pop
\* finds a packet at the head of the list, no stream is forgotten, and none of
\* the pointers outlives its stream when inactive streams are culled.
RoundRobinExact ==
  \A level \in Levels :
    LET order == queue.streams_by_prio[level]
    IN /\ IsInjective(order)
       /\ Range(order) = {s \in Ssrcs : At(queue, level, s) /= {}}

\* top_active_prio_level_ is the first level with packets, or -1: Pop serves
\* the highest priority, and does not look into an empty level.
TopLevelExact ==
  LET waiting == {level \in Levels : queue.streams_by_prio[level] /= <<>>}
  IN queue.top_active_prio_level = IF waiting = {} THEN -1 ELSE Min(waiting)

\* The streams of a level take turns: no stream has a second turn while another
\* one waits for its first, whatever comes, goes or is dropped in between.
TakeTurns ==
  [][popped' /= popped =>
       \A t \in Ssrcs :
         At(queue, popped'.level, t) \cap At(queue', popped'.level, t) /= {}
           => <<popped'.level, popped'.ssrc, t>> \notin passed]_queueVars

\* "How long time a packet may stay in the queue before being dropped" (the
\* comment on PacketQueueTTL): no packet is dropped that was in the queue for no
\* longer than its time to live.  PurgeOldPacketsAtPriorityLevel compares with an
\* enqueue time that Push moved back by the time paused until then, so that a
\* packet pushed during or after a pause is dropped earlier.
KeptForTimeToLive ==
  \A d \in dropped : d.age > TimeToLive[d.level]
====
