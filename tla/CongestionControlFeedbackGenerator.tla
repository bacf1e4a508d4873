---- MODULE CongestionControlFeedbackGenerator ----
(***************************************************************************)
(* When RFC 8888 feedback is sent:                                         *)
(* modules/remote_bitrate_estimator/congestion_control_feedback_generator, *)
(* driven by packets as they arrive and by the repeating task that calls   *)
(* ReceiveSideCongestionController::MaybeProcess.                          *)
(*                                                                         *)
(* Time is in ticks.  The repeating task runs at the latest at the time    *)
(* the previous call asked for: the clock does not pass `wakeup` (a task   *)
(* queue that is not overloaded).  A packet may be handled up to MaxLag    *)
(* ticks after its arrival time.                                           *)
(***************************************************************************)
EXTENDS CongestionControlFeedbackTracker

CONSTANTS
  Ssrcs,           \* the SSRCs packets arrive on
  MinDelta,        \* min_time_between_feedback_
  MaxWait,         \* max_time_to_wait_for_packet_with_marker_
  MaxDelta,        \* max_time_between_feedback_
  MaxFeedbackRate, \* kMaxFeedbackRate, bytes in a tick
  MaxLag,          \* ticks from the arrival of a packet to its handling
  MaxSeq,          \* bound: highest RTP sequence number
  MaxClock         \* bound: time

ASSUME GeneratorAssumption ==
  /\ {MinDelta, MaxWait, MaxDelta, MaxFeedbackRate} \subseteq Nat \ {0}
  /\ MinDelta <= MaxDelta
  /\ {MaxLag, MaxSeq, MaxClock} \subseteq Nat
  /\ IsFiniteSet(Ssrcs)

VARIABLES
  clock,
  trackers,        \* feedback_trackers_
  marker_bit_seen, \* marker_bit_seen_
  first_arrival,   \* first_arrival_time_since_feedback_
  next_possible,   \* next_possible_feedback_send_time_
  last_sent,       \* last_feedback_sent_time_
  debt,            \* send_rate_debt_
  wakeup,          \* when the repeating task calls Process again at the latest
  bytes_sent       \* history variable: bytes of feedback sent so far

generatorVars == <<clock, trackers, marker_bit_seen, first_arrival, next_possible,
                   last_sent, debt, wakeup, bytes_sent>>

Larger(a, b) == IF a >= b THEN a ELSE b
Smaller(a, b) == IF a <= b THEN a ELSE b

\* Mutant of NextFeedbackTime: with a marker feedback is due a tick too early.
NextFeedbackTimeEarly(first, marker, next) ==
  IF first = Nullopt THEN Larger(clock + MinDelta, next)
  ELSE IF ~marker THEN Larger(next, first + MaxWait)
  ELSE next - 1

\* NextFeedbackTime, given the members it reads.
NextFeedbackTime(first, marker, next) ==
  IF first = Nullopt THEN Larger(clock + MinDelta, next)
  ELSE IF ~marker THEN Larger(next, first + MaxWait)
  ELSE next

\* rtcp::CongestionControlFeedback::BlockLength for reports of these SSRCs:
\* 12 bytes, and for each SSRC 8 bytes and two for each packet, 32 bit aligned.
StreamLength(n) == IF n = 0 THEN 0 ELSE 8 + 2 * n + 2 * (n % 2)
BlockLength(lengths) ==
  LET S == DOMAIN lengths
      sum[T \in SUBSET S] ==
        IF T = {} THEN 12
        ELSE LET s == CHOOSE s \in T : TRUE
             IN StreamLength(lengths[s]) + sum[T \ {s}]
  IN sum[S]

\* Mutant of DebtAfter: time pays more than the debt.
DebtAfterOverpaid(size) == debt - (clock - last_sent) * MaxFeedbackRate + size

\* CalculateNextPossibleSendTime.
DebtAfter(size) ==
  (IF (clock - last_sent) * MaxFeedbackRate > debt THEN 0
   ELSE debt - (clock - last_sent) * MaxFeedbackRate) + size

\* Mutant of CalculateNextPossibleSendTime: the debt is not waited for.
CalculateNextPossibleSendTimeMin(size) ==
  /\ debt' = DebtAfter(size)
  /\ last_sent' = clock
  /\ next_possible' = clock + MinDelta

CalculateNextPossibleSendTime(size) ==
  /\ debt' = DebtAfter(size)
  /\ last_sent' = clock
  /\ next_possible' = clock + Larger(MinDelta,
                                Smaller(DebtAfter(size) \div MaxFeedbackRate, MaxDelta))

\* SendFeedback for the state ts of the trackers.
SendFeedback(ts) ==
  \E sorted \in [Ssrcs -> UNION {Sorted(ts[s].packets) : s \in Ssrcs}] :
    /\ \A s \in Ssrcs : sorted[s] \in Sorted(ts[s].packets)
    /\ LET result == [s \in Ssrcs |-> AddPacketsToFeedback(ts[s], sorted[s])]
           size   == BlockLength([s \in Ssrcs |-> Len(result[s].report)])
       IN /\ trackers' = [s \in Ssrcs |-> result[s].tracker]
          /\ CalculateNextPossibleSendTime(size)
          /\ bytes_sent' = bytes_sent + size
    /\ marker_bit_seen' = FALSE
    /\ first_arrival' = Nullopt

\* Mutant of FirstArrival: only the end of a frame sets it.
FirstArrivalOfMarker(packet, marker) ==
  IF first_arrival = Nullopt /\ marker THEN packet.arrival_time ELSE first_arrival

\* Mutant of FirstArrival: every packet sets it.
FirstArrivalLatest(packet, marker) == packet.arrival_time

\* first_arrival_time_since_feedback_ when a packet is handled.
FirstArrival(packet, marker) ==
  IF first_arrival = Nullopt THEN packet.arrival_time ELSE first_arrival

OnReceivedPacket(ssrc, packet, marker) ==
  LET ts    == [trackers EXCEPT ![ssrc] = ReceivedPacket(@, packet)]
      first == FirstArrival(packet, marker)
      seen  == marker_bit_seen \/ marker
  IN /\ IF NextFeedbackTime(first, seen, next_possible) < packet.arrival_time
        THEN SendFeedback(ts)
        ELSE /\ trackers' = ts
             /\ marker_bit_seen' = seen
             /\ first_arrival' = first
             /\ UNCHANGED <<next_possible, last_sent, debt, bytes_sent>>
     /\ UNCHANGED <<clock, wakeup>>

\* Process, called by the repeating task, which runs again when it asks to, or
\* earlier: the transport-cc generator shares the task and may ask for less.
Process ==
  /\ IF NextFeedbackTime(first_arrival, marker_bit_seen, next_possible) <= clock
     THEN SendFeedback(trackers)
     ELSE UNCHANGED <<trackers, marker_bit_seen, first_arrival, next_possible,
                      last_sent, debt, bytes_sent>>
  /\ wakeup' = NextFeedbackTime(first_arrival', marker_bit_seen', next_possible')
  /\ UNCHANGED clock

Tick ==
  /\ clock < wakeup
  /\ clock' = clock + 1
  /\ UNCHANGED <<trackers, marker_bit_seen, first_arrival, next_possible, last_sent,
                 debt, wakeup, bytes_sent>>

GeneratorInit ==
  /\ clock = 0
  /\ trackers = [s \in Ssrcs |-> NewTracker]
  /\ marker_bit_seen = FALSE
  /\ first_arrival = Nullopt
  /\ next_possible = 0
  /\ last_sent = 0
  /\ debt = 0
  /\ wakeup = 0
  /\ bytes_sent = 0

GeneratorNext ==
  \/ \E ssrc \in Ssrcs, seq \in 1..MaxSeq, ecn \in Ecns, marker \in BOOLEAN :
     \E lag \in 0..Smaller(MaxLag, clock) :
        OnReceivedPacket(ssrc, [seq |-> seq, arrival_time |-> clock - lag, ecn |-> ecn],
                         marker)
  \/ Process
  \/ clock < MaxClock /\ Tick

GeneratorSpec == GeneratorInit /\ [][GeneratorNext]_generatorVars

(***************************************************************************)
(* Properties                                                              *)
(***************************************************************************)
GeneratorTypeOK ==
  /\ clock \in Nat
  /\ \A s \in Ssrcs :
       /\ trackers[s].last = Nullopt \/ trackers[s].last \in Nat
       /\ trackers[s].packets \in Seq(PacketInfo)
       /\ Len(trackers[s].packets) <= MaxPacketsPerSsrc + 1
  /\ first_arrival = Nullopt \/ first_arrival \in 0..clock
  /\ marker_bit_seen \in BOOLEAN
  /\ next_possible \in Nat
  /\ last_sent \in 0..clock
  /\ debt \in Nat
  /\ wakeup \in Nat

\* Packets wait in a tracker only while the time of the first arrival is set,
\* which is what makes NextFeedbackTime come due: no received packet is
\* stranded until another one arrives.
PendingHasDeadline ==
  (\E s \in Ssrcs : trackers[s].packets /= <<>>) <=> first_arrival /= Nullopt

\* No packet waits longer for feedback than it takes for a marker to come or
\* for the repeating task to run, from the time it was handled, unless the rate
\* limit forbids feedback until next_possible (the repeating task was planned
\* before the packet came, and the deadline is that of the first packet).
FeedbackDelayBounded ==
  \A s \in Ssrcs : \A i \in DOMAIN trackers[s].packets :
    clock <= Larger(trackers[s].packets[i].arrival_time + MaxLag + Larger(MinDelta, MaxWait),
                    next_possible)

\* Messages are at least MinDelta apart and none is sent before
\* next_possible_feedback_send_time_ (the RTC_DCHECK_GE in SendFeedback).
FeedbackSpaced ==
  [][bytes_sent' /= bytes_sent => /\ clock >= next_possible
                                  /\ bytes_sent > 0 => clock - last_sent >= MinDelta]_generatorVars

MaxBlockLength ==
  12 + Cardinality(Ssrcs) * StreamLength(MaxPacketsPerSsrc)

\* What the longest message, or the rate, allows in a maximal interval.
MaxBytesPerInterval == Larger(MaxFeedbackRate * MaxDelta, MaxBlockLength)

\* The comment on the class allows kMaxFeedbackRate of feedback.  All feedback
\* sent so far stays within that rate, up to one message and a tick, if the
\* longest message can be paid for within max_time_between_feedback_.  It need
\* not: with the code's values (500 kbit/s, 500 ms, 16384 packets) the rate
\* pays for 31250 bytes and the report of one SSRC may have 32788.  The clamp
\* then lets the next message go before the debt is paid, and what holds is
\* one longest message for each maximal interval.
FeedbackRateBounded ==
  MaxDelta * bytes_sent <=
    MaxBytesPerInterval * (last_sent + 1) + MaxDelta * MaxBlockLength

\* No packet waits behind the point where the next message of its SSRC will
\* start.  The loop of AddPacketsToFeedback relies on it: packet_it would
\* otherwise stay on a packet that is never reached, and everything would be
\* reported lost.
PendingAboveLast ==
  \A s \in Ssrcs : trackers[s].last /= Nullopt =>
    \A i \in DOMAIN trackers[s].packets : trackers[s].packets[i].seq > trackers[s].last

\* A message lists consecutive sequence numbers of an SSRC, and says of each
\* what the packets that waited for the message amount to: received if a copy
\* waited, with the arrival time of the first of these copies, and CE if any
\* of them was marked (the loop of AddPacketsToFeedback).  Copies that an
\* earlier message reported do not count: after reordering between messages
\* they are reported as lost (the TODO in ReceivedPacket), so this is less
\* than RFC 8888 asks.
ReportMatchesPending ==
  \A s \in Ssrcs : \A report \in Reports(trackers[s]) : \A i \in DOMAIN report :
     EntryFor(trackers[s].packets, report[i], report[1].seq + i - 1)

\* Every packet that waits gets into the message, unless the report of its
\* SSRC is full; a report never has more entries than one SSRC may have.
ReportComplete ==
  \A s \in Ssrcs : \A report \in Reports(trackers[s]) :
    /\ Len(report) <= MaxPacketsPerSsrc
    /\ Len(report) < MaxPacketsPerSsrc =>
         \A i \in DOMAIN trackers[s].packets :
            \E j \in DOMAIN report :
               report[j].seq = trackers[s].packets[i].seq /\ report[j].received
====
