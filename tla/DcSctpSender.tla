---- MODULE DcSctpSender ----
(***************************************************************************)
(* The sending half of an established association: RRSendQueue with its    *)
(* StreamScheduler, OutstandingData, RetransmissionQueue, the sending part *)
(* of TransmissionControlBlock and of StreamResetHandler, without message  *)
(* interleaving.                                                           *)
(*                                                                         *)
(* A sender is a record; an operation is an operator from a sender to the  *)
(* sender after it, which holds in `out` the chunks sent on the way.  An   *)
(* operation whose outcome is not determined gives the set of them.        *)
(*                                                                         *)
(* A fragment fills a packet, so that every packet holds one chunk.  Bytes *)
(* and windows are left out: what the congestion and receiver windows let  *)
(* through is any number of packets, but one at least when nothing is in   *)
(* flight, and no more than that after T3-rtx expired.  unacked_items_ and *)
(* to_be_retransmitted_ are read off the items they count.                 *)
(***************************************************************************)
EXTENDS Integers, FiniteSets, FiniteSetsExt, Sequences, SequencesExt

LOCAL INSTANCE DataTracker

CONSTANTS
  Streams,
  Messages,              \* a sequence of what is sent, see Message
  NoLimit,               \* MaxRetransmits::NoLimit
  NackThreshold,         \* kNumberOfNacksForRetransmission
  MaxRetransmissions,    \* options.max_retransmissions
  MaxBurst,              \* options.max_burst
  NoReq

MsgIds == DOMAIN Messages

Message == [stream : Streams, fragments : Nat \ {0}, unordered : BOOLEAN,
            max_rtx : Nat, lifetime : BOOLEAN]

ASSUME SenderAssumption ==
  /\ \A m \in MsgIds : Messages[m] \in Message
  /\ \A m \in MsgIds : Messages[m].max_rtx <= NoLimit
  /\ {NackThreshold, MaxRetransmissions, MaxBurst} \subseteq Nat \ {0}

StreamOf(m) == Messages[m].stream

NewSender ==
  [queue |-> [st \in Streams |-> <<>>],     \* the messages of a stream
   offset |-> [st \in Streams |-> 0],       \* fragments sent of its first message
   next_ssn |-> [st \in Streams |-> 0],
   pause |-> [st \in Streams |-> "NotPaused"],
   last_cum |-> 0, items |-> <<>>,          \* of the TSNs after last_cum, in order
   fast |-> {}, breakpoints |-> {}, recovery_exit |-> 0,
   t3_rtx |-> FALSE, slow |-> FALSE, errors |-> 0, forward_limited |-> FALSE,
   req |-> NoReq, next_req |-> 1, reconfig |-> FALSE,
   aborted |-> FALSE, lifecycle |-> [m \in MsgIds |-> "None"], out |-> {}]

NextTsn(s) == s.last_cum + Len(s.items) + 1

Emit(s, chunk) == [s EXCEPT !.out = @ \cup {chunk}]

EndLifecycle(s, msgs, event) ==
  [s EXCEPT !.lifecycle = [m \in MsgIds |-> IF m \in msgs THEN event ELSE @[m]]]

(***************************************************************************)
(* RRSendQueue                                                             *)
(***************************************************************************)
\* Pause: the messages that are not partly sent are thrown away.
Pause(s, st) ==
  LET keep == IF s.offset[st] > 0 THEN 1 ELSE 0
      gone == ToSet(SubSeq(s.queue[st], keep + 1, Len(s.queue[st])))
  IN IF s.pause[st] /= "NotPaused" THEN s
     ELSE EndLifecycle([s EXCEPT !.queue[st] = SubSeq(@, 1, keep),
                                 !.pause[st] = IF keep = 0 THEN "Paused" ELSE "Pending"],
                       gone, "Expired")

\* The first message of a stream is over, sent to its end or discarded.
PopFront(s, st) ==
  [s EXCEPT !.queue[st] = Tail(@), !.offset[st] = 0,
            !.pause[st] = IF @ = "Pending" THEN "Paused" ELSE @]

PartlySent(s, st) == s.offset[st] > 0
IsActive(s, st) == s.pause[st] \in {"NotPaused", "Pending"} /\ s.queue[st] /= <<>>

\* How many messages of a stream OutgoingStream::Produce drops, because they
\* expired before their first fragment was sent.
Stale(s, st, expired) ==
  LET live == {i \in 1 .. Len(s.queue[st]) : s.queue[st][i] \notin expired}
  IN IF PartlySent(s, st) \/ ~IsActive(s, st) THEN 0
     ELSE IF live = {} THEN Len(s.queue[st]) ELSE Min(live) - 1

DropStale(s, sts, expired) ==
  LET n(st) == IF st \in sts THEN Stale(s, st, expired) ELSE 0
  IN EndLifecycle(
       [s EXCEPT !.queue = [st \in Streams |-> SubSeq(@[st], n(st) + 1, Len(@[st]))]],
       UNION {ToSet(SubSeq(s.queue[st], 1, n(st))) : st \in Streams}, "Expired")

\* StreamScheduler::Produce: a message is sent to its end before another stream
\* has its turn, and a stream with nothing but stale messages is passed over.
PassedOver(s, expired) ==
  {st \in Streams : IsActive(s, st) /\ Stale(s, st, expired) = Len(s.queue[st])}
Scheduled(s, expired) ==
  LET partly == {st \in Streams : PartlySent(s, st)}
  IN IF partly /= {} THEN partly
     ELSE {st \in Streams : IsActive(s, st)} \ PassedOver(s, expired)

\* CommitResetStreams, RollbackResetStreams.
CommitResetStreams(s) ==
  [s EXCEPT !.next_ssn = [st \in Streams |-> IF s.pause[st] = "Resetting" THEN 0 ELSE @[st]],
            !.pause = [st \in Streams |-> IF @[st] = "Resetting" THEN "NotPaused" ELSE @[st]]]
RollbackResetStreams(s) ==
  [s EXCEPT !.pause = [st \in Streams |-> IF @[st] = "Resetting" THEN "NotPaused" ELSE @[st]]]

(***************************************************************************)
(* OutstandingData                                                         *)
(***************************************************************************)
Item(m, frag, ssn) ==
  [msg |-> m, frag |-> frag, ssn |-> ssn, life |-> "Active", ack |-> "Unacked",
   nacks |-> 0, rtx |-> 0]

Tsns(s) == s.last_cum + 1 .. NextTsn(s) - 1
At(s, tsn) == s.items[tsn - s.last_cum]
WithItems(s, Op(_)) ==
  [s EXCEPT !.items = <<>> \o [i \in DOMAIN @ |-> Op(s.last_cum + i)]]
Unacked(s) == {t \in Tsns(s) : At(s, t).ack = "Unacked"}
ToBeRetransmitted(s) == {t \in Tsns(s) : At(s, t).life = "ToBeRetransmitted"} \ s.fast

Data(s, tsn, immediate) ==
  [type |-> "DATA", tsn |-> tsn, msg |-> At(s, tsn).msg, frag |-> At(s, tsn).frag,
   ssn |-> At(s, tsn).ssn, immediate |-> immediate]

\* Item::Ack, Item::Nack, Item::MarkAsRetransmitted.
Ack(item) ==
  [item EXCEPT !.life = IF @ = "Abandoned" THEN @ ELSE "Active", !.ack = "Acked"]

Nack(item, retransmit_now) ==
  LET nacks == IF item.nacks < NackThreshold THEN item.nacks + 1 ELSE NackThreshold
      lost == item.life = "Active" /\ (retransmit_now \/ nacks >= NackThreshold)
  IN [item EXCEPT !.ack = "Nacked", !.nacks = nacks,
        !.life = IF ~lost THEN @
                 ELSE IF item.rtx < Messages[item.msg].max_rtx THEN "ToBeRetransmitted"
                 ELSE "Abandoned"]

\* Retransmissions are counted when their number is limited.
MarkAsRetransmitted(item) ==
  [item EXCEPT !.life = "Active", !.ack = "Unacked", !.nacks = 0,
               !.rtx = IF Messages[item.msg].max_rtx = NoLimit THEN @ ELSE @ + 1]

Retransmit(s, tsn, immediate) ==
  LET s1 == [s EXCEPT !.items[tsn - s.last_cum] = MarkAsRetransmitted(@), !.t3_rtx = TRUE]
  IN Emit(s1, Data(s1, tsn, immediate))

\* A message that is still being sent gets an end that is never sent, fragment 0.
AbandonAllFor(s, m) ==
  LET st == StreamOf(m)
      discarded == PartlySent(s, st) /\ Head(s.queue[st]) = m
      ssn == At(s, CHOOSE t \in Tsns(s) : At(s, t).msg = m).ssn
      s1 == IF ~discarded THEN s
            ELSE EndLifecycle([PopFront(s, st) EXCEPT !.items = Append(@, Ack(Item(m, 0, ssn)))],
                              {m}, "Expired")
      its == {t \in Tsns(s1) : At(s1, t).msg = m}
      AbandonedIf(t) == IF t \in its THEN [At(s1, t) EXCEPT !.life = "Abandoned"] ELSE At(s1, t)
  IN [WithItems(s1, AbandonedIf) EXCEPT !.fast = @ \ its]

NackItem(s, tsn, retransmit_now, do_fast_retransmit) ==
  LET item == Nack(At(s, tsn), retransmit_now)
      s1 == [s EXCEPT !.items[tsn - s.last_cum] = item]
  IN IF item.life = At(s, tsn).life THEN s1
     ELSE IF item.life = "Abandoned" THEN AbandonAllFor(s1, item.msg)
     ELSE IF do_fast_retransmit THEN [s1 EXCEPT !.fast = @ \cup {tsn}]
     ELSE s1

RECURSIVE NackAllOf(_, _, _, _)
NackAllOf(s, tsns, retransmit_now, do_fast_retransmit) ==
  IF tsns = {} THEN s
  ELSE NackAllOf(NackItem(s, Min(tsns), retransmit_now, do_fast_retransmit),
                 tsns \ {Min(tsns)}, retransmit_now, do_fast_retransmit)

NackAll(s) == NackAllOf(s, {t \in Tsns(s) : At(s, t).ack /= "Acked"}, TRUE, FALSE)

\* ExpireOutstandingChunks: from the first item on, as long as they are given up.
RECURSIVE ExpireFrom(_, _, _)
ExpireFrom(s, tsn, expired) ==
  IF tsn \notin Tsns(s) THEN s
  ELSE LET item == At(s, tsn)
       IN IF item.life = "Abandoned" THEN ExpireFrom(s, tsn + 1, expired)
          ELSE IF item.ack = "Nacked" /\ item.msg \in expired
               THEN ExpireFrom(AbandonAllFor(s, item.msg), tsn + 1, expired)
          ELSE s

ShouldSendForwardTsn(s) == Tsns(s) /= {} /\ At(s, s.last_cum + 1).life = "Abandoned"

CreateForwardTsn(s) ==
  LET Skips(t) == \A u \in s.last_cum + 1 .. t :
                    At(s, u).life = "Abandoned" /\ u \notin s.breakpoints
      skipped == {t \in Tsns(s) : Skips(t)}
      ordered == {t \in skipped : ~Messages[At(s, t).msg].unordered}
      of(st) == {At(s, t).ssn : t \in {u \in ordered : StreamOf(At(s, u).msg) = st}}
  IN [type |-> "FORWARD_TSN", tsn |-> Max(skipped \cup {s.last_cum}),
      skipped |-> {[stream |-> st, ssn |-> Max(of(st))] :
                     st \in {StreamOf(At(s, t).msg) : t \in ordered}}]

\* RemoveAcked: the items up to `cum` are gone, and the messages that end there
\* were delivered, or perhaps were.
RemoveAcked(s, cum) ==
  LET gone == {t \in Tsns(s) : t <= cum}
      ends == {t \in gone : At(s, t).frag = Messages[At(s, t).msg].fragments}
      abandoned == {t \in ends : At(s, t).life = "Abandoned"}
      MsgsOf(tsns) == {At(s, t).msg : t \in tsns}
  IN EndLifecycle(
       EndLifecycle([s EXCEPT !.last_cum = cum, !.items = SubSeq(@, Cardinality(gone) + 1, Len(@)),
                              !.breakpoints = {b \in @ : b > cum + 1}],
                    MsgsOf(ends \ abandoned), "Delivered"),
       MsgsOf(abandoned), "MaybeDelivered")

\* OutstandingData::HandleSack.  RemoveAcked has moved last_cum to the SACK's TSN
\* by the time NackBetweenAckBlocks compares them, so that fast recovery does not
\* widen what it nacks.
AckAndNack(s, cum, blocks) ==
  LET s1 == RemoveAcked(s, cum)
      acked == {t \in Tsns(s1) : \E b \in blocks : Covers(b, t)}
      newly == {t \in acked \cup {u \in Tsns(s) : u <= cum} : At(s, t).ack /= "Acked"}
      AckedIf(t) == IF t \in acked THEN Ack(At(s1, t)) ELSE At(s1, t)
      s2 == WithItems(s1, AckedIf)
      missing == {t \in Tsns(s1) \ acked :
                    /\ \E b \in blocks : t < b.first
                    /\ t <= Max(newly \cup {cum})}
      s3 == NackAllOf(s2, missing, FALSE, s.recovery_exit = 0)
  IN [sender |-> s3, any |-> newly /= {},
      has_packet_loss |-> \E t \in missing : At(s3, t).life /= At(s2, t).life]

(***************************************************************************)
(* RetransmissionQueue and TransmissionControlBlock                        *)
(***************************************************************************)
IsSackValid(s, cum) == s.last_cum <= cum /\ cum < NextTsn(s)

\* Mutant of HandleSack: with T3-rtx stopped and not started for what is still out.
HandleSackStopT3(s, cum, blocks) ==
  LET s1 == AckAndNack(s, cum, blocks).sender
  IN [s1 EXCEPT !.errors = 0, !.t3_rtx = @ /\ cum = s.last_cum]

\* `slow` is a congestion window of one packet: since T3-rtx expired, and until
\* the window grows or is set by a loss.
HandleSack(s, cum, blocks) ==
  LET s1 == [s EXCEPT !.recovery_exit = IF cum >= @ THEN 0 ELSE @]
      info == AckAndNack(s1, cum, blocks)
      s2 == info.sender
      loss == info.has_packet_loss /\ s1.recovery_exit = 0
      grows == cum > s.last_cum /\ s1.recovery_exit = 0
  IN [s2 EXCEPT !.recovery_exit = IF loss THEN NextTsn(s2) - 1 ELSE @,
                !.slow = @ /\ ~loss /\ ~grows,
                !.errors = IF info.any THEN 0 ELSE @,
                !.t3_rtx = (@ /\ cum = s.last_cum) \/ Tsns(s2) /= {}]

\* MaybeSendFastRetransmit: the lowest one is sent, the others wait.
MaybeSendFastRetransmit(s) ==
  IF s.fast = {} THEN s
  ELSE [Retransmit(s, Min(s.fast), FALSE) EXCEPT !.fast = {}]

\* OutgoingStream::Produce, and OutstandingData::Insert, which gives up a message
\* that has expired.
Produce(s, st, expired) ==
  LET m == Head(s.queue[st])
      frag == s.offset[st] + 1
      begins == frag = 1 /\ ~Messages[m].unordered
      ssn == IF Messages[m].unordered THEN 0
             ELSE s.next_ssn[st] - (IF frag = 1 THEN 0 ELSE 1)
      s1 == [s EXCEPT !.next_ssn[st] = IF begins THEN @ + 1 ELSE @]
      s2 == IF frag = Messages[m].fragments THEN PopFront(s1, st)
            ELSE [s1 EXCEPT !.offset[st] = frag]
      s3 == [s2 EXCEPT !.items = Append(@, Item(m, frag, ssn))]
  IN IF m \in expired THEN AbandonAllFor(s3, m)
     ELSE Emit([s3 EXCEPT !.t3_rtx = TRUE], Data(s3, NextTsn(s), s.slow))

\* GetChunksToSend, for a packet that is full with one chunk.
GetChunksToSend(s, expired) ==
  LET passed == PassedOver(s, expired)
  IN IF ToBeRetransmitted(s) /= {}
     THEN {Retransmit(s, Min(ToBeRetransmitted(s)), s.slow)}
     ELSE IF Scheduled(s, expired) = {} THEN {DropStale(s, passed, expired)}
     ELSE {Produce(DropStale(s, over \cup {st}, expired), st, expired) :
             over \in SUBSET passed, st \in Scheduled(s, expired)}

MaybeSendForwardTsn(s, expired) ==
  LET s1 == ExpireFrom(s, s.last_cum + 1, expired)
  IN IF s.forward_limited THEN s
     ELSE IF ~ShouldSendForwardTsn(s1) THEN s1
     ELSE Emit([s1 EXCEPT !.forward_limited = TRUE], CreateForwardTsn(s1))

\* MakeReconfigChunk, MakeStreamResetRequest.  A request that is not sent, or must
\* be sent anew, has number 0.
MakeReconfigChunk(s) ==
  LET nbr == IF s.req.nbr = 0 THEN s.next_req ELSE s.req.nbr
  IN Emit([s EXCEPT !.req.nbr = nbr, !.next_req = IF s.req.nbr = 0 THEN @ + 1 ELSE @],
          [type |-> "RECONFIG", nbr |-> nbr, tsn |-> s.req.tsn, streams |-> s.req.streams])

MakeStreamResetRequest(s) ==
  LET ready == {st \in Streams : s.pause[st] = "Paused"}
  IN IF s.req /= NoReq \/ ready = {} THEN s
     ELSE MakeReconfigChunk(
            [s EXCEPT !.req = [nbr |-> 0, tsn |-> NextTsn(s) - 1, streams |-> ready],
                      !.pause = [st \in Streams |-> IF st \in ready THEN "Resetting" ELSE @[st]],
                      !.breakpoints = @ \cup {NextTsn(s)}, !.reconfig = TRUE])

\* The packets of a burst; one that would be empty ends it.
RECURSIVE Packets(_, _, _, _)
Packets(s, before, n, expired) ==
  {s} \cup
    (IF n = 0 \/ (s.slow /\ Unacked(s) /= {}) THEN {}
     ELSE UNION {IF x.out = before THEN {x} ELSE Packets(x, x.out, n - 1, expired) :
                   x \in GetChunksToSend(s, expired)})

SendBufferedPackets(s, expired) ==
  LET s1 == MakeStreamResetRequest(MaybeSendForwardTsn(s, expired))
      bursts == Packets(s1, s.out, MaxBurst, expired)
  IN IF Unacked(s1) /= {} THEN bursts
     ELSE {x \in bursts : x /= s1 \/ GetChunksToSend(s1, expired) = {s1}}

\* IncrementTxErrorCounter; the socket closes when the counter is exhausted.
IncrementTxErrorCounter(s) ==
  IF s.errors < MaxRetransmissions THEN [s EXCEPT !.errors = @ + 1]
  ELSE [s EXCEPT !.aborted = TRUE]

OnRtxTimerExpiry(s, expired) ==
  LET s1 == IncrementTxErrorCounter(s)
  IN IF s1.aborted THEN {s1}
     ELSE SendBufferedPackets([NackAll(s1) EXCEPT !.slow = TRUE], expired)

OnReconfigTimerExpiry(s) ==
  LET s1 == IF s.req.nbr = 0 THEN s ELSE IncrementTxErrorCounter(s)
  IN IF s1.aborted THEN s1 ELSE MakeReconfigChunk(s1)

\* StreamResetHandler::HandleResponse.
HandleResponse(s, nbr, result) ==
  IF s.req = NoReq \/ s.req.nbr = 0 \/ s.req.nbr /= nbr THEN s
  ELSE CASE result = "Performed" ->
              CommitResetStreams([s EXCEPT !.req = NoReq, !.reconfig = FALSE])
         [] result = "InProgress" -> [s EXCEPT !.req.nbr = 0]
         [] OTHER -> RollbackResetStreams([s EXCEPT !.req = NoReq, !.reconfig = FALSE])
====
