---- MODULE DcSctpReceiver ----
(***************************************************************************)
(* The receiving half of an established association: DataTracker,          *)
(* ReassemblyQueue with its TraditionalReassemblyStreams, and the part of  *)
(* StreamResetHandler that answers requests.                               *)
(*                                                                         *)
(* A receiver is a record, an operation an operator from a receiver to the *)
(* receiver after it, with what it sends in `out`.  What is delivered is   *)
(* the sequence of the <<message, fragment>> it was put together from, so  *)
(* that a message made of the wrong fragments would show.  SSNs are        *)
(* unwrapped.  The limits of the reassembly buffer are left out.           *)
(***************************************************************************)
EXTENDS Integers, FiniteSets, FiniteSetsExt, Sequences, SequencesExt, DataTracker

CONSTANTS Streams, Messages, NoReq

NewReceiver ==
  [tracker |-> NewTracker, next_ssn |-> [st \in Streams |-> 0],
   chunks |-> {},                      \* DATA waiting for the rest of its message
   deferred |-> NoReq, last_req |-> 0, last_result |-> "Performed",
   delivered |-> <<>>, out |-> {}]

IsUnordered(c) == Messages[c.msg].unordered
StreamOfChunk(c) == Messages[c.msg].stream
IsBeginning(c) == c.frag = 1
IsEnd(c) == c.frag = Messages[c.msg].fragments

(***************************************************************************)
(* TraditionalReassemblyStreams                                            *)
(***************************************************************************)
Whole(m) == [i \in 1 .. Messages[m].fragments |-> <<m, i>>]

AssembleMessage(r, cs) ==
  LET sorted == SetToSortSeq(cs, LAMBDA c, d : c.tsn < d.tsn)
  IN [r EXCEPT !.delivered = Append(@, [i \in DOMAIN sorted |-> <<sorted[i].msg, sorted[i].frag>>]),
               !.chunks = @ \ cs]

\* A run of TSNs without a gap, from a beginning to an end.
IsComplete(cs) ==
  LET first == CHOOSE c \in cs : \A d \in cs : c.tsn <= d.tsn
      last == CHOOSE c \in cs : \A d \in cs : c.tsn >= d.tsn
  IN IsBeginning(first) /\ IsEnd(last) /\ last.tsn - first.tsn = Cardinality(cs) - 1

\* OrderedStream::TryToAssembleMessages.  Only the lowest SSN is looked at.
RECURSIVE TryToAssembleMessages(_, _)
TryToAssembleMessages(r, st) ==
  LET waiting == {c \in r.chunks : ~IsUnordered(c) /\ StreamOfChunk(c) = st}
      lowest == {c \in waiting : \A d \in waiting : c.ssn <= d.ssn}
  IN IF waiting /= {} /\ (\A c \in lowest : c.ssn = r.next_ssn[st]) /\ IsComplete(lowest)
     THEN TryToAssembleMessages(
            [AssembleMessage(r, lowest) EXCEPT !.next_ssn[st] = @ + 1], st)
     ELSE r

\* Mutant of AddOrdered: with a message of one fragment delivered when it comes.
AddOrderedAtOnce(r, c) ==
  IF IsBeginning(c) /\ IsEnd(c) THEN AssembleMessage(r, {c})
  ELSE TryToAssembleMessages([r EXCEPT !.chunks = @ \cup {c}], StreamOfChunk(c))

\* OrderedStream::Add.  A message of one fragment that is next is not queued.
AddOrdered(r, c) ==
  LET st == StreamOfChunk(c)
  IN IF c.ssn /= r.next_ssn[st] THEN [r EXCEPT !.chunks = @ \cup {c}]
     ELSE IF IsBeginning(c) /\ IsEnd(c)
          THEN TryToAssembleMessages(
                 [AssembleMessage(r, {c}) EXCEPT !.next_ssn[st] = @ + 1], st)
     ELSE TryToAssembleMessages([r EXCEPT !.chunks = @ \cup {c}], st)

\* UnorderedStream::Add, FindBeginning, FindEnd.
AddUnordered(r, c) ==
  LET waiting == {d \in r.chunks : IsUnordered(d) /\ StreamOfChunk(d) = StreamOfChunk(c)} \cup {c}
      begins == {d.tsn : d \in {e \in waiting : IsBeginning(e) /\ e.tsn <= c.tsn}}
      ends == {d.tsn : d \in {e \in waiting : IsEnd(e) /\ e.tsn >= c.tsn}}
      run == {d \in waiting : Max(begins) <= d.tsn /\ d.tsn <= Min(ends)}
  IN IF begins /= {} /\ ends /= {} /\ IsComplete(run)
     THEN AssembleMessage(r, run)
     ELSE [r EXCEPT !.chunks = @ \cup {c}]

\* Mutant of EraseOrderedTo: without a look at what waits behind.
EraseOrderedToOnly(r, st, ssn) ==
  LET old == {c \in r.chunks : ~IsUnordered(c) /\ StreamOfChunk(c) = st /\ c.ssn <= ssn}
  IN [r EXCEPT !.chunks = @ \ old, !.next_ssn[st] = IF ssn >= @ THEN ssn + 1 ELSE @]

\* OrderedStream::EraseTo.
EraseOrderedTo(r, st, ssn) ==
  LET old == {c \in r.chunks : ~IsUnordered(c) /\ StreamOfChunk(c) = st /\ c.ssn <= ssn}
  IN TryToAssembleMessages(
       [r EXCEPT !.chunks = @ \ old, !.next_ssn[st] = IF ssn >= @ THEN ssn + 1 ELSE @], st)

SkipTo(r, tsn, skipped) ==
  FoldLeft(LAMBDA acc, k : EraseOrderedTo(acc, k.stream, k.ssn),
           [r EXCEPT !.chunks = {c \in @ : ~IsUnordered(c) \/ c.tsn > tsn}],
           SetToSortSeq(skipped, LAMBDA k, l : k.stream < l.stream))

(***************************************************************************)
(* ReassemblyQueue                                                         *)
(***************************************************************************)
\* Add and HandleForwardTsn: what follows the TSN of a deferred reset waits.
IsDeferred(r, c) ==
  /\ r.deferred /= NoReq
  /\ c.tsn > r.deferred.tsn
  /\ c.type = "DATA" => StreamOfChunk(c) \in r.deferred.streams

Reassemble(r, c) ==
  CASE IsDeferred(r, c) -> [r EXCEPT !.deferred.actions = Append(@, c)]
    [] c.type = "FORWARD_TSN" -> SkipTo(r, c.tsn, c.skipped)
    [] IsUnordered(c) -> AddUnordered(r, c)
    [] OTHER -> AddOrdered(r, c)

\* ResetStreamsAndLeaveDeferredReset.
ResetStreams(r, streams) ==
  LET actions == IF r.deferred = NoReq THEN <<>> ELSE r.deferred.actions
  IN FoldLeft(Reassemble,
              [r EXCEPT !.deferred = NoReq,
                 !.next_ssn = [st \in Streams |-> IF st \in streams THEN 0 ELSE @[st]]],
              actions)

EnterDeferredReset(r, tsn, streams) ==
  IF r.deferred /= NoReq THEN r
  ELSE [r EXCEPT !.deferred = [tsn |-> tsn, streams |-> streams, actions |-> <<>>]]

(***************************************************************************)
(* StreamResetHandler and DcSctpSocket                                     *)
(***************************************************************************)
SendSack(r) ==
  [r EXCEPT !.tracker = AckSent(@),
            !.out = @ \cup {[type |-> "SACK", cum |-> r.tracker.cum_tsn,
                             blocks |-> r.tracker.blocks]}]

\* HandleResetOutgoing: a request comes again with its number, or with the next.
HandleResetOutgoing(r, req) ==
  LET reached == req.tsn <= r.tracker.cum_tsn
      result == CASE req.nbr = r.last_req -> r.last_result
                  [] req.nbr /= r.last_req + 1 -> "BadSequenceNumber"
                  [] OTHER -> IF reached THEN "Performed" ELSE "InProgress"
      r1 == IF req.nbr /= r.last_req + 1 THEN r
            ELSE [IF reached THEN ResetStreams(r, req.streams)
                  ELSE EnterDeferredReset(r, req.tsn, req.streams)
                    EXCEPT !.last_req = req.nbr, !.last_result = result]
  IN [r1 EXCEPT !.out = @ \cup {[type |-> "RESPONSE", nbr |-> req.nbr, result |-> result]}]

\* HandleReconfig ends with SendBufferedPackets, which sends a delayed SACK.
HandleReconfig(r, req) ==
  LET r1 == HandleResetOutgoing(r, req)
  IN IF r1.tracker.ack = "Idle" THEN r1 ELSE SendSack(r1)

\* HandleDataCommon: a DATA chunk that came before is acknowledged and dropped.
HandleData(r, c) ==
  LET r1 == [r EXCEPT !.tracker = Observe(@, c.tsn, c.immediate)]
  IN IF IsNew(r.tracker, c.tsn) THEN Reassemble(r1, c) ELSE r1

HandleForwardTsnChunk(r, c) ==
  LET r1 == [r EXCEPT !.tracker = HandleForwardTsn(@, c.tsn)]
  IN IF MovesForward(r.tracker, c.tsn) THEN Reassemble(r1, c) ELSE r1

MaybeSendSack(r) == IF ShouldSendAck(r.tracker) THEN SendSack(r) ELSE r

\* ReceivePacket, for a packet of one chunk.
ReceiveChunk(r, c) ==
  LET r1 == CASE c.type = "DATA" -> HandleData(r, c)
              [] c.type = "FORWARD_TSN" -> HandleForwardTsnChunk(r, c)
              [] c.type = "RECONFIG" -> HandleReconfig(r, c)
  IN MaybeSendSack([r1 EXCEPT !.tracker = ObservePacketEnd(@)])

OnDelayedAckTimerExpiry(r) ==
  MaybeSendSack([r EXCEPT !.tracker = HandleDelayedAckTimerExpiry(@)])
====
