---- MODULE CongestionControlFeedbackTracker ----
(***************************************************************************)
(* The receive-side tracker of one SSRC that fills in RFC 8888 feedback:   *)
(* modules/remote_bitrate_estimator/congestion_control_feedback_tracker.*. *)
(*                                                                         *)
(* A tracker is a record [last, packets]: last_sequence_number_in_feedback_*)
(* (Nullopt before the first feedback) and packets_, in order of arrival.  *)
(* The operators are the two methods.  RTP sequence numbers are unwrapped. *)
(***************************************************************************)
EXTENDS Integers, Sequences, FiniteSets

CONSTANTS
  Nullopt,             \* std::nullopt
  MaxPacketsPerSsrc,   \* kMaxPacketsPerSsrc
  Ecns                 \* the ECN markings that occur

ASSUME NulloptAssumption == Nullopt \notin Int
ASSUME MaxPacketsPerSsrcAssumption == MaxPacketsPerSsrc \in Nat \ {0}

PacketInfo == [seq : Nat, arrival_time : Nat, ecn : Ecns]

NewTracker == [last |-> Nullopt, packets |-> <<>>]

\* Mutant of ReceivedPacket: rewinds to the late packet instead of to the one
\* before it.
ReceivedPacketRewindsShort(tr, p) ==
  IF Len(tr.packets) > MaxPacketsPerSsrc THEN tr
  ELSE [last    |-> IF tr.last /= Nullopt /\ p.seq < tr.last + 1
                    THEN p.seq ELSE tr.last,
        packets |-> Append(tr.packets, p)]

\* ReceivedPacket: too many packets waiting and the packet is dropped;
\* otherwise it is kept, and a packet that arrives after a feedback message
\* covered its sequence number makes the next message start over from it.  What
\* was reported before is not kept: the next message reports it as lost.
ReceivedPacket(tr, p) ==
  IF Len(tr.packets) > MaxPacketsPerSsrc THEN tr
  ELSE [last    |-> IF tr.last /= Nullopt /\ p.seq < tr.last + 1
                    THEN p.seq - 1 ELSE tr.last,
        packets |-> Append(tr.packets, p)]

\* The orders in which packets_ may be left by the sort, which is not stable.
Sorted(packets) ==
  LET I     == DOMAIN packets
      Perms == {f \in [I -> I] : \A i, j \in I : i /= j => f[i] /= f[j]}
      Before(a, b) == \/ a.seq < b.seq
                      \/ a.seq = b.seq /\ a.arrival_time <= b.arrival_time
  IN {s \in {[i \in I |-> packets[f[i]]] : f \in Perms} :
        \A i, j \in I : i < j => Before(s[i], s[j])}

\* Mutant of CopyEcn: the marking of the first copy only.
CopyEcnFirst(sorted, it, end) == sorted[it].ecn

\* The marking reported for the copies sorted[it .. end - 1] of one packet.
CopyEcn(sorted, it, end) ==
  IF \E i \in it + 1 .. end - 1 : sorted[i].ecn = "Ce" THEN "Ce"
  ELSE sorted[it].ecn

\* Where packet_it stands after all copies of the packet it points to.
AfterCopies(sorted, it) ==
  CHOOSE end \in it + 1 .. Len(sorted) + 1 :
    /\ \A i \in it .. end - 1 : sorted[i].seq = sorted[it].seq
    /\ end <= Len(sorted) => sorted[end].seq /= sorted[it].seq

\* Mutant of ReportPacket: a gap before a packet that arrived counts as received.
ReportPacketGap(sorted, n, acc) ==
  [it     |-> IF n = sorted[acc.it].seq THEN AfterCopies(sorted, acc.it) ELSE acc.it,
   report |-> Append(acc.report,
                [seq |-> n, received |-> TRUE,
                 arrival_time |-> sorted[acc.it].arrival_time,
                 ecn |-> sorted[acc.it].ecn])]

\* One iteration of the loop of AddPacketsToFeedback, for sequence number n;
\* acc.it is packet_it and acc.report is packet_feedback.
ReportPacket(sorted, n, acc) ==
  IF n = sorted[acc.it].seq
  THEN LET end == AfterCopies(sorted, acc.it)
       IN [it     |-> end,
           report |-> Append(acc.report,
                        [seq |-> n, received |-> TRUE,
                         arrival_time |-> sorted[acc.it].arrival_time,
                         ecn |-> CopyEcn(sorted, acc.it, end)])]
  ELSE [it     |-> acc.it,
        report |-> Append(acc.report,
                     [seq |-> n, received |-> FALSE,
                      arrival_time |-> 0, ecn |-> "NotEct"])]

\* Mutant of ReportEnd: the limit allows one packet more.
ReportEndPlusOne(last, back) ==
  IF back <= last + MaxPacketsPerSsrc + 1 THEN back ELSE last + MaxPacketsPerSsrc + 1

\* The last sequence number that one message may cover.
ReportEnd(last, back) ==
  IF back <= last + MaxPacketsPerSsrc THEN back ELSE last + MaxPacketsPerSsrc

\* AddPacketsToFeedback, given the outcome of the sort.
AddPacketsToFeedback(tr, sorted) ==
  IF tr.packets = <<>> THEN [tracker |-> tr, report |-> <<>>]
  ELSE LET last == IF tr.last = Nullopt THEN sorted[1].seq - 1 ELSE tr.last
           back == sorted[Len(sorted)].seq
           loop[n \in last .. ReportEnd(last, back)] ==
             IF n = last THEN [it |-> 1, report |-> <<>>]
             ELSE ReportPacket(sorted, n, loop[n - 1])
       IN [tracker |-> [last |-> back, packets |-> <<>>],
           report  |-> loop[ReportEnd(last, back)].report]

(***************************************************************************)
(* What a message should say of the packets that waited for it.            *)
(***************************************************************************)
\* The messages that a tracker may make in its state.
Reports(tr) == {AddPacketsToFeedback(tr, sorted).report : sorted \in Sorted(tr.packets)}

CopiesIn(packets, n) == {i \in DOMAIN packets : packets[i].seq = n}

FirstCopiesIn(packets, n) ==
  {i \in CopiesIn(packets, n) : \A j \in CopiesIn(packets, n) :
     packets[i].arrival_time <= packets[j].arrival_time}

\* Entry e says of sequence number n what RFC 8888 asks if packets are all
\* that arrived.
EntryFor(packets, e, n) ==
  /\ e.seq = n
  /\ e.received <=> CopiesIn(packets, n) /= {}
  /\ e.received =>
       /\ \E i \in FirstCopiesIn(packets, n) : e.arrival_time = packets[i].arrival_time
       /\ IF \E i \in CopiesIn(packets, n) : packets[i].ecn = "Ce"
          THEN e.ecn = "Ce"
          ELSE \E i \in FirstCopiesIn(packets, n) : e.ecn = packets[i].ecn
====
