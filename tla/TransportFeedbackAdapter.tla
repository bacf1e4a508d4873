---- MODULE TransportFeedbackAdapter ----
(***************************************************************************)
(* The send-side bookkeeping of transport wide congestion control:         *)
(* modules/congestion_controller/rtp/transport_feedback_adapter.{h,cc}.    *)
(*                                                                         *)
(* Every packet handed to the network gets a transport sequence number and *)
(* an entry in history_; the socket later reports when it was sent, and    *)
(* RTCP feedback reports which packets arrived.  RFC 8888 feedback names a *)
(* packet by (SSRC, RTP sequence number), transport-cc feedback names it   *)
(* by transport sequence number.  The adapter joins the three streams of   *)
(* events, which may interleave in any order, and keeps the number of      *)
(* bytes in flight on each path.                                           *)
(*                                                                         *)
(* A feedback message is handled packet by packet (the loop body is one    *)
(* action); no other call is made on the adapter in between, because all   *)
(* calls run on one task queue.  Transport sequence numbers are modelled   *)
(* unwrapped.  Send times are abstracted to sent / not yet sent (infinite),*)
(* and the clock offset of the receive times and the size of untracked     *)
(* data, which only travel inside a result, are left out.                  *)
(***************************************************************************)
EXTENDS Integers, Sequences, FiniteSets

CONSTANTS
  Keys,           \* pairs of an SSRC and an RTP sequence number
  Paths,          \* pairs of connected endpoints
  NoPath,         \* the default-constructed endpoints, which are not connected
  PacketIds,      \* values of NetworkRoute::last_sent_packet_id
  MaxSize,        \* largest size of a packet in bytes
  HistoryWindow,  \* kSendTimeHistoryWindow
  Ecns,           \* ECN markings that feedback reports
  Formats,        \* feedback formats in use: "ccfb" (RFC 8888), "transport_cc"
  MaxPackets,     \* bound: packets sent
  MaxClock,       \* bound: time
  MaxReport       \* bound: packets in one feedback message

ASSUME PathsAssumption == NoPath \notin Paths /\ -1 \in PacketIds
ASSUME MaxSizeAssumption == MaxSize \in Nat \ {0}
ASSUME HistoryWindowAssumption == HistoryWindow \in Nat
ASSUME BoundsAssumption == /\ MaxPackets \in Nat
                           /\ MaxClock \in Nat
                           /\ MaxReport \in Nat

EcnMarking == {"NotEct", "Ect0", "Ect1", "Ce"}
ASSUME EcnsAssumption == Ecns \subseteq EcnMarking

VARIABLES
  clock,              \* the time at which calls are made
  transport_seq,      \* PacketRouter::transport_seq_, the next number to assign
  history,            \* history_: transport sequence number -> PacketFeedback
  rtp_to_transport,   \* rtp_to_transport_sequence_number_
  last_ack,           \* last_ack_seq_num_
  in_flight,          \* in_flight_; a path that is not in the map has 0 bytes
  network_route,      \* network_route_
  feedback,           \* the feedback message being processed, or NoFeedback
  returned,           \* what the last call returned to its caller
  keys_sent,          \* history variable: the key of every packet ever added
  reported            \* history variable: packets returned as received

adapterVars == <<clock, transport_seq, history, rtp_to_transport, last_ack,
                 in_flight, network_route, feedback,
                 returned, keys_sent, reported>>

(***************************************************************************)
(* NetworkRoute.  Two routes are equal (operator==) when path and packet id*)
(* are; NetworkRouteComparator, by which the bytes in flight are kept,     *)
(* looks at the path only.                                                 *)
(***************************************************************************)
AllPaths == Paths \cup {NoPath}
NetworkRoute == [path : AllPaths, last_sent_packet_id : PacketIds]
InitialRoute == [path |-> NoPath, last_sent_packet_id |-> -1]
ConnectedRoutes == [path : Paths, last_sent_packet_id : PacketIds]

NoFeedback == [kind |-> "none"]
Nullopt == [kind |-> "nullopt"]

PacketFeedback == [creation_time : Nat, sent : BOOLEAN, size : 1..MaxSize,
                   network_route : NetworkRoute, key : Keys]

(***************************************************************************)
(* InFlightBytesTracker.  The bytes of a set of packets of history h are   *)
(* the elements of PacketBytes, so that their number is a cardinality.     *)
(***************************************************************************)
PacketBytes(h, S) == {byte \in S \X (1..MaxSize) : byte[2] <= h[byte[1]].size}
DataSize(h, S) == Cardinality(PacketBytes(h, S))

SentOn(S, p) == {s \in S : history[s].sent /\ history[s].network_route.path = p}

\* Mutant of RemoveInFlightPacketBytes: packets that were never sent count as well.
RemoveInFlightPacketBytesUnsent(S) ==
  [p \in AllPaths |->
     in_flight[p] - DataSize(history, {s \in S : history[s].network_route.path = p})]

\* RemoveInFlightPacketBytes for each packet of S: unsent packets are skipped,
\* and so is a path that has no entry.
RemoveInFlightPacketBytes(S) ==
  [p \in AllPaths |-> IF in_flight[p] = 0 THEN 0
                      ELSE in_flight[p] - DataSize(history, SentOn(S, p))]

AddInFlightPacketBytes(s) ==
  [in_flight EXCEPT ![history[s].network_route.path] = @ + history[s].size]

GetOutstandingData(f) == f[network_route.path]

\* Mutant of EraseKeys: nothing is erased.
EraseNoKeys(m, K) == m

EraseKeys(m, K) == [k \in DOMAIN m \ K |-> m[k]]
EraseSeqs(h, S) == [s \in DOMAIN h \ S |-> h[s]]

(***************************************************************************)
(* AddPacket: drop the entries at the front of the history that are older  *)
(* than the window, then insert the packet.  Both insertions are emplace,  *)
(* which leaves an existing mapping alone.                                 *)
(***************************************************************************)
Expired ==
  {s \in DOMAIN history :
     \A t \in DOMAIN history :
        t <= s => clock - history[t].creation_time > HistoryWindow}

Emplace(m, k, v) ==
  IF k \in DOMAIN m THEN m
  ELSE [x \in DOMAIN m \cup {k} |-> IF x = k THEN v ELSE m[x]]

AddPacket(key, size) ==
  /\ feedback = NoFeedback
  /\ LET expired == Expired
         packet  == [creation_time |-> clock, sent |-> FALSE, size |-> size,
                     network_route |-> network_route, key |-> key]
     IN /\ in_flight' =
             RemoveInFlightPacketBytes({s \in expired : s > last_ack})
        /\ rtp_to_transport' =
             Emplace(EraseKeys(rtp_to_transport, {history[s].key : s \in expired}),
                     key, transport_seq)
        /\ history' = Emplace(EraseSeqs(history, expired), transport_seq, packet)
  /\ transport_seq' = transport_seq + 1
  /\ keys_sent' = Append(keys_sent, key)
  /\ returned' = Nullopt
  /\ UNCHANGED <<clock, last_ack, network_route, feedback,
                 reported>>

(***************************************************************************)
(* ProcessSentPacket.  A notification for a packet that is tracked by      *)
(* feedback, possibly a duplicate, possibly for a packet that has left the *)
(* history, possibly after feedback for it or for a later packet.          *)
(***************************************************************************)
ProcessSentPacket(seq) ==
  /\ feedback = NoFeedback
  /\ seq \in 1..transport_seq - 1
  /\ IF seq \notin DOMAIN history
     THEN /\ returned' = Nullopt
          /\ UNCHANGED <<history, in_flight>>
     ELSE LET packet_retransmit == history[seq].sent
              in_flight_now == IF ~packet_retransmit /\ seq > last_ack
                               THEN AddInFlightPacketBytes(seq)
                               ELSE in_flight
          IN /\ history' = [history EXCEPT ![seq].sent = TRUE]
             /\ in_flight' = in_flight_now
             /\ returned' = IF packet_retransmit THEN Nullopt
                            ELSE [kind |-> "sent", seq |-> seq,
                                  data_in_flight |-> GetOutstandingData(in_flight_now)]
  /\ UNCHANGED <<clock, transport_seq, rtp_to_transport, last_ack, network_route,
                 feedback, keys_sent, reported>>

(***************************************************************************)
(* Feedback.  ProcessCongestionControlFeedback takes a sequence of records *)
(* [key, received, ecn], ProcessTransportFeedback one of [seq, received].  *)
(***************************************************************************)
StartFeedback(kind, packets) ==
  /\ feedback = NoFeedback
  /\ IF packets = <<>>
     THEN feedback' = NoFeedback
     ELSE feedback' = [kind |-> kind, todo |-> packets, results |-> <<>>,
                       supports_ecn |-> kind = "ccfb"]
  /\ returned' = Nullopt
  /\ UNCHANGED <<clock, transport_seq, history, rtp_to_transport, last_ack,
                 in_flight, network_route, keys_sent, reported>>

ProcessCongestionControlFeedback(packets) == StartFeedback("ccfb", packets)
ProcessTransportFeedback(packets) == StartFeedback("transport_cc", packets)

\* The two overloads of RetrievePacketFeedback.  Found tells whether they
\* return a packet.
CanLookUp(info) == feedback.kind = "ccfb" => info.key \in DOMAIN rtp_to_transport
LookUp(info) == IF feedback.kind = "ccfb" THEN rtp_to_transport[info.key]
                ELSE info.seq
Found(seq) == seq \in DOMAIN history /\ history[seq].sent

\* Mutant of NewlyAcked: the loop stops before the acknowledged packet.
NewlyAckedExclusive(seq) == {s \in DOMAIN history : last_ack < s /\ s < seq}

NewlyAcked(seq) == {s \in DOMAIN history : last_ack < s /\ s <= seq}

\* Mutant of RetrievePacketFeedback: the key of a lost packet is erased too.
RetrievePacketFeedbackLostErased(seq, received) ==
  /\ in_flight' = RemoveInFlightPacketBytes(NewlyAcked(seq))
  /\ last_ack' = IF seq > last_ack THEN seq ELSE last_ack
  /\ IF Found(seq)
     THEN /\ rtp_to_transport' = EraseKeys(rtp_to_transport, {history[seq].key})
          /\ history' = EraseSeqs(history, IF received THEN {seq} ELSE {})
     ELSE UNCHANGED <<rtp_to_transport, history>>

\* Mutant of RetrievePacketFeedback: a received packet stays in the history.
RetrievePacketFeedbackKept(seq, received) ==
  /\ in_flight' = RemoveInFlightPacketBytes(NewlyAcked(seq))
  /\ last_ack' = IF seq > last_ack THEN seq ELSE last_ack
  /\ UNCHANGED <<rtp_to_transport, history>>

RetrievePacketFeedback(seq, received) ==
  /\ in_flight' = RemoveInFlightPacketBytes(NewlyAcked(seq))
  /\ last_ack' = IF seq > last_ack THEN seq ELSE last_ack
  /\ IF Found(seq) /\ received
     THEN /\ rtp_to_transport' = EraseKeys(rtp_to_transport, {history[seq].key})
          /\ history' = EraseSeqs(history, {seq})
     ELSE UNCHANGED <<rtp_to_transport, history>>

\* Mutant of OnCurrentRoute: packets of an earlier route are reported as well.
OnAnyRoute(seq) == TRUE

\* A packet is reported only if it was sent on the route in use, compared with
\* operator==.
OnCurrentRoute(seq) == history[seq].network_route = network_route

\* One iteration of the loop over the packets of the message.  A result keeps
\* the route of its PacketFeedback, which has left the history by the time the
\* result is returned.
ProcessPacketInfo ==
  /\ feedback /= NoFeedback
  /\ feedback.todo /= <<>>
  /\ LET info   == Head(feedback.todo)
         seq    == LookUp(info)
         usable == /\ CanLookUp(info)
                   /\ Found(seq)
                   /\ OnCurrentRoute(seq)
         ecn    == IF feedback.kind = "ccfb" THEN info.ecn ELSE "NotEct"
     IN /\ IF CanLookUp(info)
           THEN RetrievePacketFeedback(seq, info.received)
           ELSE UNCHANGED <<in_flight, last_ack, rtp_to_transport, history>>
        /\ feedback' =
             [feedback EXCEPT
                !.todo = Tail(@),
                !.results = IF usable
                            THEN Append(@, [seq |-> seq, received |-> info.received,
                                            ecn |-> ecn,
                                            network_route |-> history[seq].network_route])
                            ELSE @,
                !.supports_ecn = @ /\ (usable /\ info.received => ecn /= "NotEct")]
        /\ reported' = IF usable /\ info.received THEN reported \cup {seq}
                       ELSE reported
  /\ UNCHANGED <<clock, transport_seq, network_route, returned,
                 keys_sent>>

\* The ways of sorting an RFC 8888 report by send order.  The sort is not
\* stable, so results for the same packet may end up in either order.
Sortings(results) ==
  LET I     == DOMAIN results
      Perms == {p \in [I -> I] : \A i, j \in I : i /= j => p[i] /= p[j]}
  IN {sorted \in {[i \in I |-> results[p[i]]] : p \in Perms} :
        \A i, j \in I : i < j => sorted[i].seq <= sorted[j].seq}

ToTransportFeedback(results) ==
  IF results = <<>> THEN Nullopt
  ELSE [kind |-> "feedback", packet_feedbacks |-> results,
        data_in_flight |-> GetOutstandingData(in_flight),
        supports_ecn |-> feedback.supports_ecn]

FinishFeedback ==
  /\ feedback /= NoFeedback
  /\ feedback.todo = <<>>
  /\ IF feedback.kind = "ccfb"
     THEN \E sorted \in Sortings(feedback.results) :
            returned' = ToTransportFeedback(sorted)
     ELSE returned' = ToTransportFeedback(feedback.results)
  /\ feedback' = NoFeedback
  /\ UNCHANGED <<clock, transport_seq, history, rtp_to_transport, last_ack,
                 in_flight, network_route, keys_sent, reported>>

SetNetworkRoute(route) ==
  /\ feedback = NoFeedback
  /\ network_route' = route
  /\ returned' = Nullopt
  /\ UNCHANGED <<clock, transport_seq, history, rtp_to_transport, last_ack,
                 in_flight, feedback, keys_sent, reported>>

Tick ==
  /\ feedback = NoFeedback
  /\ clock' = clock + 1
  /\ UNCHANGED <<transport_seq, history, rtp_to_transport, last_ack, in_flight,
                 network_route, feedback, returned, keys_sent,
                 reported>>
(***************************************************************************)
(* The adapter on its own.  RFC 8888 messages are arbitrary lists of       *)
(* entries; a transport-cc message covers a run of consecutive transport   *)
(* sequence numbers.                                                       *)
(***************************************************************************)
CcfbInfos ==
  [key : Keys, received : {TRUE}, ecn : Ecns]
    \cup [key : Keys, received : {FALSE}, ecn : {"NotEct"}]

TransportCcPackets(base, flags) ==
  [i \in DOMAIN flags |-> [seq |-> base + i - 1, received |-> flags[i]]]

Init ==
  /\ clock = 0
  /\ transport_seq = 1
  /\ history = <<>>
  /\ rtp_to_transport = <<>>
  /\ last_ack = -1
  /\ in_flight = [p \in AllPaths |-> 0]
  /\ network_route = InitialRoute
  /\ feedback = NoFeedback
  /\ returned = Nullopt
  /\ keys_sent = <<>>
  /\ reported = {}

Next ==
  \/ /\ transport_seq <= MaxPackets
     /\ \E key \in Keys, size \in 1..MaxSize : AddPacket(key, size)
  \/ \E seq \in 1..MaxPackets : ProcessSentPacket(seq)
  \/ /\ "ccfb" \in Formats
     /\ \E n \in 0..MaxReport : \E packets \in [1..n -> CcfbInfos] :
          ProcessCongestionControlFeedback(packets)
  \/ /\ "transport_cc" \in Formats
     /\ \E n \in 0..MaxReport : \E base \in 1..MaxPackets, flags \in [1..n -> BOOLEAN] :
          /\ base + n <= transport_seq
          /\ ProcessTransportFeedback(TransportCcPackets(base, flags))
  \/ ProcessPacketInfo
  \/ FinishFeedback
  \/ \E route \in ConnectedRoutes : SetNetworkRoute(route)
  \/ clock < MaxClock /\ Tick

Spec == Init /\ [][Next]_adapterVars

(***************************************************************************)
(* Properties                                                              *)
(***************************************************************************)
Results == [seq : Int, received : BOOLEAN, ecn : EcnMarking, network_route : NetworkRoute]

TypeOK ==
  /\ clock \in Nat
  /\ transport_seq \in Nat \ {0}
  /\ DOMAIN history \subseteq 1..transport_seq - 1
  /\ \A s \in DOMAIN history : history[s] \in PacketFeedback
  /\ DOMAIN rtp_to_transport \subseteq Keys
  /\ \A k \in DOMAIN rtp_to_transport : rtp_to_transport[k] \in 1..transport_seq - 1
  /\ last_ack \in {-1} \cup 1..transport_seq - 1
  /\ in_flight \in [AllPaths -> Nat]
  /\ network_route \in NetworkRoute
  /\ reported \subseteq 1..transport_seq - 1

\* Packets sent on path p that no feedback has acknowledged, directly or
\* through a later packet.
InFlightPackets(p) == {s \in SentOn(DOMAIN history, p) : s > last_ack}

\* The bytes counted as in flight on a path are exactly those of the packets
\* sent on it that are in the history and newer than the last acknowledged
\* one, whatever the order of sending, notification, feedback, expiry and
\* route changes (InFlightBytesTracker; the RTC_DCHECK_GE in
\* RemoveInFlightPacketBytes never fires).
InFlightExact == \A p \in AllPaths : in_flight[p] = DataSize(history, InFlightPackets(p))

\* An RTP key that is mapped leads to a packet in the history with that key,
\* so RFC 8888 feedback is never attributed to a packet of another stream.
RtpMapSound ==
  \A k \in DOMAIN rtp_to_transport :
     /\ rtp_to_transport[k] \in DOMAIN history
     /\ history[rtp_to_transport[k]].key = k

\* A packet in the history whose SSRC and RTP sequence number were used by no
\* other packet can be found from RFC 8888 feedback.
RtpMapComplete ==
  \A s \in DOMAIN history :
     (\A t \in DOMAIN keys_sent : keys_sent[t] = history[s].key => t = s)
       => /\ history[s].key \in DOMAIN rtp_to_transport
          /\ rtp_to_transport[history[s].key] = s

\* A packet that was reported to the congestion controller as received has
\* left the history: later feedback cannot report it again, as received or
\* as lost (the receiver does report such packets as lost after reordering).
ReportedPacketsForgotten == reported \cap DOMAIN history = {}

\* What is handed to the congestion controller is in send order, speaks only
\* of packets that were sent on the current route, received ones (which have
\* left the history) as well as lost ones, claims ECN support
\* only if no packet arrived with its marking cleared, and gives the bytes in
\* flight after all acknowledgements of the message.
FeedbackConsistent ==
  returned.kind = "feedback" =>
    /\ returned.packet_feedbacks /= <<>>
    /\ \A i, j \in DOMAIN returned.packet_feedbacks :
         i < j => returned.packet_feedbacks[i].seq <= returned.packet_feedbacks[j].seq
    /\ \A i \in DOMAIN returned.packet_feedbacks :
         /\ returned.packet_feedbacks[i].seq <= last_ack
         /\ returned.packet_feedbacks[i].network_route = network_route
    /\ returned.supports_ecn =>
         \A i \in DOMAIN returned.packet_feedbacks :
            returned.packet_feedbacks[i].received
              => returned.packet_feedbacks[i].ecn /= "NotEct"
    /\ returned.data_in_flight = DataSize(history, InFlightPackets(network_route.path))
====
