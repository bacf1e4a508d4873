---- MODULE L4sFeedbackLoop ----
(***************************************************************************)
(* The RFC 8888 feedback loop of one RTP stream, end to end: PacketRouter  *)
(* sends packets, as ECT(1) while the path is being probed for ECN; the    *)
(* network loses, duplicates, reorders, marks and bleaches them; the       *)
(* receiver's CongestionControlFeedbackTracker reports what arrived; the   *)
(* reports travel back over RTCP, lost, duplicated and reordered as well;  *)
(* and RtpTransportControllerSend hands them to TransportFeedbackAdapter   *)
(* and ends the probing.                                                   *)
(*                                                                         *)
(* A key is the RTP sequence number, for there is one SSRC.  What is in    *)
(* the network stays there: a packet that never arrives again is lost, and *)
(* one that arrives twice is duplicated.                                   *)
(***************************************************************************)
EXTENDS TransportFeedbackAdapter

CONSTANTS
  MaxPacketsPerSsrc,   \* kMaxPacketsPerSsrc
  NoSeq,               \* no sequence number (std::nullopt)
  Resends,             \* whether a packet may be sent again under its sequence number
  MaxEvents,           \* bound: packets that arrive, copies included, and calls that
                       \* announce a route or enable RFC 8888 feedback, together
  MaxRtcp              \* bound: feedback messages

ASSUME LoopAssumption ==
  /\ Keys \subseteq Nat \ {0}
  /\ MaxPacketsPerSsrc \in Nat \ {0}
  /\ NoSeq \notin Int

VARIABLES
  maybe_support_ecn,   \* transport_maybe_support_ecn_
  sending_as_ect1,     \* sending_packets_as_ect1_, and send_rtp_packets_as_ect1_
  connected_path,      \* the path in network_routes_, or NoPath before there is one
  network,             \* RTP packets sent: [seq, key, ecn]
  tracker,             \* the receiver's tracker of the stream
  rtcp,                \* feedback messages sent
  events,              \* how many of MaxEvents there were
  arrived,             \* history variable: [seq, ecn] of what the receiver got
  probe                \* history variable: the probing since the last switch

loopVars == <<maybe_support_ecn, sending_as_ect1, connected_path, network, tracker,
              rtcp, events, arrived, probe>>

allVars == <<adapterVars, loopVars>>

Tracker == INSTANCE CongestionControlFeedbackTracker WITH Nullopt <- NoSeq

KeysUsed == {keys_sent[i] : i \in DOMAIN keys_sent}

\* A new round of probing on a route: the first packet it may concern, whether
\* older packets of the route still await feedback, and packets reported.
NewProbe(route) ==
  [from |-> transport_seq,
   clean |-> \A s \in DOMAIN history : history[s].network_route /= route,
   reported |-> {}]

(***************************************************************************)
(* Sender                                                                  *)
(***************************************************************************)
\* EnableCongestionControlFeedbackAccordingToRfc8888, at each completed
\* offer/answer exchange.
EnableRfc8888 ==
  /\ feedback = NoFeedback
  /\ maybe_support_ecn' = TRUE
  /\ sending_as_ect1' = TRUE
  /\ events' = events + 1
  /\ probe' = NewProbe(network_route)
  /\ UNCHANGED <<connected_path, network, tracker, rtcp, arrived, adapterVars>>

\* PacketRouter::SendPacket with NotifyBweOfPacedSentPacket.  Before RFC 8888
\* feedback is enabled packets get no transport sequence number.
SendPacket(key) ==
  /\ maybe_support_ecn
  /\ AddPacket(key, 1)
  /\ network' = network \cup {[seq |-> transport_seq, key |-> key,
                               ecn |-> IF sending_as_ect1 THEN "Ect1" ELSE "NotEct"]}
  /\ UNCHANGED <<maybe_support_ecn, sending_as_ect1, connected_path, tracker, rtcp, events,
                 arrived, probe>>

\* The sequence number of a packet: the next one, or that of an earlier packet
\* that is sent again.
NextKeys ==
  {k \in Keys : k = Cardinality(KeysUsed) + 1}
    \cup (IF Resends THEN KeysUsed ELSE {})

OnSentPacket(seq) ==
  /\ ProcessSentPacket(seq)
  /\ UNCHANGED loopVars

\* Mutant of RouteChange: probing is not restarted.
RouteChangeNoProbe(route) ==
  /\ SetNetworkRoute(route)
  /\ probe' = NewProbe(route)
  /\ UNCHANGED sending_as_ect1

\* What OnNetworkRouteChanged does for a relevant change.
RouteChange(route) ==
  /\ SetNetworkRoute(route)
  /\ probe' = NewProbe(route)
  /\ sending_as_ect1' = maybe_support_ecn

\* OnNetworkRouteChanged for a connected transport.  The first route is only
\* remembered; a later one is relevant if its path differs.  The packet id in it
\* is that of the last packet the transport sent, which is -1 for RTCP.
OnNetworkRouteChanged(route) ==
  /\ feedback = NoFeedback
  /\ connected_path' = route.path
  /\ IF connected_path \in {NoPath, route.path}
     THEN UNCHANGED <<adapterVars, probe, sending_as_ect1>>
     ELSE RouteChange(route)
  /\ events' = events + 1
  /\ UNCHANGED <<maybe_support_ecn, network, tracker, rtcp, arrived>>

OnCongestionControlFeedback(packets) ==
  /\ ProcessCongestionControlFeedback(packets)
  /\ UNCHANGED loopVars

HandlePacketInfo == ProcessPacketInfo /\ UNCHANGED loopVars

\* HandleTransportPacketsFeedback: the first result ends the probing.
HandleTransportPacketsFeedback ==
  /\ FinishFeedback
  /\ IF returned' = Nullopt
     THEN UNCHANGED <<sending_as_ect1, probe>>
     ELSE /\ sending_as_ect1' = FALSE
          /\ probe' = [probe EXCEPT !.reported = @ \cup
                        {returned'.packet_feedbacks[i].seq :
                           i \in DOMAIN returned'.packet_feedbacks}]
  /\ UNCHANGED <<maybe_support_ecn, connected_path, network, tracker, rtcp, events,
                 arrived>>

(***************************************************************************)
(* Network and receiver                                                    *)
(***************************************************************************)
\* A packet arrives, perhaps again; a router on the way may have cleared the
\* ECN bits, or marked an ECN capable packet.
Arrive(p, ecn) ==
  /\ feedback = NoFeedback
  /\ ecn \in {p.ecn, "NotEct"} \cup (IF p.ecn = "Ect1" THEN {"Ce"} ELSE {})
  /\ tracker' = Tracker!ReceivedPacket(tracker, [seq |-> p.key, arrival_time |-> 0,
                                                 ecn |-> ecn])
  /\ arrived' = arrived \cup {[seq |-> p.seq, ecn |-> ecn]}
  /\ events' = events + 1
  /\ UNCHANGED <<maybe_support_ecn, sending_as_ect1, connected_path, network, rtcp,
                 probe, adapterVars>>

\* The receiver sends a feedback message.
SendFeedback ==
  /\ feedback = NoFeedback
  /\ tracker.packets /= << >>
  /\ \E sorted \in Tracker!Sorted(tracker.packets) :
       LET result == Tracker!AddPacketsToFeedback(tracker, sorted)
       IN /\ tracker' = result.tracker
          /\ rtcp' = rtcp \cup
               {[i \in DOMAIN result.report |->
                   [key |-> result.report[i].seq, received |-> result.report[i].received,
                    ecn |-> result.report[i].ecn]]}
  /\ UNCHANGED <<maybe_support_ecn, sending_as_ect1, connected_path, network, events,
                 arrived, probe, adapterVars>>

\* Packets that wait for feedback grow old, and AddPacket drops them.
TimePasses == Tick /\ UNCHANGED loopVars

LoopInit ==
  /\ Init
  /\ maybe_support_ecn = FALSE
  /\ sending_as_ect1 = FALSE
  /\ connected_path = NoPath
  /\ network = {}
  /\ tracker = Tracker!NewTracker
  /\ rtcp = {}
  /\ events = 0
  /\ arrived = {}
  /\ probe = NewProbe(InitialRoute)

LoopNext ==
  \/ events < MaxEvents /\ EnableRfc8888
  \/ transport_seq <= MaxPackets /\ \E key \in NextKeys : SendPacket(key)
  \/ \E seq \in 1..transport_seq - 1 : OnSentPacket(seq)
  \/ /\ events < MaxEvents
     /\ \E route \in ConnectedRoutes :
          route.last_sent_packet_id < transport_seq /\ OnNetworkRouteChanged(route)
  \/ \E packets \in rtcp : OnCongestionControlFeedback(packets)
  \/ HandlePacketInfo
  \/ HandleTransportPacketsFeedback
  \/ events < MaxEvents /\ \E p \in network, ecn \in Ecns : Arrive(p, ecn)
  \/ Cardinality(rtcp) < MaxRtcp /\ SendFeedback
  \/ clock < MaxClock /\ TimePasses

LoopSpec == LoopInit /\ [][LoopNext]_allVars

(***************************************************************************)
(* Properties                                                              *)
(***************************************************************************)
Returned ==
  IF returned.kind = "feedback"
  THEN {returned.packet_feedbacks[i] : i \in DOMAIN returned.packet_feedbacks}
  ELSE {}

UniqueKey(seq) == \A t \in DOMAIN keys_sent : keys_sent[t] = keys_sent[seq] => t = seq

\* What the congestion controller is told of a packet that arrived is true: the
\* packet did arrive, and with the marking it is reported with, however packets
\* and feedback messages were reordered, lost and duplicated on the way.  It
\* concerns packets whose RTP sequence number was used once.
ReceivedIsTrue ==
  \A result \in Returned :
    result.received /\ UniqueKey(result.seq)
      => [seq |-> result.seq, ecn |-> result.ecn] \in arrived

\* The probing of a route for ECN ends only with feedback for a packet that was
\* sent as ECT(1) since the probing started, if no older packet of that route
\* awaited feedback when it started.
ProbeAnswered ==
  maybe_support_ecn /\ ~sending_as_ect1 /\ probe.clean =>
    \E p \in network : p.seq >= probe.from /\ p.ecn = "Ect1" /\ p.seq \in probe.reported
====
