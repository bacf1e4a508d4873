---- MODULE L4sFeedbackLoopProofs ----
(***************************************************************************)
(* Proofs about L4sFeedbackLoop: what the congestion controller is told is *)
(* true, and what ends the probing for ECN is an answer to it, for any     *)
(* number of packets, paths, messages, losses and copies.                  *)
(***************************************************************************)
EXTENDS L4sFeedbackLoop, TransportFeedbackAdapterProofs

TrackerProofs == INSTANCE CongestionControlFeedbackTrackerProofs WITH Nullopt <- NoSeq

\* The tracker of the loop is the one the proofs about trackers are about.
LEMMA SameTracker ==
  /\ Tracker!PacketInfo = TrackerProofs!PacketInfo
  /\ Tracker!NewTracker = TrackerProofs!NewTracker
  /\ \A tr, p : Tracker!ReceivedPacket(tr, p) = TrackerProofs!ReceivedPacket(tr, p)
  /\ \A packets : Tracker!Sorted(packets) = TrackerProofs!Sorted(packets)
  /\ \A tr, s : Tracker!AddPacketsToFeedback(tr, s) = TrackerProofs!AddPacketsToFeedback(tr, s)
<1>1. Tracker!PacketInfo = TrackerProofs!PacketInfo /\ Tracker!NewTracker = TrackerProofs!NewTracker
  BY DEF Tracker!PacketInfo, TrackerProofs!PacketInfo, Tracker!NewTracker, TrackerProofs!NewTracker
<1>2. ASSUME NEW tr, NEW p PROVE Tracker!ReceivedPacket(tr, p) = TrackerProofs!ReceivedPacket(tr, p)
  BY DEF Tracker!ReceivedPacket, TrackerProofs!ReceivedPacket
<1>3. ASSUME NEW packets PROVE Tracker!Sorted(packets) = TrackerProofs!Sorted(packets)
  BY DEF Tracker!Sorted, TrackerProofs!Sorted
<1>4. ASSUME NEW tr, NEW s
      PROVE  Tracker!AddPacketsToFeedback(tr, s) = TrackerProofs!AddPacketsToFeedback(tr, s)
  BY DEF Tracker!AddPacketsToFeedback, TrackerProofs!AddPacketsToFeedback,
         Tracker!ReportEnd, TrackerProofs!ReportEnd,
         Tracker!ReportPacket, TrackerProofs!ReportPacket,
         Tracker!AfterCopies, TrackerProofs!AfterCopies,
         Tracker!CopyEcn, TrackerProofs!CopyEcn
<1>5. QED
  BY <1>1, <1>2, <1>3, <1>4

----
(***************************************************************************)
(* The inductive invariant                                                 *)
(***************************************************************************)
\* A packet with this RTP sequence number arrived with this marking, when ks are the
\* sequence numbers of the packets sent and arr is what arrived.
KeyArrived(ks, arr, key, ecn) ==
  \E s \in DOMAIN ks : ks[s] = key /\ [seq |-> s, ecn |-> ecn] \in arr

\* The entries of a message, and the results taken from one, tell the truth.
EntriesTrue(ks, arr, entries) ==
  \A i \in DOMAIN entries :
    entries[i].received => KeyArrived(ks, arr, entries[i].key, entries[i].ecn)

ResultsTrue(ks, arr, rs) ==
  \A i \in DOMAIN rs :
    rs[i].received => rs[i].seq \in DOMAIN ks /\ KeyArrived(ks, arr, ks[rs[i].seq], rs[i].ecn)

\* What is on its way to the receiver and back, and in the sender, tells the truth.
NetworkOK ==
  /\ \A p \in network : /\ p.seq \in DOMAIN keys_sent /\ p.key = keys_sent[p.seq]
                        /\ p.ecn \in EcnMarking

TrackerTrue ==
  /\ TrackerProofs!TrackerOK(tracker)
  /\ \A i \in DOMAIN tracker.packets :
       KeyArrived(keys_sent, arrived, tracker.packets[i].seq, tracker.packets[i].ecn)

RtcpTrue == \A m \in rtcp : m \in Seq(CcfbInfo) /\ EntriesTrue(keys_sent, arrived, m)

FeedbackTrue ==
  feedback /= NoFeedback =>
    /\ feedback.kind = "ccfb"
    /\ EntriesTrue(keys_sent, arrived, feedback.todo)
    /\ ResultsTrue(keys_sent, arrived, feedback.results)

ReturnedTrue ==
  returned.kind = "feedback" => ResultsTrue(keys_sent, arrived, returned.packet_feedbacks)

TruthInv == NetworkOK /\ TrackerTrue /\ RtcpTrue /\ FeedbackTrue /\ ReturnedTrue

\* Packet s was sent as ECT(1) in a round of probing that started at packet from.
ProbeSent(net, from, s) == s >= from /\ \E p \in net : p.seq = s /\ p.ecn = "Ect1"

\* While a route that was clean is probed, every packet of it was sent as ECT(1) in this
\* round: the ones in the history and the ones already looked up.
Probing ==
  /\ \A s \in DOMAIN history :
       history[s].network_route = network_route => ProbeSent(network, probe.from, s)
  /\ feedback /= NoFeedback =>
       \A i \in DOMAIN feedback.results :
          ProbeSent(network, probe.from, feedback.results[i].seq)

ProbeInv ==
  /\ maybe_support_ecn \in BOOLEAN /\ sending_as_ect1 \in BOOLEAN
  /\ probe.from \in Nat /\ probe.from <= transport_seq
  /\ probe = [from |-> probe.from, clean |-> probe.clean, reported |-> probe.reported]
  /\ maybe_support_ecn /\ sending_as_ect1 /\ probe.clean => Probing
  /\ ProbeAnswered

\* The inductive invariant of the loop.
LoopInv == ReturnInv /\ TruthInv /\ ProbeInv

----
(***************************************************************************)
(* The adapter in the loop                                                 *)
(***************************************************************************)
\* The sequence numbers a packet may have are keys of the adapter.
LEMMA NextKeysOK ==
  ASSUME IInv PROVE NextKeys \subseteq Keys
<1>1. \A i \in DOMAIN keys_sent : keys_sent[i] \in Keys
  BY DEF IInv, KeysOK
<1>2. KeysUsed \subseteq Keys
  BY <1>1 DEF KeysUsed
<1>3. QED
  BY <1>2 DEF NextKeys

\* A step of the loop that leaves the adapter alone.
LEMMA AdapterUnchanged ==
  ASSUME ReturnInv, UNCHANGED adapterVars PROVE ReturnInv'
  BY NextReturns

\* Every step of the loop preserves what is proved of the adapter.
LEMMA LoopReturns ==
  ASSUME ReturnInv, RtcpTrue, [LoopNext]_allVars
  PROVE  ReturnInv'
<1> USE DEF ReturnInv
<1>1. ASSUME NEW key \in NextKeys, SendPacket(key) PROVE ReturnInv'
  <2>1. AddPacket(key, 1)
    BY <1>1 DEF SendPacket
  <2>2. key \in Keys /\ 1 \in 1..MaxSize
    BY NextKeysOK, MaxSizeAssumption
  <2>3. IInv'
    BY <2>1, <2>2, AddPacketIInv
  <2>4. QED
    BY <2>1, <2>3, NothingReturned DEF AddPacket, Nullopt
<1>2. ASSUME NEW seq, OnSentPacket(seq) PROVE ReturnInv'
  <2>1. ProcessSentPacket(seq)
    BY <1>2 DEF OnSentPacket
  <2>2. IInv'
    BY <2>1, ProcessSentPacketIInv
  <2>3. feedback' = NoFeedback
    BY <2>1 DEF ProcessSentPacket
  <2>4. returned'.kind \in {"sent", "nullopt"}
    BY <2>1 DEF ProcessSentPacket, Nullopt
  <2>5. QED
    BY <2>2, <2>3, <2>4, NothingReturned
<1>3. ASSUME NEW route \in ConnectedRoutes, OnNetworkRouteChanged(route) PROVE ReturnInv'
  <2>1. CASE UNCHANGED adapterVars
    BY <2>1, AdapterUnchanged
  <2>2. CASE SetNetworkRoute(route)
    <3>1. IInv'
      BY <2>2, OtherStepsIInv
    <3>2. QED
      BY <2>2, <3>1, NothingReturned DEF SetNetworkRoute, Nullopt
  <2>3. QED
    BY <1>3, <2>1, <2>2 DEF OnNetworkRouteChanged, RouteChange
<1>4. ASSUME NEW packets \in rtcp, OnCongestionControlFeedback(packets) PROVE ReturnInv'
  <2>1. StartFeedback("ccfb", packets) /\ packets \in Seq(CcfbInfo)
    BY <1>4 DEF OnCongestionControlFeedback, ProcessCongestionControlFeedback, RtcpTrue
  <2>2. IInv'
    BY <2>1, StartFeedbackIInv
  <2>3. QED
    BY <2>1, <2>2, StartFeedbackReturns
<1>5. CASE HandlePacketInfo
  BY <1>5, ProcessPacketInfoIInv, ProcessPacketInfoReturns DEF HandlePacketInfo
<1>6. CASE HandleTransportPacketsFeedback
  BY <1>6, OtherStepsIInv, FinishFeedbackReturns DEF HandleTransportPacketsFeedback
<1>7. CASE EnableRfc8888
  BY <1>7, AdapterUnchanged DEF EnableRfc8888
<1>8. ASSUME NEW p \in network, NEW ecn \in Ecns, Arrive(p, ecn) PROVE ReturnInv'
  BY <1>8, AdapterUnchanged DEF Arrive
<1>9. CASE SendFeedback
  BY <1>9, AdapterUnchanged DEF SendFeedback
<1>10. CASE UNCHANGED allVars
  BY <1>10, AdapterUnchanged DEF allVars
<1>11. CASE clock < MaxClock /\ TimePasses
  <2>1. Next
    BY <1>11 DEF Next, TimePasses
  <2>2. QED
    BY <2>1, NextReturns
<1>12. QED
  BY <1>1, <1>2, <1>3, <1>4, <1>5, <1>6, <1>7, <1>8, <1>9, <1>10, <1>11 DEF LoopNext

----
(***************************************************************************)
(* The truth                                                               *)
(***************************************************************************)
\* What was true stays true as packets are sent and arrive.
LEMMA TruthGrows ==
  ASSUME NEW ks, NEW ks2, NEW arr, NEW arr2, arr \subseteq arr2,
         DOMAIN ks \subseteq DOMAIN ks2, \A s \in DOMAIN ks : ks2[s] = ks[s]
  PROVE  /\ \A key, ecn : KeyArrived(ks, arr, key, ecn) => KeyArrived(ks2, arr2, key, ecn)
         /\ \A es : EntriesTrue(ks, arr, es) => EntriesTrue(ks2, arr2, es)
         /\ \A rs : ResultsTrue(ks, arr, rs) => ResultsTrue(ks2, arr2, rs)
<1>1. \A key, ecn : KeyArrived(ks, arr, key, ecn) => KeyArrived(ks2, arr2, key, ecn)
  BY DEF KeyArrived
<1>2. \A es : EntriesTrue(ks, arr, es) => EntriesTrue(ks2, arr2, es)
  BY <1>1 DEF EntriesTrue
<1>3. \A rs : ResultsTrue(ks, arr, rs) => ResultsTrue(ks2, arr2, rs)
  BY <1>1 DEF ResultsTrue
<1>4. QED
  BY <1>1, <1>2, <1>3

\* keys_sent only grows, and so does arrived.
Grows ==
  /\ arrived \subseteq arrived'
  /\ DOMAIN keys_sent \subseteq DOMAIN keys_sent'
  /\ \A s \in DOMAIN keys_sent : keys_sent'[s] = keys_sent[s]

\* What a step leaves alone stays true.
LEMMA TruthStays ==
  ASSUME TruthInv, Grows
  PROVE  /\ UNCHANGED network => NetworkOK'
         /\ UNCHANGED tracker => TrackerTrue'
         /\ UNCHANGED rtcp => RtcpTrue'
         /\ UNCHANGED feedback => FeedbackTrue'
         /\ (UNCHANGED returned \/ returned'.kind /= "feedback") => ReturnedTrue'
<1>1. /\ \A key, ecn : KeyArrived(keys_sent, arrived, key, ecn)
                          => KeyArrived(keys_sent', arrived', key, ecn)
      /\ \A es : EntriesTrue(keys_sent, arrived, es) => EntriesTrue(keys_sent', arrived', es)
      /\ \A rs : ResultsTrue(keys_sent, arrived, rs) => ResultsTrue(keys_sent', arrived', rs)
  BY TruthGrows DEF Grows
<1>2. UNCHANGED network => NetworkOK'
  BY DEF TruthInv, NetworkOK, Grows
<1>3. UNCHANGED tracker => TrackerTrue'
  BY <1>1 DEF TruthInv, TrackerTrue, TrackerProofs!TrackerOK
<1>4. UNCHANGED rtcp => RtcpTrue'
  BY <1>1 DEF TruthInv, RtcpTrue
<1>5. UNCHANGED feedback => FeedbackTrue'
  BY <1>1 DEF TruthInv, FeedbackTrue
<1>6. (UNCHANGED returned \/ returned'.kind /= "feedback") => ReturnedTrue'
  BY <1>1 DEF TruthInv, ReturnedTrue
<1>7. QED
  BY <1>2, <1>3, <1>4, <1>5, <1>6

\* A packet that is sent carries the sequence number that is written down for it.
LEMMA SendPacketTruth ==
  ASSUME IInv, TruthInv, NEW key, SendPacket(key)
  PROVE  TruthInv'
<1>1. /\ keys_sent' = Append(keys_sent, key)
      /\ UNCHANGED <<feedback, tracker, rtcp, arrived>>
      /\ returned'.kind /= "feedback"
  BY DEF SendPacket, AddPacket, Nullopt
<1>2. keys_sent \in Seq(Keys) /\ Len(keys_sent) = transport_seq - 1 /\ transport_seq \in Nat
  BY DEF IInv, KeysOK, TypeOK
<1>3. /\ DOMAIN keys_sent' = DOMAIN keys_sent \cup {transport_seq}
      /\ \A s \in DOMAIN keys_sent : keys_sent'[s] = keys_sent[s]
      /\ keys_sent'[transport_seq] = key
  BY <1>1, <1>2
<1>4. Grows
  BY <1>1, <1>3 DEF Grows
<1>5. NetworkOK'
  <2> SUFFICES ASSUME NEW p \in network'
               PROVE  /\ p.seq \in DOMAIN keys_sent' /\ p.key = keys_sent'[p.seq]
                      /\ p.ecn \in EcnMarking
    BY DEF NetworkOK
  <2>1. CASE p \in network
    BY <1>3, <2>1 DEF TruthInv, NetworkOK
  <2>2. CASE p = [seq |-> transport_seq, key |-> key,
                  ecn |-> IF sending_as_ect1 THEN "Ect1" ELSE "NotEct"]
    BY <1>3, <2>2 DEF EcnMarking
  <2>3. QED
    BY <2>1, <2>2 DEF SendPacket
<1>6. QED
  BY <1>1, <1>4, <1>5, TruthStays DEF TruthInv

\* Notifications and routes say nothing of what arrived.
LEMMA QuietTruth ==
  ASSUME TruthInv, UNCHANGED <<keys_sent, network, tracker, rtcp, arrived, feedback>>,
         UNCHANGED returned \/ returned'.kind /= "feedback"
  PROVE  TruthInv'
<1>1. Grows
  BY DEF Grows
<1>2. QED
  BY <1>1, TruthStays DEF TruthInv

\* A message that is read was true when it was sent.
LEMMA OnCongestionControlFeedbackTruth ==
  ASSUME TruthInv, NEW packets \in rtcp, OnCongestionControlFeedback(packets)
  PROVE  TruthInv'
<1>1. /\ UNCHANGED <<keys_sent, network, tracker, rtcp, arrived>>
      /\ returned'.kind /= "feedback"
      /\ StartFeedback("ccfb", packets)
  BY DEF OnCongestionControlFeedback, ProcessCongestionControlFeedback, StartFeedback, loopVars,
         Nullopt
<1>2. Grows
  BY <1>1 DEF Grows
<1>3. FeedbackTrue'
  <2>1. CASE feedback' = NoFeedback
    BY <2>1 DEF FeedbackTrue
  <2>2. CASE feedback' = [kind |-> "ccfb", todo |-> packets, results |-> <<>>,
                          supports_ecn |-> "ccfb" = "ccfb"]
    <3>1. feedback'.kind = "ccfb" /\ feedback'.todo = packets /\ feedback'.results = <<>>
      BY <2>2
    <3>2. EntriesTrue(keys_sent, arrived, packets)
      BY DEF TruthInv, RtcpTrue
    <3>3. DOMAIN <<>> = {}
      OBVIOUS
    <3>4. QED
      BY <1>1, <3>1, <3>2, <3>3 DEF FeedbackTrue, ResultsTrue
  <2>3. QED
    BY <1>1, <2>1, <2>2 DEF StartFeedback
<1>4. QED
  BY <1>1, <1>2, <1>3, TruthStays DEF TruthInv

\* The result of an entry that names a packet is about that packet.
LEMMA HandlePacketInfoTruth ==
  ASSUME ReturnInv, TruthInv, HandlePacketInfo
  PROVE  TruthInv'
<1> DEFINE info   == Head(feedback.todo)
           seq    == LookUp(info)
           usable == /\ CanLookUp(info)
                     /\ Found(seq)
                     /\ OnCurrentRoute(seq)
           ecn    == IF feedback.kind = "ccfb" THEN info.ecn ELSE "NotEct"
           result == [seq |-> seq, received |-> info.received, ecn |-> ecn,
                      network_route |-> history[seq].network_route]
           rs     == feedback.results
           todo   == feedback.todo
           results == IF usable THEN Append(rs, result) ELSE rs
           supports_ecn == feedback.supports_ecn /\ (usable /\ info.received => ecn /= "NotEct")
<1>1. /\ UNCHANGED <<keys_sent, network, tracker, rtcp, arrived, returned>>
      /\ feedback /= NoFeedback /\ todo /= <<>>
      /\ feedback' = [feedback EXCEPT !.todo = Tail(@), !.results = results,
                                      !.supports_ecn = supports_ecn]
  BY DEF HandlePacketInfo, ProcessPacketInfo, loopVars
<1>2. /\ feedback.kind = "ccfb"
      /\ EntriesTrue(keys_sent, arrived, todo)
      /\ ResultsTrue(keys_sent, arrived, rs)
  BY <1>1 DEF TruthInv, FeedbackTrue
<1>3. feedback \in [kind : {"ccfb"}, todo : Seq(CcfbInfo),
                    results : Seq(Results), supports_ecn : BOOLEAN]
  BY <1>1, <1>2 DEF ReturnInv, IInv, FeedbackOK
<1>4. feedback'.kind = "ccfb" /\ feedback'.todo = Tail(todo) /\ feedback'.results = results
  <2> HIDE DEF results, supports_ecn
  <2>1. QED
    BY <1>1, <1>3
<1>5. todo \in Seq(CcfbInfo) /\ rs \in Seq(Results) /\ info \in CcfbInfo
  BY <1>1, <1>3
<1>6. 1 \in DOMAIN todo /\ info = todo[1]
  BY <1>1, <1>5
<1>7. usable => /\ seq \in DOMAIN keys_sent /\ keys_sent[seq] = info.key
                /\ result \in Results
                /\ result.seq = seq /\ result.received = info.received /\ result.ecn = info.ecn
  <2> SUFFICES ASSUME usable
               PROVE  /\ seq \in DOMAIN keys_sent /\ keys_sent[seq] = info.key
                      /\ result \in Results
                      /\ result.seq = seq /\ result.received = info.received
                      /\ result.ecn = info.ecn
    BY Zenon
  <2>1. info.key \in DOMAIN rtp_to_transport /\ seq = rtp_to_transport[info.key]
    BY <1>2 DEF CanLookUp, LookUp
  <2>2. seq \in DOMAIN history /\ history[seq].key = info.key
    BY <2>1 DEF ReturnInv, IInv, RtpMapSound
  <2>3. history[seq].key = keys_sent[seq] /\ seq \in 1..transport_seq - 1
    BY <2>2 DEF ReturnInv, IInv, KeysOK, TypeOK
  <2>4. DOMAIN keys_sent = 1..transport_seq - 1
    BY DEF ReturnInv, IInv, KeysOK
  <2>5. info.received \in BOOLEAN /\ info.ecn \in EcnMarking
    BY <1>5 DEF CcfbInfo
  <2>6. seq \in Int /\ history[seq].network_route \in NetworkRoute
    BY <2>2, <2>3 DEF ReturnInv, IInv, TypeOK, PacketFeedback
  <2> HIDE DEF seq, info
  <2>7. QED
    BY <1>2, <2>2, <2>3, <2>4, <2>5, <2>6 DEF Results
<1>8. info.received => KeyArrived(keys_sent, arrived, info.key, info.ecn)
  BY <1>2, <1>6 DEF EntriesTrue
<1> HIDE DEF info, seq, usable, result
<1>9. ResultsTrue(keys_sent, arrived, results)
  <2>1. CASE ~usable
    BY <1>2, <2>1
  <2>2. CASE usable
    <3> DEFINE app == Append(rs, result)
    <3> HIDE DEF rs
    <3>1. /\ DOMAIN app = DOMAIN rs \cup {Len(rs) + 1}
          /\ app[Len(rs) + 1] = result /\ \A i \in DOMAIN rs : app[i] = rs[i]
      BY <1>5, <1>7, <2>2, AppendResult
    <3>2. results = app
      BY <2>2
    <3> HIDE DEF app, results
    <3>3. QED
      BY <1>2, <1>7, <1>8, <2>2, <3>1, <3>2 DEF ResultsTrue
  <2>3. QED
    BY <2>1, <2>2
<1>10. EntriesTrue(keys_sent, arrived, Tail(todo))
  <2> HIDE DEF todo
  <2>1. \A i \in DOMAIN Tail(todo) : Tail(todo)[i] = todo[i + 1] /\ i + 1 \in DOMAIN todo
    BY <1>1, <1>5, TailInSendOrder
  <2>2. QED
    BY <1>2, <2>1 DEF EntriesTrue
<1> HIDE DEF todo, results
<1>11. FeedbackTrue'
  BY <1>1, <1>4, <1>9, <1>10, Zenon DEF FeedbackTrue
<1>12. Grows
  BY <1>1 DEF Grows
<1>13. QED
  BY <1>1, <1>11, <1>12, TruthStays DEF TruthInv

\* What is returned at the end of a message are its results.
LEMMA HandleTransportPacketsFeedbackTruth ==
  ASSUME ReturnInv, TruthInv, HandleTransportPacketsFeedback
  PROVE  TruthInv'
<1>1. /\ UNCHANGED <<keys_sent, network, tracker, rtcp, arrived>>
      /\ feedback /= NoFeedback /\ feedback' = NoFeedback /\ FinishFeedback
  BY DEF HandleTransportPacketsFeedback, FinishFeedback
<1>2. PICK sorted :
        /\ returned' = ToTransportFeedback(sorted)
        /\ \A i \in DOMAIN sorted : \E j \in DOMAIN feedback.results :
             sorted[i] = feedback.results[j]
  BY <1>1, FinishedReport
<1>3. ResultsTrue(keys_sent, arrived, feedback.results)
  BY <1>1 DEF TruthInv, FeedbackTrue
<1>4. ResultsTrue(keys_sent, arrived, sorted)
  BY <1>2, <1>3 DEF ResultsTrue
<1>5. returned'.kind = "feedback" => returned'.packet_feedbacks = sorted
  BY <1>2 DEF ToTransportFeedback, Nullopt
<1>6. ReturnedTrue'
  BY <1>1, <1>4, <1>5 DEF ReturnedTrue
<1>7. FeedbackTrue'
  BY <1>1 DEF FeedbackTrue
<1>8. Grows
  BY <1>1 DEF Grows
<1>9. QED
  BY <1>1, <1>6, <1>7, <1>8, TruthStays DEF TruthInv

\* The receiver's tracker learns of a packet that arrives.
LEMMA ArriveTruth ==
  ASSUME IInv, TruthInv, NEW p \in network, NEW ecn \in Ecns, Arrive(p, ecn)
  PROVE  TruthInv'
<1> DEFINE x == [seq |-> p.key, arrival_time |-> 0, ecn |-> ecn]
<1>1. /\ UNCHANGED <<keys_sent, network, rtcp, feedback, returned>>
      /\ arrived' = arrived \cup {[seq |-> p.seq, ecn |-> ecn]}
      /\ tracker' = TrackerProofs!ReceivedPacket(tracker, x)
  BY SameTracker DEF Arrive, adapterVars
<1>2. p.seq \in DOMAIN keys_sent /\ p.key = keys_sent[p.seq]
  BY DEF TruthInv, NetworkOK
<1>3. p.key \in Nat \ {0}
  <2>1. keys_sent \in Seq(Keys)
    BY DEF IInv, KeysOK
  <2>2. p.key \in Keys
    BY <1>2, <2>1
  <2>3. QED
    BY <2>2, LoopAssumption, Zenon
<1>4. x \in TrackerProofs!PacketInfo /\ x.seq > 0 /\ x.seq = p.key /\ x.ecn = ecn
  BY <1>3 DEF TrackerProofs!PacketInfo
<1>5. TrackerProofs!TrackerOK(tracker)
  BY DEF TruthInv, TrackerTrue
<1> HIDE DEF x
<1>6. /\ TrackerProofs!TrackerOK(tracker')
      /\ \A i \in DOMAIN tracker'.packets :
           \/ tracker'.packets[i] = x
           \/ \E j \in DOMAIN tracker.packets : tracker'.packets[i] = tracker.packets[j]
  BY <1>1, <1>4, <1>5, LoopAssumption, TrackerProofs!ReceivedPacketOK
<1>7. Grows
  BY <1>1 DEF Grows
<1>8. KeyArrived(keys_sent', arrived', p.key, ecn)
  BY <1>1, <1>2 DEF KeyArrived
<1>9. \A j \in DOMAIN tracker.packets :
        KeyArrived(keys_sent', arrived', tracker.packets[j].seq, tracker.packets[j].ecn)
  <2>1. \A key, e : KeyArrived(keys_sent, arrived, key, e) => KeyArrived(keys_sent', arrived', key, e)
    BY <1>7, TruthGrows DEF Grows
  <2>2. QED
    BY <2>1 DEF TruthInv, TrackerTrue
<1>10. \A i \in DOMAIN tracker'.packets :
         KeyArrived(keys_sent', arrived', tracker'.packets[i].seq, tracker'.packets[i].ecn)
  BY <1>4, <1>6, <1>8, <1>9
<1>11. TrackerTrue'
  BY <1>6, <1>10 DEF TrackerTrue, TrackerProofs!TrackerOK
<1>12. QED
  BY <1>1, <1>7, <1>11, TruthStays DEF TruthInv

\* An entry that RFC 8888 asks for, if it says received, is about a packet that waits.
LEMMA EntryIsTrue ==
  ASSUME NEW packets, NEW e, NEW n, TrackerProofs!EntryFor(packets, e, n), e.received
  PROVE  \E i \in DOMAIN packets : packets[i].seq = e.seq /\ packets[i].ecn = e.ecn
<1>1. e.seq = n
  BY DEF TrackerProofs!EntryFor
<1>2. CASE \E i \in TrackerProofs!CopiesIn(packets, n) : packets[i].ecn = "Ce"
  <2>1. e.ecn = "Ce"
    BY <1>2 DEF TrackerProofs!EntryFor
  <2>2. QED
    BY <1>1, <1>2, <2>1 DEF TrackerProofs!CopiesIn
<1>3. CASE ~\E i \in TrackerProofs!CopiesIn(packets, n) : packets[i].ecn = "Ce"
  <2>1. \E i \in TrackerProofs!FirstCopiesIn(packets, n) : e.ecn = packets[i].ecn
    BY <1>3 DEF TrackerProofs!EntryFor
  <2>2. QED
    BY <1>1, <2>1 DEF TrackerProofs!FirstCopiesIn, TrackerProofs!CopiesIn
<1>4. QED
  BY <1>2, <1>3

\* A feedback message says received only of packets that arrived.
LEMMA SendFeedbackTruth ==
  ASSUME TruthInv, SendFeedback
  PROVE  TruthInv'
<1>1. UNCHANGED <<keys_sent, network, arrived, feedback, returned>> /\ tracker.packets /= <<>>
  BY DEF SendFeedback, adapterVars
<1>2. PICK s \in TrackerProofs!Sorted(tracker.packets) :
        LET result == TrackerProofs!AddPacketsToFeedback(tracker, s)
        IN /\ tracker' = result.tracker
           /\ rtcp' = rtcp \cup
                {[i \in DOMAIN result.report |->
                    [key |-> result.report[i].seq, received |-> result.report[i].received,
                     ecn |-> result.report[i].ecn]]}
  BY SameTracker DEF SendFeedback
<1> DEFINE report == TrackerProofs!AddPacketsToFeedback(tracker, s).report
           entry(i) == [key |-> report[i].seq, received |-> report[i].received,
                        ecn |-> report[i].ecn]
           message == [i \in DOMAIN report |-> entry(i)]
<1>3. TrackerProofs!TrackerOK(tracker)
  BY DEF TruthInv, TrackerTrue
<1>4. /\ TrackerProofs!TrackerOK(tracker')
      /\ tracker'.packets = <<>>
      /\ report \in Seq(TrackerProofs!PacketReports)
      /\ \A i \in 1 .. Len(report) :
           TrackerProofs!EntryFor(tracker.packets, report[i], report[1].seq + i - 1)
  BY <1>1, <1>2, <1>3, LoopAssumption, TrackerProofs!AddPacketsToFeedbackOK
<1>5. rtcp' = rtcp \cup {message}
  BY <1>2
<1> HIDE DEF report
<1>6. /\ DOMAIN report = 1 .. Len(report) /\ Len(report) \in Nat
      /\ \A i \in 1 .. Len(report) : report[i] \in TrackerProofs!PacketReports
  BY <1>4
<1>7. \A r \in TrackerProofs!PacketReports :
        [key |-> r.seq, received |-> r.received, ecn |-> r.ecn] \in CcfbInfo
  BY EcnsAssumption, Zenon DEF TrackerProofs!PacketReports, CcfbInfo, EcnMarking
<1>8. message \in Seq(CcfbInfo)
  <2>1. \A i \in DOMAIN report : entry(i) \in CcfbInfo
    BY <1>6, <1>7
  <2> HIDE DEF entry
  <2>2. message \in [1 .. Len(report) -> CcfbInfo]
    BY <1>6, <2>1
  <2>3. QED
    BY <1>6, <2>2
<1>9. EntriesTrue(keys_sent, arrived, message)
  <2> SUFFICES ASSUME NEW i \in DOMAIN report, report[i].received
               PROVE  KeyArrived(keys_sent, arrived, report[i].seq, report[i].ecn)
    BY DEF EntriesTrue
  <2>1. PICK j \in DOMAIN tracker.packets :
          tracker.packets[j].seq = report[i].seq /\ tracker.packets[j].ecn = report[i].ecn
    BY <1>4, <1>6, EntryIsTrue
  <2>2. KeyArrived(keys_sent, arrived, tracker.packets[j].seq, tracker.packets[j].ecn)
    BY DEF TruthInv, TrackerTrue
  <2>3. QED
    BY <2>1, <2>2
<1> HIDE DEF message
<1>10. RtcpTrue'
  BY <1>1, <1>5, <1>8, <1>9 DEF TruthInv, RtcpTrue
<1>11. TrackerTrue'
  <2>1. DOMAIN tracker'.packets = {}
    BY <1>4
  <2>2. QED
    BY <1>4, <2>1 DEF TrackerTrue, TrackerProofs!TrackerOK
<1>12. Grows
  BY <1>1 DEF Grows
<1>13. QED
  BY <1>1, <1>10, <1>11, <1>12, TruthStays DEF TruthInv

\* Every step of the loop keeps the truth.
LEMMA LoopTruth ==
  ASSUME ReturnInv, TruthInv, [LoopNext]_allVars
  PROVE  TruthInv'
<1>1. IInv
  BY DEF ReturnInv
<1>2. ASSUME NEW key, SendPacket(key) PROVE TruthInv'
  BY <1>1, <1>2, SendPacketTruth
<1>3. ASSUME NEW seq, OnSentPacket(seq) PROVE TruthInv'
  <2>1. UNCHANGED <<keys_sent, network, tracker, rtcp, arrived, feedback>>
    BY <1>3 DEF OnSentPacket, ProcessSentPacket, loopVars
  <2>2. returned'.kind \in {"sent", "nullopt"}
    BY <1>3 DEF OnSentPacket, ProcessSentPacket, Nullopt
  <2>3. QED
    BY <2>1, <2>2, QuietTruth
<1>4. ASSUME NEW route, OnNetworkRouteChanged(route) PROVE TruthInv'
  <2>1. UNCHANGED <<keys_sent, network, tracker, rtcp, arrived, feedback>>
    BY <1>4 DEF OnNetworkRouteChanged, RouteChange, SetNetworkRoute, adapterVars
  <2>2. UNCHANGED returned \/ returned'.kind /= "feedback"
    BY <1>4 DEF OnNetworkRouteChanged, RouteChange, SetNetworkRoute, adapterVars, Nullopt
  <2>3. QED
    BY <2>1, <2>2, QuietTruth
<1>5. ASSUME NEW packets \in rtcp, OnCongestionControlFeedback(packets) PROVE TruthInv'
  BY <1>5, OnCongestionControlFeedbackTruth
<1>6. CASE HandlePacketInfo
  BY <1>6, HandlePacketInfoTruth
<1>7. CASE HandleTransportPacketsFeedback
  BY <1>7, HandleTransportPacketsFeedbackTruth
<1>8. CASE EnableRfc8888 \/ TimePasses \/ UNCHANGED allVars
  <2>1. UNCHANGED <<keys_sent, network, tracker, rtcp, arrived, feedback, returned>>
    BY <1>8 DEF EnableRfc8888, TimePasses, Tick, allVars, loopVars, adapterVars
  <2>2. QED
    BY <2>1, QuietTruth
<1>9. ASSUME NEW p \in network, NEW ecn \in Ecns, Arrive(p, ecn) PROVE TruthInv'
  BY <1>1, <1>9, ArriveTruth
<1>10. CASE SendFeedback
  BY <1>10, SendFeedbackTruth
<1>11. QED
  BY <1>2, <1>3, <1>4, <1>5, <1>6, <1>7, <1>8, <1>9, <1>10 DEF LoopNext

----
(***************************************************************************)
(* The probing                                                             *)
(***************************************************************************)
\* A step that changes no route and sends nothing may forget packets, and end or start
\* the reading of a message.
LEMMA ProbeQuiet ==
  ASSUME ProbeInv,
         UNCHANGED <<maybe_support_ecn, sending_as_ect1, probe, network_route, network,
                     transport_seq>>,
         DOMAIN history' \subseteq DOMAIN history,
         \A s \in DOMAIN history' : history'[s].network_route = history[s].network_route,
         feedback' = NoFeedback \/ UNCHANGED feedback \/ feedback'.results = <<>>
  PROVE  ProbeInv'
<1>1. ProbeAnswered'
  BY DEF ProbeInv, ProbeAnswered
<1>2. ASSUME maybe_support_ecn /\ sending_as_ect1 /\ probe.clean PROVE Probing'
  <2>1. Probing
    BY <1>2 DEF ProbeInv
  <2>2. \A s \in DOMAIN history' :
          history'[s].network_route = network_route' => ProbeSent(network', probe'.from, s)
    BY <2>1 DEF Probing
  <2>3. ASSUME feedback' /= NoFeedback, NEW i \in DOMAIN feedback'.results
        PROVE  ProbeSent(network', probe'.from, feedback'.results[i].seq)
    <3>1. CASE UNCHANGED feedback
      BY <2>1, <2>3, <3>1 DEF Probing
    <3>2. CASE feedback'.results = <<>>
      <4>1. DOMAIN <<>> = {}
        OBVIOUS
      <4>2. QED
        BY <2>3, <3>2, <4>1
    <3>3. QED
      BY <2>3, <3>1, <3>2
  <2>4. QED
    BY <2>2, <2>3 DEF Probing
<1>3. QED
  BY <1>1, <1>2 DEF ProbeInv

\* A new round starts on a route without packets, or is not clean.
LEMMA NewRound ==
  ASSUME IInv, NEW route, network_route' = route, probe' = NewProbe(route), feedback' = NoFeedback,
         UNCHANGED <<history, transport_seq>>,
         maybe_support_ecn' \in BOOLEAN, sending_as_ect1' = maybe_support_ecn'
  PROVE  ProbeInv'
<1>1. /\ probe'.from = transport_seq /\ probe'.reported = {}
      /\ probe'.clean <=> \A s \in DOMAIN history : history[s].network_route /= route
      /\ probe' = [from |-> probe'.from, clean |-> probe'.clean, reported |-> probe'.reported]
  BY DEF NewProbe
<1>2. transport_seq \in Nat /\ transport_seq <= transport_seq'
  BY DEF IInv, TypeOK
<1>3. probe'.clean => Probing'
  BY <1>1 DEF Probing
<1>4. ProbeAnswered'
  BY DEF ProbeAnswered
<1>5. QED
  BY <1>1, <1>2, <1>3, <1>4 DEF ProbeInv

\* A packet sent while the route is probed is sent as ECT(1).
LEMMA SendPacketProbe ==
  ASSUME IInv, ProbeInv, NEW key, SendPacket(key)
  PROVE  ProbeInv'
<1> DEFINE sent == [seq |-> transport_seq, key |-> key,
                    ecn |-> IF sending_as_ect1 THEN "Ect1" ELSE "NotEct"]
<1>1. /\ UNCHANGED <<maybe_support_ecn, sending_as_ect1, probe, network_route, feedback>>
      /\ feedback = NoFeedback
      /\ network' = network \cup {sent}
      /\ transport_seq' = transport_seq + 1
  BY DEF SendPacket, AddPacket
<1>2. /\ DOMAIN history' \subseteq DOMAIN history \cup {transport_seq}
      /\ \A s \in DOMAIN history' \ {transport_seq} : history'[s] = history[s]
  BY DEF SendPacket, AddPacket, Emplace, EraseSeqs
<1>3. transport_seq \in Nat /\ probe.from \in Nat /\ probe.from <= transport_seq
  BY DEF IInv, TypeOK, ProbeInv
<1>4. ProbeAnswered'
  BY <1>1 DEF ProbeInv, ProbeAnswered
<1>5. ASSUME maybe_support_ecn /\ sending_as_ect1 /\ probe.clean PROVE Probing'
  <2>1. Probing
    BY <1>5 DEF ProbeInv
  <2>2. sent.seq = transport_seq /\ sent.ecn = "Ect1"
    BY <1>5
  <2> HIDE DEF sent
  <2>3. ProbeSent(network', probe'.from, transport_seq)
    BY <1>1, <1>3, <2>2 DEF ProbeSent
  <2>4. \A s : ProbeSent(network, probe.from, s) => ProbeSent(network', probe'.from, s)
    BY <1>1 DEF ProbeSent
  <2>5. ASSUME NEW s \in DOMAIN history', history'[s].network_route = network_route'
        PROVE  ProbeSent(network', probe'.from, s)
    <3>1. CASE s = transport_seq
      BY <2>3, <3>1
    <3>2. CASE s /= transport_seq
      <4>1. s \in DOMAIN history /\ history[s].network_route = network_route
        BY <1>1, <1>2, <2>5, <3>2
      <4>2. QED
        BY <2>1, <2>4, <4>1 DEF Probing
    <3>3. QED
      BY <3>1, <3>2
  <2>6. QED
    BY <1>1, <2>5, Zenon DEF Probing
<1>6. probe'.from <= transport_seq'
  BY <1>1, <1>3
<1>7. QED
  BY <1>1, <1>3, <1>4, <1>5, <1>6 DEF ProbeInv

\* A packet that is looked up was in the history, on the route that is probed.
LEMMA HandlePacketInfoProbe ==
  ASSUME ReturnInv, TruthInv, ProbeInv, HandlePacketInfo
  PROVE  ProbeInv'
<1> DEFINE info   == Head(feedback.todo)
           seq    == LookUp(info)
           usable == /\ CanLookUp(info)
                     /\ Found(seq)
                     /\ OnCurrentRoute(seq)
           ecn    == IF feedback.kind = "ccfb" THEN info.ecn ELSE "NotEct"
           result == [seq |-> seq, received |-> info.received, ecn |-> ecn,
                      network_route |-> history[seq].network_route]
           rs     == feedback.results
           results == IF usable THEN Append(rs, result) ELSE rs
           supports_ecn == feedback.supports_ecn /\ (usable /\ info.received => ecn /= "NotEct")
<1>1. /\ UNCHANGED <<maybe_support_ecn, sending_as_ect1, probe, network_route, network,
                     transport_seq>>
      /\ feedback /= NoFeedback /\ feedback.todo /= <<>>
      /\ feedback' = [feedback EXCEPT !.todo = Tail(@), !.results = results,
                                      !.supports_ecn = supports_ecn]
  BY DEF HandlePacketInfo, ProcessPacketInfo, loopVars
<1>2. feedback \in [kind : {"ccfb"}, todo : Seq(CcfbInfo),
                    results : Seq(Results), supports_ecn : BOOLEAN]
  BY <1>1 DEF TruthInv, FeedbackTrue, ReturnInv, IInv, FeedbackOK
<1>3. feedback'.results = results
  <2> HIDE DEF results, supports_ecn
  <2>1. QED
    BY <1>1, <1>2
<1>4. rs \in Seq(Results) /\ info \in CcfbInfo
  BY <1>1, <1>2
<1>5. /\ DOMAIN history' \subseteq DOMAIN history
      /\ \A s \in DOMAIN history' : history'[s] = history[s]
  BY DEF HandlePacketInfo, ProcessPacketInfo, RetrievePacketFeedback, EraseSeqs
<1>6. usable => result \in Results /\ result.seq = seq /\ seq \in DOMAIN history
  <2> SUFFICES ASSUME usable
               PROVE  result \in Results /\ result.seq = seq /\ seq \in DOMAIN history
    BY Zenon
  <2>1. seq \in DOMAIN history
    BY DEF Found
  <2>2. seq \in Int /\ history[seq].network_route \in NetworkRoute
    BY <2>1 DEF ReturnInv, IInv, TypeOK, PacketFeedback
  <2>3. info.received \in BOOLEAN /\ ecn \in EcnMarking
    BY <1>4 DEF CcfbInfo, EcnMarking
  <2> HIDE DEF seq, info, ecn
  <2>4. QED
    BY <2>1, <2>2, <2>3, Zenon DEF Results
<1>7. ProbeAnswered'
  BY <1>1 DEF ProbeInv, ProbeAnswered
<1>8. ASSUME maybe_support_ecn /\ sending_as_ect1 /\ probe.clean PROVE Probing'
  <2>1. Probing
    BY <1>8 DEF ProbeInv
  <2>2. \A s \in DOMAIN history' :
          history'[s].network_route = network_route' => ProbeSent(network', probe'.from, s)
    BY <1>1, <1>5, <2>1 DEF Probing
  <2>3. \A i \in DOMAIN rs : ProbeSent(network, probe.from, rs[i].seq)
    BY <1>1, <2>1 DEF Probing
  <2>4. usable => ProbeSent(network, probe.from, result.seq)
    BY <1>6, <2>1, Zenon DEF Probing, OnCurrentRoute
  <2>5. \A i \in DOMAIN results : ProbeSent(network, probe.from, results[i].seq)
    <3> HIDE DEF usable, result, rs
    <3>1. CASE usable
      <4> DEFINE app == Append(rs, result)
      <4>1. /\ DOMAIN app = DOMAIN rs \cup {Len(rs) + 1}
            /\ app[Len(rs) + 1] = result /\ \A i \in DOMAIN rs : app[i] = rs[i]
        BY <1>4, <1>6, <3>1, AppendResult
      <4>2. results = app
        BY <3>1
      <4> HIDE DEF app, results
      <4>3. QED
        BY <2>3, <2>4, <3>1, <4>1, <4>2
    <3>2. CASE ~usable
      BY <2>3, <3>2
    <3>3. QED
      BY <3>1, <3>2
  <2> HIDE DEF results
  <2>6. QED
    BY <1>1, <1>3, <2>2, <2>5 DEF Probing
<1> HIDE DEF results
<1>9. QED
  BY <1>1, <1>7, <1>8 DEF ProbeInv

\* The report that ends the probing has a packet of it.
LEMMA HandleTransportPacketsFeedbackProbe ==
  ASSUME ReturnInv, ProbeInv, HandleTransportPacketsFeedback
  PROVE  ProbeInv'
<1>1. /\ UNCHANGED <<maybe_support_ecn, network, history, network_route, transport_seq>>
      /\ feedback /= NoFeedback /\ feedback' = NoFeedback /\ FinishFeedback
  BY DEF HandleTransportPacketsFeedback, FinishFeedback
<1>2. CASE returned' = Nullopt
  <2>1. UNCHANGED <<sending_as_ect1, probe>>
    BY <1>2 DEF HandleTransportPacketsFeedback
  <2>2. QED
    BY <1>1, <2>1, ProbeQuiet
<1>3. CASE returned' /= Nullopt
  <2>1. PICK sorted :
          /\ returned' = ToTransportFeedback(sorted)
          /\ sorted \in Seq(Results)
          /\ \A i \in DOMAIN sorted : \E j \in DOMAIN feedback.results :
               sorted[i] = feedback.results[j]
    BY <1>1, FinishedReport
  <2>2. sorted /= <<>> /\ returned'.packet_feedbacks = sorted
    BY <1>3, <2>1 DEF ToTransportFeedback
  <2>3. 1 \in DOMAIN sorted
    BY <2>1, <2>2
  <2>4. /\ sending_as_ect1' = FALSE
        /\ probe' = [probe EXCEPT !.reported = @ \cup {sorted[i].seq : i \in DOMAIN sorted}]
    BY <1>3, <2>2 DEF HandleTransportPacketsFeedback
  <2>5. /\ probe'.from = probe.from /\ probe'.clean = probe.clean
        /\ probe'.reported = probe.reported \cup {sorted[i].seq : i \in DOMAIN sorted}
        /\ probe' = [from |-> probe'.from, clean |-> probe'.clean, reported |-> probe'.reported]
    BY <2>4, Zenon DEF ProbeInv
  <2>6. sorted[1].seq \in probe'.reported
    BY <2>3, <2>5
  <2>7. ProbeAnswered'
    <3> SUFFICES ASSUME maybe_support_ecn, probe.clean
                 PROVE  \E p \in network : /\ p.seq >= probe.from /\ p.ecn = "Ect1"
                                           /\ p.seq \in probe'.reported
      BY <1>1, <2>5 DEF ProbeAnswered
    <3>1. CASE sending_as_ect1
      <4>1. \A j \in DOMAIN feedback.results :
              ProbeSent(network, probe.from, feedback.results[j].seq)
        BY <1>1, <3>1 DEF ProbeInv, Probing
      <4>2. ProbeSent(network, probe.from, sorted[1].seq)
        BY <2>1, <2>3, <4>1
      <4>3. QED
        BY <2>6, <4>2 DEF ProbeSent
    <3>2. CASE ~sending_as_ect1
      BY <2>5, <3>2 DEF ProbeInv, ProbeAnswered
    <3>3. QED
      BY <3>1, <3>2
  <2>8. QED
    BY <1>1, <2>4, <2>5, <2>7, Zenon DEF ProbeInv
<1>4. QED
  BY <1>2, <1>3

\* Every step of the loop keeps the probing right.
LEMMA LoopProbe ==
  ASSUME ReturnInv, TruthInv, ProbeInv, [LoopNext]_allVars
  PROVE  ProbeInv'
<1>1. IInv
  BY DEF ReturnInv
<1>2. ASSUME NEW key, SendPacket(key) PROVE ProbeInv'
  BY <1>1, <1>2, SendPacketProbe
<1>3. ASSUME NEW seq, OnSentPacket(seq) PROVE ProbeInv'
  <2>1. UNCHANGED <<maybe_support_ecn, sending_as_ect1, probe, network_route, network,
                    transport_seq, feedback>>
    BY <1>3 DEF OnSentPacket, ProcessSentPacket, loopVars
  <2>2. /\ DOMAIN history' = DOMAIN history
        /\ \A s \in DOMAIN history : history'[s].network_route = history[s].network_route
    <3>1. \A s \in DOMAIN history : history[s] \in PacketFeedback
      BY <1>1 DEF IInv, TypeOK
    <3>2. history' = history \/ history' = [history EXCEPT ![seq].sent = TRUE]
      BY <1>3 DEF OnSentPacket, ProcessSentPacket
    <3>3. QED
      BY <3>1, <3>2 DEF PacketFeedback
  <2>3. QED
    BY <2>1, <2>2, ProbeQuiet
<1>4. ASSUME NEW route, OnNetworkRouteChanged(route) PROVE ProbeInv'
  <2>1. UNCHANGED <<maybe_support_ecn, network, history, transport_seq, feedback>>
        /\ feedback = NoFeedback
    BY <1>4 DEF OnNetworkRouteChanged, RouteChange, SetNetworkRoute, adapterVars
  <2>2. CASE UNCHANGED <<adapterVars, probe, sending_as_ect1>>
    <3>1. UNCHANGED <<probe, sending_as_ect1, network_route>>
      BY <2>2 DEF adapterVars
    <3>2. QED
      BY <2>1, <3>1, ProbeQuiet
  <2>3. CASE RouteChange(route)
    <3>1. /\ network_route' = route /\ probe' = NewProbe(route)
          /\ sending_as_ect1' = maybe_support_ecn'
      BY <2>1, <2>3 DEF RouteChange, SetNetworkRoute
    <3>2. maybe_support_ecn' \in BOOLEAN
      BY <2>1 DEF ProbeInv
    <3>3. QED
      BY <1>1, <2>1, <3>1, <3>2, NewRound
  <2>4. QED
    BY <1>4, <2>2, <2>3 DEF OnNetworkRouteChanged
<1>5. ASSUME NEW packets, OnCongestionControlFeedback(packets) PROVE ProbeInv'
  <2>1. UNCHANGED <<maybe_support_ecn, sending_as_ect1, probe, network_route, network,
                    transport_seq, history>>
    BY <1>5 DEF OnCongestionControlFeedback, ProcessCongestionControlFeedback, StartFeedback,
                loopVars
  <2>2. feedback' = NoFeedback \/ feedback'.results = <<>>
    BY <1>5 DEF OnCongestionControlFeedback, ProcessCongestionControlFeedback, StartFeedback
  <2>3. QED
    BY <2>1, <2>2, ProbeQuiet
<1>6. CASE HandlePacketInfo
  BY <1>6, HandlePacketInfoProbe
<1>7. CASE HandleTransportPacketsFeedback
  BY <1>7, HandleTransportPacketsFeedbackProbe
<1>8. CASE EnableRfc8888
  <2>1. /\ UNCHANGED <<history, transport_seq, network_route, feedback>>
        /\ probe' = NewProbe(network_route) /\ feedback = NoFeedback
        /\ sending_as_ect1' = TRUE /\ maybe_support_ecn' = TRUE
    BY <1>8 DEF EnableRfc8888, adapterVars
  <2>2. QED
    BY <1>1, <2>1, NewRound
<1>9. CASE \/ \E p \in network, ecn \in Ecns : Arrive(p, ecn)
           \/ SendFeedback \/ TimePasses \/ UNCHANGED allVars
  <2>1. UNCHANGED <<maybe_support_ecn, sending_as_ect1, probe, network_route, network,
                    transport_seq, history, feedback>>
    BY <1>9, Zenon DEF Arrive, SendFeedback, TimePasses, Tick, allVars, loopVars, adapterVars
  <2>2. QED
    BY <2>1, ProbeQuiet
<1>10. QED
  BY <1>2, <1>3, <1>4, <1>5, <1>6, <1>7, <1>8, <1>9 DEF LoopNext

----
(***************************************************************************)
(* Results                                                                 *)
(***************************************************************************)
\* Initially nothing was sent, and nothing is probed.
LEMMA LoopInitInv == LoopInit => LoopInv
<1> SUFFICES ASSUME LoopInit PROVE LoopInv
  OBVIOUS
<1>1. Init /\ IInv
  BY InitIInv DEF LoopInit
<1>2. feedback = NoFeedback /\ returned.kind /= "feedback" /\ transport_seq = 1
  BY <1>1 DEF Init, Nullopt
<1>3. ReturnInv
  BY <1>1, <1>2, Zenon DEF ReturnInv, FeedbackProgress, FeedbackConsistent
<1>4. TrackerTrue
  <2>1. tracker.last = NoSeq /\ tracker.packets = <<>>
    BY SameTracker DEF LoopInit, TrackerProofs!NewTracker
  <2>2. Len(<<>>) = 0 /\ <<>> \in Seq(TrackerProofs!PacketInfo) /\ DOMAIN <<>> = {}
    OBVIOUS
  <2>3. Len(tracker.packets) = 0 /\ Len(tracker.packets) <= MaxPacketsPerSsrc + 1
    <3>1. Len(tracker.packets) = 0
      BY <2>1, <2>2, Zenon
    <3>2. QED
      BY <3>1, LoopAssumption
  <2>4. TrackerProofs!TrackerOK(tracker)
    BY <2>1, <2>2, <2>3, Zenon DEF TrackerProofs!TrackerOK
  <2>5. DOMAIN tracker.packets = {}
    BY <2>1, <2>2, Zenon
  <2>6. QED
    BY <2>4, <2>5, Zenon DEF TrackerTrue
<1>5. TruthInv
  BY <1>2, <1>4 DEF LoopInit, TruthInv, NetworkOK, RtcpTrue, FeedbackTrue, ReturnedTrue
<1>6. ProbeInv
  <2>1. /\ probe.from = 1
        /\ probe = [from |-> probe.from, clean |-> probe.clean, reported |-> probe.reported]
    BY <1>2 DEF LoopInit, NewProbe
  <2>2. maybe_support_ecn = FALSE /\ sending_as_ect1 = FALSE
    BY DEF LoopInit
  <2>3. probe.from \in Nat /\ probe.from <= transport_seq
    BY <1>2, <2>1
  <2>4. ProbeAnswered
    BY <2>2 DEF ProbeAnswered
  <2>5. QED
    BY <2>1, <2>2, <2>3, <2>4, Zenon DEF ProbeInv
<1>7. QED
  BY <1>3, <1>5, <1>6 DEF LoopInv

\* The inductive invariant holds in every state of every behaviour of the loop.
LEMMA LoopInvAlways == LoopSpec => []LoopInv
<1>1. LoopInv /\ [LoopNext]_allVars => LoopInv'
  BY LoopReturns, LoopTruth, LoopProbe DEF LoopInv, TruthInv
<1>2. QED
  BY <1>1, LoopInitInv, PTL DEF LoopSpec

\* However packets and feedback messages are lost, copied, reordered, marked and
\* bleached, a packet that the congestion controller is told was received did arrive,
\* with the marking it is told.
THEOREM CongestionControllerIsToldTheTruth == LoopSpec => []ReceivedIsTrue
<1>1. LoopInv => ReceivedIsTrue
  <2> SUFFICES ASSUME LoopInv, NEW result \in Returned, result.received, UniqueKey(result.seq)
               PROVE  [seq |-> result.seq, ecn |-> result.ecn] \in arrived
    BY DEF ReceivedIsTrue
  <2>1. PICK i \in DOMAIN returned.packet_feedbacks :
          returned.kind = "feedback" /\ result = returned.packet_feedbacks[i]
    BY DEF Returned
  <2>2. /\ result.seq \in DOMAIN keys_sent
        /\ KeyArrived(keys_sent, arrived, keys_sent[result.seq], result.ecn)
    BY <2>1 DEF LoopInv, TruthInv, ReturnedTrue, ResultsTrue
  <2>3. PICK s \in DOMAIN keys_sent : /\ keys_sent[s] = keys_sent[result.seq]
                                      /\ [seq |-> s, ecn |-> result.ecn] \in arrived
    BY <2>2 DEF KeyArrived
  <2>4. s = result.seq
    BY <2>3 DEF UniqueKey
  <2>5. QED
    BY <2>3, <2>4
<1>2. QED
  BY <1>1, LoopInvAlways, PTL

\* HandleTransportPacketsFeedback stops sending ECT(1) only after feedback for a packet
\* that was sent as ECT(1) in the current round of probing, if the round started clean.
THEOREM ProbingEndsWithAnAnswer == LoopSpec => []ProbeAnswered
<1>1. LoopInv => ProbeAnswered
  BY DEF LoopInv, ProbeInv
<1>2. QED
  BY <1>1, LoopInvAlways, PTL

\* The invariants of the adapter hold in the loop as well, where feedback comes from a
\* tracker and the network loses, repeats and reorders it, and packets expire meanwhile.
THEOREM AdapterInTheLoop ==
  LoopSpec => [](/\ TypeOK /\ InFlightExact /\ RtpMapSound /\ RtpMapComplete
                 /\ ReportedPacketsForgotten /\ FeedbackConsistent)
<1>1. LoopInv => /\ TypeOK /\ InFlightExact /\ RtpMapSound /\ RtpMapComplete
                 /\ ReportedPacketsForgotten /\ FeedbackConsistent
  BY DEF LoopInv, ReturnInv, IInv
<1>2. QED
  BY <1>1, LoopInvAlways, PTL
====
