---- MODULE TransportFeedbackAdapterProofs ----
(***************************************************************************)
(* Proofs about TransportFeedbackAdapter for any set of keys and routes,   *)
(* any packet size and history window, and messages of any length.         *)
(***************************************************************************)
EXTENDS TransportFeedbackAdapter, FiniteSetTheorems, TLAPS

(***************************************************************************)
(* Counting bytes.                                                         *)
(***************************************************************************)

\* The bytes of finitely many packets are finitely many.
LEMMA PacketBytesFinite ==
  ASSUME NEW h, NEW S, IsFiniteSet(S)
  PROVE  IsFiniteSet(PacketBytes(h, S))
<1>1. IsFiniteSet(1..MaxSize)
  BY FS_Interval, MaxSizeAssumption
<1>2. IsFiniteSet(S \X (1..MaxSize))
  BY <1>1, FS_Product, Zenon
<1>3. PacketBytes(h, S) \in SUBSET (S \X (1..MaxSize))
  BY DEF PacketBytes
<1> QED BY <1>2, <1>3, FS_Subset

\* Their number is a natural number, 0 for no packets.
LEMMA DataSizeType ==
  ASSUME NEW h, NEW S, IsFiniteSet(S)
  PROVE  /\ DataSize(h, S) \in Nat
         /\ DataSize(h, {}) = 0
<1>1. DataSize(h, S) \in Nat
  BY PacketBytesFinite, FS_CardinalityType DEF DataSize
<1>2. PacketBytes(h, {}) = {}
  BY DEF PacketBytes
<1> QED BY <1>1, <1>2, FS_EmptySet DEF DataSize

\* Only the sizes of the packets matter.
LEMMA DataSizeSame ==
  ASSUME NEW g, NEW h, NEW S, \A s \in S : g[s].size = h[s].size
  PROVE  DataSize(g, S) = DataSize(h, S)
<1>1. PacketBytes(g, S) = PacketBytes(h, S)
  BY DEF PacketBytes
<1> QED BY <1>1 DEF DataSize

\* A single packet has as many bytes as its size says.
LEMMA DataSizeSingle ==
  ASSUME NEW h, NEW s, h[s].size \in 1..MaxSize
  PROVE  DataSize(h, {s}) = h[s].size
<1>0. PICK n \in 1..MaxSize : n = h[s].size
  OBVIOUS
<1>1. PacketBytes(h, {s}) = {s} \X (1..n)
  BY <1>0, MaxSizeAssumption DEF PacketBytes
<1>2. IsFiniteSet({s}) /\ Cardinality({s}) = 1
  BY FS_Singleton, Zenon
<1>3. IsFiniteSet(1..n) /\ Cardinality(1..n) = n
  BY FS_Interval, MaxSizeAssumption
<1>4. Cardinality({s} \X (1..n)) = 1 * n
  BY <1>2, <1>3, FS_Product
<1> QED BY <1>0, <1>1, <1>4, MaxSizeAssumption DEF DataSize

\* Taking packets away takes their bytes away, and no more.
LEMMA DataSizeDifference ==
  ASSUME NEW h, NEW S, IsFiniteSet(S), NEW T \in SUBSET S
  PROVE  /\ DataSize(h, S \ T) = DataSize(h, S) - DataSize(h, T)
         /\ DataSize(h, T) <= DataSize(h, S)
<1>1. IsFiniteSet(PacketBytes(h, S))
  BY PacketBytesFinite
<1>2. PacketBytes(h, T) \in SUBSET PacketBytes(h, S)
  BY DEF PacketBytes
<1>3. PacketBytes(h, S \ T) = PacketBytes(h, S) \ PacketBytes(h, T)
  BY DEF PacketBytes
<1>4. PacketBytes(h, S) \cap PacketBytes(h, T) = PacketBytes(h, T)
  BY <1>2
<1>5. Cardinality(PacketBytes(h, S) \ PacketBytes(h, T))
        = Cardinality(PacketBytes(h, S)) - Cardinality(PacketBytes(h, T))
  BY <1>1, <1>4, FS_Difference, Zenon
<1>6. Cardinality(PacketBytes(h, T)) <= Cardinality(PacketBytes(h, S))
  BY <1>1, <1>2, FS_Subset
<1> QED BY <1>3, <1>5, <1>6 DEF DataSize

\* A new packet adds its size.
LEMMA DataSizeAdd ==
  ASSUME NEW h, NEW S, IsFiniteSet(S), NEW s, s \notin S, h[s].size \in 1..MaxSize
  PROVE  DataSize(h, S \cup {s}) = DataSize(h, S) + h[s].size
<1>1. IsFiniteSet(S \cup {s})
  BY FS_AddElement
<1>2. DataSize(h, (S \cup {s}) \ {s}) = DataSize(h, S \cup {s}) - DataSize(h, {s})
  BY <1>1, DataSizeDifference
<1>3. (S \cup {s}) \ {s} = S
  OBVIOUS
<1>4. DataSize(h, {s}) = h[s].size
  BY DataSizeSingle
<1>5. DataSize(h, S \cup {s}) \in Nat /\ DataSize(h, S) \in Nat
  BY <1>1, DataSizeType
<1>6. DataSize(h, S) = DataSize(h, S \cup {s}) - h[s].size
  BY <1>2, <1>3, <1>4
<1>7. h[s].size \in Nat
  BY MaxSizeAssumption
<1> QED BY <1>5, <1>6, <1>7

(***************************************************************************)
(* The inductive invariant.  RtpMapSound and RtpMapComplete need the keys  *)
(* of the packets in the history to be those they were added with; TypeOK  *)
(* needs the messages in progress to be well formed.  RFC 8888 feedback may*)
(* name RTP sequence numbers that no packet had.                           *)
(***************************************************************************)
CcfbInfo == [key : Keys \cup Int, received : BOOLEAN, ecn : EcnMarking]
TransportCcInfo == [seq : 1..transport_seq - 1, received : BOOLEAN]

FeedbackOK ==
  \/ feedback = NoFeedback
  \/ feedback \in [kind : {"ccfb"}, todo : Seq(CcfbInfo),
                   results : Seq(Results), supports_ecn : BOOLEAN]
  \/ feedback \in [kind : {"transport_cc"}, todo : Seq(TransportCcInfo),
                   results : Seq(Results), supports_ecn : BOOLEAN]

KeysOK ==
  /\ keys_sent \in Seq(Keys)
  /\ Len(keys_sent) = transport_seq - 1
  /\ \A s \in DOMAIN history : history[s].key = keys_sent[s]

IInv ==
  /\ TypeOK
  /\ FeedbackOK
  /\ KeysOK
  /\ RtpMapSound
  /\ RtpMapComplete
  /\ ReportedPacketsForgotten
  /\ InFlightExact

\* The history is finite, and so are the packets in flight on a route.
LEMMA HistoryFinite ==
  ASSUME TypeOK
  PROVE  /\ IsFiniteSet(DOMAIN history)
         /\ \A r : IsFiniteSet(InFlightPackets(r))
<1>1. IsFiniteSet(1..transport_seq - 1)
  BY FS_Interval DEF TypeOK
<1>2. DOMAIN history \in SUBSET (1..transport_seq - 1)
  BY DEF TypeOK
<1>3. IsFiniteSet(DOMAIN history)
  BY <1>1, <1>2, FS_Subset, Zenon
<1>4. \A r : InFlightPackets(r) \in SUBSET DOMAIN history
  BY DEF InFlightPackets, SentOn
<1> QED BY <1>3, <1>4, FS_Subset

\* RemoveInFlightPacketBytes of packets that are not acknowledged yet leaves
\* the bytes of the others: it never goes below zero, and skipping a route
\* with nothing in flight is right.
LEMMA RemoveExact ==
  ASSUME TypeOK, InFlightExact, NEW S \in SUBSET DOMAIN history,
         \A s \in S : s > last_ack
  PROVE  RemoveInFlightPacketBytes(S)
           = [r \in AllPaths |-> DataSize(history, InFlightPackets(r) \ S)]
<1> SUFFICES ASSUME NEW r \in AllPaths
             PROVE  (IF in_flight[r] = 0 THEN 0
                     ELSE in_flight[r] - DataSize(history, SentOn(S, r)))
                      = DataSize(history, InFlightPackets(r) \ S)
  BY DEF RemoveInFlightPacketBytes
<1> DEFINE F == InFlightPackets(r)
           R == SentOn(S, r)
<1>1. IsFiniteSet(F)
  BY HistoryFinite
<1>2. R \in SUBSET F /\ F \ S = F \ R
  BY DEF InFlightPackets, SentOn
<1>3. in_flight[r] = DataSize(history, F)
  BY DEF InFlightExact
<1> HIDE DEF F, R
<1>4. IsFiniteSet(R)
  BY <1>1, <1>2, FS_Subset
<1>5. /\ DataSize(history, F \ R) = DataSize(history, F) - DataSize(history, R)
      /\ DataSize(history, R) <= DataSize(history, F)
  BY <1>1, <1>2, DataSizeDifference
<1>6. DataSize(history, F) \in Nat /\ DataSize(history, R) \in Nat
  BY <1>1, <1>4, DataSizeType
<1>7. (IF in_flight[r] = 0 THEN 0 ELSE in_flight[r] - DataSize(history, R))
        = DataSize(history, F \ R)
  BY <1>3, <1>5, <1>6
<1> QED BY <1>2, <1>7 DEF F, R

\* The invariant holds initially.
LEMMA InitIInv == Init => IInv
<1> SUFFICES ASSUME Init PROVE IInv
  OBVIOUS
<1>1. DOMAIN history = {} /\ DOMAIN rtp_to_transport = {}
  BY DEF Init
<1>2. TypeOK
  <2>1. InitialRoute \in NetworkRoute
    BY PathsAssumption DEF InitialRoute, NetworkRoute, AllPaths
  <2> QED BY <1>1, <2>1 DEF Init, TypeOK
<1>3. FeedbackOK
  BY DEF Init, FeedbackOK
<1>4. KeysOK
  BY <1>1 DEF Init, KeysOK
<1>5. RtpMapSound /\ RtpMapComplete /\ ReportedPacketsForgotten
  BY <1>1 DEF Init, RtpMapSound, RtpMapComplete, ReportedPacketsForgotten
<1>6. ASSUME NEW r \in AllPaths PROVE InFlightPackets(r) = {}
  BY <1>1 DEF InFlightPackets, SentOn
<1>7. InFlightExact
  BY <1>6, FS_EmptySet, DataSizeType DEF Init, InFlightExact
<1> QED BY <1>2, <1>3, <1>4, <1>5, <1>7 DEF IInv

(***************************************************************************)
(* Every step preserves the invariant, one lemma for each action.          *)
(***************************************************************************)

\* AddPacket: the packets that expire leave with their bytes and their keys,
\* and the new packet counts nothing until it is sent.
LEMMA AddPacketIInv ==
  ASSUME IInv, NEW key \in Keys, NEW size \in 1..MaxSize, AddPacket(key, size)
  PROVE  IInv'
<1> USE DEF IInv
<1> DEFINE packet == [creation_time |-> clock, sent |-> FALSE, size |-> size,
                      network_route |-> network_route, key |-> key]
           kept == DOMAIN history \ Expired
<1>1. /\ transport_seq \notin DOMAIN history
      /\ Expired \subseteq DOMAIN history
  BY DEF TypeOK, Expired
<1>2. /\ DOMAIN history' = kept \cup {transport_seq}
      /\ \A s \in kept : history'[s] = history[s]
      /\ history'[transport_seq] = packet
  BY <1>1 DEF AddPacket, Emplace, EraseSeqs
<1>3. transport_seq' = transport_seq + 1 /\ transport_seq \in Nat \ {0}
  BY DEF AddPacket, TypeOK
<1>4. /\ DOMAIN rtp_to_transport'
           \subseteq (DOMAIN rtp_to_transport \ {history[s].key : s \in Expired}) \cup {key}
      /\ \A k \in DOMAIN rtp_to_transport' :
           \/ /\ k \in DOMAIN rtp_to_transport \ {history[s].key : s \in Expired}
              /\ rtp_to_transport'[k] = rtp_to_transport[k]
           \/ k = key /\ rtp_to_transport'[k] = transport_seq
      /\ \A k \in DOMAIN rtp_to_transport \ {history[s].key : s \in Expired} :
           k \in DOMAIN rtp_to_transport' /\ rtp_to_transport'[k] = rtp_to_transport[k]
      /\ key \in DOMAIN rtp_to_transport'
  BY DEF AddPacket, Emplace, EraseKeys
<1>5. packet \in PacketFeedback
  BY DEF PacketFeedback, TypeOK
<1>6. in_flight' = [r \in AllPaths |->
                      DataSize(history, InFlightPackets(r) \ {s \in Expired : s > last_ack})]
  <2> DEFINE S == {s \in Expired : s > last_ack}
  <2>1. S \in SUBSET DOMAIN history /\ \A s \in S : s > last_ack
    BY <1>1
  <2>2. in_flight' = RemoveInFlightPacketBytes(S)
    BY DEF AddPacket
  <2> HIDE DEF S
  <2>3. RemoveInFlightPacketBytes(S) = [r \in AllPaths |-> DataSize(history, InFlightPackets(r) \ S)]
    BY <2>1, RemoveExact
  <2> QED BY <2>2, <2>3 DEF S
<1>7. TypeOK'
  <2>1. in_flight' \in [AllPaths -> Nat]
    <3>1. ASSUME NEW r \in AllPaths, NEW S
          PROVE  DataSize(history, InFlightPackets(r) \ S) \in Nat
      BY HistoryFinite, FS_Difference, DataSizeType, Zenon
    <3> QED BY <1>6, <3>1, Zenon
  <2>2. /\ DOMAIN history' \subseteq 1..transport_seq' - 1
        /\ \A s \in DOMAIN history' : history'[s] \in PacketFeedback
    <3>1. DOMAIN history \subseteq 1..transport_seq - 1
      BY DEF TypeOK
    <3>2. DOMAIN history' \subseteq 1..transport_seq' - 1
      BY <1>2, <1>3, <3>1
    <3>3. \A s \in DOMAIN history : history[s] \in PacketFeedback
      BY DEF TypeOK
    <3>4. \A s \in DOMAIN history' : history'[s] \in PacketFeedback
      BY <1>2, <1>5, <3>3, Zenon
    <3> QED BY <3>2, <3>4
  <2>3. /\ DOMAIN rtp_to_transport' \subseteq Keys
        /\ \A k \in DOMAIN rtp_to_transport' : rtp_to_transport'[k] \in 1..transport_seq' - 1
    BY <1>3, <1>4 DEF TypeOK
  <2>4. /\ last_ack' \in {-1} \cup 1..transport_seq' - 1
        /\ reported' \subseteq 1..transport_seq' - 1
    BY <1>3 DEF AddPacket, TypeOK
  <2>5. clock' \in Nat /\ network_route' \in NetworkRoute
    BY DEF AddPacket, TypeOK
  <2> QED BY <1>3, <2>1, <2>2, <2>3, <2>4, <2>5 DEF TypeOK
<1>8. FeedbackOK'
  BY DEF AddPacket, FeedbackOK
<1>9. KeysOK'
  <2>1. keys_sent' = Append(keys_sent, key)
    BY DEF AddPacket
  <2>2. keys_sent' \in Seq(Keys) /\ Len(keys_sent') = transport_seq' - 1
    BY <1>3, <2>1 DEF KeysOK
  <2>3. ASSUME NEW s \in DOMAIN history' PROVE history'[s].key = keys_sent'[s]
    <3>1. CASE s = transport_seq
      BY <1>2, <1>3, <2>1, <3>1 DEF KeysOK
    <3>2. CASE s \in kept
      <4>1. s \in 1..Len(keys_sent)
        BY <3>2 DEF TypeOK, KeysOK
      <4> QED BY <1>2, <2>1, <3>2, <4>1 DEF KeysOK
    <3> QED BY <1>2, <2>3, <3>1, <3>2
  <2> QED BY <2>2, <2>3 DEF KeysOK
<1>10. RtpMapSound'
  <2> SUFFICES ASSUME NEW k \in DOMAIN rtp_to_transport'
               PROVE  /\ rtp_to_transport'[k] \in DOMAIN history'
                      /\ history'[rtp_to_transport'[k]].key = k
    BY DEF RtpMapSound
  <2>1. CASE /\ k \in DOMAIN rtp_to_transport \ {history[s].key : s \in Expired}
             /\ rtp_to_transport'[k] = rtp_to_transport[k]
    BY <1>2, <2>1 DEF RtpMapSound
  <2>2. CASE k = key /\ rtp_to_transport'[k] = transport_seq
    BY <1>2, <2>2
  <2> QED BY <1>4, <2>1, <2>2
<1>11. RtpMapComplete'
  <2> SUFFICES ASSUME NEW s \in DOMAIN history',
                      \A t \in DOMAIN keys_sent' : keys_sent'[t] = history'[s].key => t = s
               PROVE  /\ history'[s].key \in DOMAIN rtp_to_transport'
                      /\ rtp_to_transport'[history'[s].key] = s
    BY DEF RtpMapComplete
  <2>1. /\ keys_sent' = Append(keys_sent, key)
        /\ DOMAIN keys_sent = 1..transport_seq - 1
        /\ DOMAIN keys_sent' = 1..transport_seq
        /\ \A t \in 1..transport_seq - 1 : keys_sent'[t] = keys_sent[t]
    BY <1>3 DEF AddPacket, KeysOK
  <2>2. \A t \in DOMAIN history : t \in 1..transport_seq - 1 /\ history[t].key = keys_sent[t]
    BY DEF KeysOK, TypeOK
  <2>3. CASE s = transport_seq
    <3>1. history'[s].key = key
      BY <1>2, <2>3
    <3>2. key \notin DOMAIN rtp_to_transport
      BY <1>3, <2>1, <2>2, <2>3, <3>1 DEF RtpMapSound
    <3> QED BY <1>4, <2>3, <3>1, <3>2
  <2>4. CASE s \in kept
    <3>1. history'[s] = history[s]
      BY <1>2, <2>4
    <3>2. \A t \in DOMAIN keys_sent : keys_sent[t] = history[s].key => t = s
      BY <1>3, <2>1, <3>1
    <3>3. /\ history[s].key \in DOMAIN rtp_to_transport
          /\ rtp_to_transport[history[s].key] = s
      BY <2>4, <3>2 DEF RtpMapComplete
    <3>4. history[s].key \notin {history[t].key : t \in Expired}
      BY <1>1, <2>1, <2>2, <2>4, <3>2
    <3> QED BY <1>4, <3>1, <3>3, <3>4
  <2> QED BY <1>2, <2>3, <2>4
<1>12. ReportedPacketsForgotten'
  <2>1. reported' = reported
    BY DEF AddPacket
  <2>2. transport_seq \notin reported
    BY <1>3 DEF TypeOK
  <2> QED BY <1>2, <2>1, <2>2 DEF ReportedPacketsForgotten
<1>13. InFlightExact'
  <2> SUFFICES ASSUME NEW r \in AllPaths
               PROVE  in_flight'[r] = DataSize(history', InFlightPackets(r)')
    BY DEF InFlightExact
  <2>0. last_ack' = last_ack /\ ~history'[transport_seq].sent
    BY <1>2 DEF AddPacket
  <2>1. InFlightPackets(r)' = InFlightPackets(r) \ {s \in Expired : s > last_ack}
    <3>1. InFlightPackets(r)' = {s \in DOMAIN history' : /\ history'[s].sent
                                                        /\ history'[s].network_route.path = r
                                                        /\ s > last_ack}
      BY <2>0 DEF InFlightPackets, SentOn
    <3>2. InFlightPackets(r)' = {s \in kept : /\ history[s].sent
                                              /\ history[s].network_route.path = r
                                              /\ s > last_ack}
      BY <1>2, <2>0, <3>1
    <3> QED BY <3>2 DEF InFlightPackets, SentOn
  <2>2. \A s \in InFlightPackets(r)' : history'[s].size = history[s].size
    BY <1>2, <2>1 DEF InFlightPackets, SentOn
  <2> QED BY <1>6, <2>1, <2>2, DataSizeSame
<1> QED BY <1>7, <1>8, <1>9, <1>10, <1>11, <1>12, <1>13

\* ProcessSentPacket: a packet enters the bytes in flight when it is sent for
\* the first time, unless feedback for it or a later packet came before.
LEMMA ProcessSentPacketIInv ==
  ASSUME IInv, NEW seq, ProcessSentPacket(seq)
  PROVE  IInv'
<1> USE DEF IInv
<1>0. UNCHANGED <<clock, transport_seq, rtp_to_transport, last_ack, network_route,
                  feedback, keys_sent, reported>>
  BY DEF ProcessSentPacket
<1>1. CASE seq \notin DOMAIN history
  <2>1. UNCHANGED <<history, in_flight>>
    BY <1>1 DEF ProcessSentPacket
  <2>2. TypeOK' /\ FeedbackOK' /\ KeysOK'
    BY <1>0, <2>1 DEF TypeOK, FeedbackOK, KeysOK, TransportCcInfo
  <2>3. RtpMapSound' /\ RtpMapComplete' /\ ReportedPacketsForgotten'
    BY <1>0, <2>1 DEF RtpMapSound, RtpMapComplete, ReportedPacketsForgotten
  <2>4. InFlightExact'
    BY <1>0, <2>1 DEF InFlightExact, InFlightPackets, SentOn
  <2> QED BY <2>2, <2>3, <2>4
<1>2. CASE seq \in DOMAIN history
  <2>1. /\ history' = [history EXCEPT ![seq].sent = TRUE]
        /\ in_flight' = IF ~history[seq].sent /\ seq > last_ack
                        THEN AddInFlightPacketBytes(seq) ELSE in_flight
    BY <1>2 DEF ProcessSentPacket
  <2>2. \A s \in DOMAIN history : history[s] \in PacketFeedback
    BY DEF TypeOK
  <2>3. /\ DOMAIN history' = DOMAIN history
        /\ \A s \in DOMAIN history : s /= seq => history'[s] = history[s]
        /\ history'[seq] = [history[seq] EXCEPT !.sent = TRUE]
    BY <1>2, <2>1
  <2>4. \A s \in DOMAIN history :
          /\ history'[s] \in PacketFeedback
          /\ history'[s].key = history[s].key
          /\ history'[s].size = history[s].size
          /\ history'[s].network_route = history[s].network_route
          /\ history'[s].sent <=> history[s].sent \/ s = seq
    <3>1. history[seq] \in PacketFeedback
      BY <1>2, <2>2
    <3>2. /\ history'[seq] \in PacketFeedback
          /\ history'[seq].key = history[seq].key
          /\ history'[seq].size = history[seq].size
          /\ history'[seq].network_route = history[seq].network_route
          /\ history'[seq].sent
      BY <2>3, <3>1, Zenon DEF PacketFeedback
    <3>3. \A s \in DOMAIN history : s /= seq =>
            history'[s] = history[s] /\ history'[s] \in PacketFeedback
      BY <2>2, <2>3
    <3> QED BY <3>2, <3>3
  <2>5. history[seq].size \in 1..MaxSize /\ history[seq].network_route.path \in AllPaths
    BY <1>2, <2>2 DEF PacketFeedback, NetworkRoute
  <2>6. ASSUME NEW r \in AllPaths
        PROVE  in_flight'[r] = DataSize(history', InFlightPackets(r)')
    <3>1. in_flight[r] = DataSize(history, InFlightPackets(r))
      BY DEF InFlightExact
    <3>2. \A T : T \subseteq DOMAIN history => DataSize(history', T) = DataSize(history, T)
      BY <2>4, DataSizeSame
    <3>3. InFlightPackets(r) \subseteq DOMAIN history
      BY DEF InFlightPackets, SentOn
    <3>4. CASE ~history[seq].sent /\ seq > last_ack /\ history[seq].network_route.path = r
      <4>1. InFlightPackets(r)' = InFlightPackets(r) \cup {seq}
        BY <1>0, <1>2, <2>3, <2>4, <3>4 DEF InFlightPackets, SentOn
      <4>2. seq \notin InFlightPackets(r)
        BY <3>4 DEF InFlightPackets, SentOn
      <4>3. DataSize(history, InFlightPackets(r) \cup {seq})
              = DataSize(history, InFlightPackets(r)) + history[seq].size
        BY <2>5, <4>2, HistoryFinite, DataSizeAdd
      <4>4. in_flight'[r] = in_flight[r] + history[seq].size
        BY <2>1, <3>4 DEF AddInFlightPacketBytes, TypeOK
      <4> QED BY <1>2, <3>1, <3>2, <3>3, <4>1, <4>3, <4>4
    <3>5. CASE ~(~history[seq].sent /\ seq > last_ack /\ history[seq].network_route.path = r)
      <4>1. InFlightPackets(r)' = InFlightPackets(r)
        BY <1>0, <2>3, <2>4, <3>5 DEF InFlightPackets, SentOn
      <4>2. in_flight'[r] = in_flight[r]
        BY <2>1, <3>5 DEF AddInFlightPacketBytes, TypeOK
      <4> QED BY <3>1, <3>2, <3>3, <4>1, <4>2
    <3> QED BY <3>4, <3>5
  <2>7. InFlightExact'
    BY <2>6 DEF InFlightExact
  <2>8. TypeOK'
    <3>1. in_flight' \in [AllPaths -> Nat]
      BY <2>1, <2>5, MaxSizeAssumption DEF AddInFlightPacketBytes, TypeOK
    <3> QED BY <1>0, <2>3, <2>4, <3>1 DEF TypeOK
  <2>9. FeedbackOK' /\ KeysOK'
    BY <1>0, <2>3, <2>4 DEF FeedbackOK, KeysOK, TransportCcInfo
  <2>10. RtpMapSound'
    BY <1>0, <2>3, <2>4 DEF RtpMapSound
  <2>11. RtpMapComplete'
    BY <1>0, <2>3, <2>4 DEF RtpMapComplete
  <2>12. ReportedPacketsForgotten'
    BY <1>0, <2>3 DEF ReportedPacketsForgotten
  <2> QED BY <2>7, <2>8, <2>9, <2>10, <2>11, <2>12
<1> QED BY <1>1, <1>2

\* What the invariant says of the packets depends on these variables only.
LEMMA SamePackets ==
  ASSUME IInv, FeedbackOK', TypeOK',
         UNCHANGED <<transport_seq, history, rtp_to_transport, last_ack, in_flight,
                     keys_sent, reported>>
  PROVE  IInv'
<1>1. KeysOK'
  BY DEF IInv, KeysOK
<1>2. RtpMapSound' /\ RtpMapComplete' /\ ReportedPacketsForgotten'
  BY DEF IInv, RtpMapSound, RtpMapComplete, ReportedPacketsForgotten
<1>3. InFlightExact'
  BY DEF IInv, InFlightExact, InFlightPackets, SentOn
<1> QED BY <1>1, <1>2, <1>3 DEF IInv

\* Starting on a message changes nothing but the message in progress.
LEMMA StartFeedbackIInv ==
  ASSUME IInv, NEW kind, NEW packets, StartFeedback(kind, packets),
         \/ kind = "ccfb" /\ packets \in Seq(CcfbInfo)
         \/ kind = "transport_cc" /\ packets \in Seq(TransportCcInfo)
  PROVE  IInv'
<1>1. UNCHANGED <<clock, transport_seq, history, rtp_to_transport, last_ack, in_flight,
                  network_route, keys_sent, reported>>
  BY DEF StartFeedback
<1>2. TypeOK'
  BY <1>1 DEF IInv, TypeOK
<1>3. FeedbackOK'
  <2>1. CASE packets = <<>>
    BY <2>1 DEF StartFeedback, FeedbackOK
  <2>2. CASE packets /= <<>>
    <3>1. feedback' = [kind |-> kind, todo |-> packets, results |-> <<>>,
                       supports_ecn |-> kind = "ccfb"]
      BY <2>2 DEF StartFeedback
    <3>2. <<>> \in Seq(Results)
      OBVIOUS
    <3> QED BY <1>1, <3>1, <3>2 DEF FeedbackOK, TransportCcInfo
  <2> QED BY <2>1, <2>2
<1> QED BY <1>1, <1>2, <1>3, SamePackets

\* RetrievePacketFeedback: an acknowledgement takes all packets up to the one
\* it names out of flight, and a packet that was received is forgotten
\* together with its key.
LEMMA RetrievePacketFeedbackIInv ==
  ASSUME IInv, NEW seq \in 1..transport_seq - 1, NEW received \in BOOLEAN,
         RetrievePacketFeedback(seq, received),
         UNCHANGED <<clock, transport_seq, network_route, keys_sent>>,
         reported' \subseteq reported \cup {seq},
         seq \in reported' \ reported => Found(seq) /\ received,
         FeedbackOK'
  PROVE  IInv'
<1> USE DEF IInv
<1> DEFINE erased == IF Found(seq) /\ received THEN {seq} ELSE {}
           erased_keys == IF Found(seq) /\ received THEN {history[seq].key} ELSE {}
<1>1. /\ DOMAIN history' = DOMAIN history \ erased
      /\ \A s \in DOMAIN history' : history'[s] = history[s]
  BY DEF RetrievePacketFeedback, EraseSeqs
<1>2. /\ DOMAIN rtp_to_transport' = DOMAIN rtp_to_transport \ erased_keys
      /\ \A k \in DOMAIN rtp_to_transport' : rtp_to_transport'[k] = rtp_to_transport[k]
  BY Zenon DEF RetrievePacketFeedback, EraseKeys
<1>3. last_ack' = IF seq > last_ack THEN seq ELSE last_ack
  BY DEF RetrievePacketFeedback
<1>4. last_ack \in Int /\ last_ack' \in Int /\ last_ack <= last_ack' /\ seq <= last_ack'
  BY <1>3 DEF TypeOK
<1>5. in_flight' = [r \in AllPaths |-> DataSize(history, InFlightPackets(r) \ NewlyAcked(seq))]
  <2>1. /\ NewlyAcked(seq) \in SUBSET DOMAIN history
        /\ \A s \in NewlyAcked(seq) : s > last_ack
    BY DEF NewlyAcked, TypeOK
  <2>2. RemoveInFlightPacketBytes(NewlyAcked(seq))
          = [r \in AllPaths |-> DataSize(history, InFlightPackets(r) \ NewlyAcked(seq))]
    BY <2>1, RemoveExact
  <2> QED BY <2>2 DEF RetrievePacketFeedback
<1>6. TypeOK'
  <2>1. in_flight' \in [AllPaths -> Nat]
    <3>1. ASSUME NEW r \in AllPaths
          PROVE  DataSize(history, InFlightPackets(r) \ NewlyAcked(seq)) \in Nat
      BY HistoryFinite, FS_Difference, DataSizeType, Zenon
    <3> QED BY <1>5, <3>1
  <2>2. last_ack' \in {-1} \cup 1..transport_seq' - 1
    BY <1>3 DEF TypeOK
  <2>3. reported' \subseteq 1..transport_seq' - 1
    BY DEF TypeOK
  <2> QED BY <1>1, <1>2, <2>1, <2>2, <2>3 DEF TypeOK
<1>7. KeysOK'
  BY <1>1 DEF KeysOK
<1>8. RtpMapSound'
  <2> SUFFICES ASSUME NEW k \in DOMAIN rtp_to_transport'
               PROVE  /\ rtp_to_transport'[k] \in DOMAIN history'
                      /\ history'[rtp_to_transport'[k]].key = k
    BY DEF RtpMapSound
  <2>1. /\ rtp_to_transport[k] \in DOMAIN history
        /\ history[rtp_to_transport[k]].key = k
        /\ rtp_to_transport'[k] = rtp_to_transport[k]
        /\ k \notin erased_keys
    BY <1>2 DEF RtpMapSound
  <2>2. rtp_to_transport[k] \notin erased
    BY <2>1
  <2> QED BY <1>1, <2>1, <2>2
<1>9. RtpMapComplete'
  <2> SUFFICES ASSUME NEW s \in DOMAIN history',
                      \A t \in DOMAIN keys_sent' : keys_sent'[t] = history'[s].key => t = s
               PROVE  /\ history'[s].key \in DOMAIN rtp_to_transport'
                      /\ rtp_to_transport'[history'[s].key] = s
    BY DEF RtpMapComplete
  <2>1. /\ s \in DOMAIN history
        /\ s \notin erased
        /\ history'[s] = history[s]
    BY <1>1
  <2>2. \A t \in DOMAIN keys_sent : keys_sent[t] = history[s].key => t = s
    BY <2>1
  <2>3. /\ history[s].key \in DOMAIN rtp_to_transport
        /\ rtp_to_transport[history[s].key] = s
    BY <2>1, <2>2 DEF RtpMapComplete
  <2>4. history[s].key \notin erased_keys
    <3>1. DOMAIN keys_sent = 1..transport_seq - 1
      BY DEF KeysOK, TypeOK
    <3>2. Found(seq) => history[seq].key = keys_sent[seq]
      BY DEF Found, KeysOK
    <3> QED BY <2>1, <2>2, <3>1, <3>2
  <2> QED BY <1>2, <2>1, <2>3, <2>4
<1>10. ReportedPacketsForgotten'
  BY <1>1 DEF ReportedPacketsForgotten
<1>11. InFlightExact'
  <2> SUFFICES ASSUME NEW r \in AllPaths
               PROVE  in_flight'[r] = DataSize(history', InFlightPackets(r)')
    BY DEF InFlightExact
  <2>0. \A s \in DOMAIN history : s \in Int
    BY DEF TypeOK
  <2>1. InFlightPackets(r)' = {s \in DOMAIN history' : /\ history'[s].sent
                                                      /\ history'[s].network_route.path = r
                                                      /\ s > last_ack'}
    BY DEF InFlightPackets, SentOn
  <2>2. InFlightPackets(r)' = {s \in DOMAIN history : /\ history[s].sent
                                                     /\ history[s].network_route.path = r
                                                     /\ s > last_ack'}
    BY <1>1, <1>4, <2>0, <2>1
  <2>3. InFlightPackets(r)' = InFlightPackets(r) \ NewlyAcked(seq)
    BY <1>3, <1>4, <2>0, <2>2 DEF InFlightPackets, SentOn, NewlyAcked
  <2>4. \A s \in InFlightPackets(r)' : history'[s].size = history[s].size
    BY <1>1, <2>1
  <2> QED BY <1>5, <2>3, <2>4, DataSizeSame
<1> QED BY <1>6, <1>7, <1>8, <1>9, <1>10, <1>11

\* One entry of a message.
LEMMA ProcessPacketInfoIInv ==
  ASSUME IInv, ProcessPacketInfo
  PROVE  IInv'
<1> DEFINE info   == Head(feedback.todo)
           seq    == LookUp(info)
           usable == /\ CanLookUp(info)
                     /\ Found(seq)
                     /\ OnCurrentRoute(seq)
           ecn    == IF feedback.kind = "ccfb" THEN info.ecn ELSE "NotEct"
           result == [seq |-> seq, received |-> info.received, ecn |-> ecn,
                      network_route |-> history[seq].network_route]
           results == IF usable THEN Append(feedback.results, result) ELSE feedback.results
           supports_ecn == feedback.supports_ecn /\ (usable /\ info.received => ecn /= "NotEct")
<1>1. UNCHANGED <<clock, transport_seq, network_route, keys_sent>>
  BY DEF ProcessPacketInfo
<1>2. /\ feedback /= NoFeedback
      /\ feedback.todo /= <<>>
      /\ feedback' = [feedback EXCEPT !.todo = Tail(@), !.results = results,
                                      !.supports_ecn = supports_ecn]
      /\ reported' = IF usable /\ info.received THEN reported \cup {seq} ELSE reported
  BY DEF ProcessPacketInfo
<1>3. /\ info.received \in BOOLEAN
      /\ CanLookUp(info) => seq \in 1..transport_seq - 1
      /\ ecn \in EcnMarking
  <2>1. CASE feedback.kind = "ccfb"
    <3>1. feedback.todo \in Seq(CcfbInfo)
      BY <1>2, <2>1 DEF IInv, FeedbackOK
    <3>2. info \in CcfbInfo
      BY <1>2, <3>1
    <3> QED BY <2>1, <3>2 DEF CcfbInfo, LookUp, CanLookUp, IInv, TypeOK
  <2>2. CASE feedback.kind /= "ccfb"
    <3>1. feedback.todo \in Seq(TransportCcInfo)
      BY <1>2, <2>2 DEF IInv, FeedbackOK
    <3>2. info \in TransportCcInfo
      BY <1>2, <3>1
    <3> QED BY <2>2, <3>2 DEF TransportCcInfo, LookUp, EcnMarking
  <2> QED BY <2>1, <2>2
<1>4. FeedbackOK'
  <2>1. usable => result \in Results
    <3>1. usable => /\ seq \in Int
                    /\ history[seq].network_route = network_route
                    /\ network_route \in NetworkRoute
      BY <1>3 DEF OnCurrentRoute, IInv, TypeOK
    <3> HIDE DEF usable, seq, info, ecn
    <3> QED BY <1>3, <3>1 DEF Results
  <2>2. feedback.results \in Seq(Results) /\ feedback.supports_ecn \in BOOLEAN
    BY <1>2 DEF IInv, FeedbackOK
  <2>3. results \in Seq(Results) /\ supports_ecn \in BOOLEAN
    BY <2>1, <2>2
  <2> HIDE DEF results, supports_ecn
  <2>4. TransportCcInfo' = TransportCcInfo
    BY <1>1 DEF TransportCcInfo
  <2>5. CASE feedback \in [kind : {"ccfb"}, todo : Seq(CcfbInfo),
                           results : Seq(Results), supports_ecn : BOOLEAN]
    <3>1. Tail(feedback.todo) \in Seq(CcfbInfo)
      BY <1>2, <2>5
    <3>2. feedback' = [kind |-> "ccfb", todo |-> Tail(feedback.todo),
                       results |-> results, supports_ecn |-> supports_ecn]
      BY <1>2, <2>5, Zenon
    <3> QED BY <2>3, <3>1, <3>2 DEF FeedbackOK
  <2>6. CASE feedback \in [kind : {"transport_cc"}, todo : Seq(TransportCcInfo),
                           results : Seq(Results), supports_ecn : BOOLEAN]
    <3>1. Tail(feedback.todo) \in Seq(TransportCcInfo)
      BY <1>2, <2>6
    <3>2. feedback' = [kind |-> "transport_cc", todo |-> Tail(feedback.todo),
                       results |-> results, supports_ecn |-> supports_ecn]
      BY <1>2, <2>6, Zenon
    <3> QED BY <2>3, <2>4, <3>1, <3>2 DEF FeedbackOK
  <2> QED BY <1>2, <2>5, <2>6 DEF IInv, FeedbackOK
<1>5. CASE CanLookUp(info)
  <2>1. RetrievePacketFeedback(seq, info.received)
    BY <1>5 DEF ProcessPacketInfo
  <2>2. /\ reported' \subseteq reported \cup {seq}
        /\ seq \in reported' \ reported => Found(seq) /\ info.received
    BY <1>2
  <2> HIDE DEF info, seq
  <2> QED BY <1>1, <1>3, <1>4, <1>5, <2>1, <2>2, RetrievePacketFeedbackIInv
<1>6. CASE ~CanLookUp(info)
  <2>1. UNCHANGED <<in_flight, last_ack, rtp_to_transport, history>>
    BY <1>6 DEF ProcessPacketInfo
  <2>2. UNCHANGED reported
    BY <1>2, <1>6
  <2>3. TypeOK'
    BY <1>1, <2>1, <2>2 DEF IInv, TypeOK
  <2> QED BY <1>1, <1>4, <2>1, <2>2, <2>3, SamePackets
<1> QED BY <1>5, <1>6

\* The remaining actions leave the packets alone.
LEMMA OtherStepsIInv ==
  ASSUME IInv,
         FinishFeedback \/ (\E route \in ConnectedRoutes : SetNetworkRoute(route)) \/ Tick
  PROVE  IInv'
<1>1. UNCHANGED <<transport_seq, history, rtp_to_transport, last_ack, in_flight,
                  keys_sent, reported>>
  BY DEF FinishFeedback, SetNetworkRoute, Tick
<1>2. TypeOK'
  <2>1. network_route' \in NetworkRoute
    BY DEF IInv, TypeOK, FinishFeedback, SetNetworkRoute, Tick, ConnectedRoutes,
           NetworkRoute, AllPaths
  <2>2. clock' \in Nat
    BY DEF IInv, TypeOK, FinishFeedback, SetNetworkRoute, Tick
  <2> QED BY <1>1, <2>1, <2>2 DEF IInv, TypeOK
<1>3. FeedbackOK'
  <2>1. feedback' \in {feedback, NoFeedback}
    BY DEF FinishFeedback, SetNetworkRoute, Tick
  <2>2. TransportCcInfo' = TransportCcInfo
    BY <1>1 DEF TransportCcInfo
  <2> QED BY <2>1, <2>2 DEF IInv, FeedbackOK
<1> QED BY <1>1, <1>2, <1>3, SamePackets

\* Every step of the adapter preserves the invariant.
LEMMA NextIInv == IInv /\ [Next]_adapterVars => IInv'
<1> SUFFICES ASSUME IInv, [Next]_adapterVars PROVE IInv'
  OBVIOUS
<1>1. CASE \E key \in Keys, size \in 1..MaxSize : AddPacket(key, size)
  BY <1>1, AddPacketIInv
<1>2. CASE \E seq \in 1..MaxPackets : ProcessSentPacket(seq)
  BY <1>2, ProcessSentPacketIInv
<1>3. CASE \E n \in 0..MaxReport : \E packets \in [1..n -> CcfbInfos] :
             ProcessCongestionControlFeedback(packets)
  <2>a. PICK n \in 0..MaxReport : \E packets \in [1..n -> CcfbInfos] :
          ProcessCongestionControlFeedback(packets)
    BY <1>3
  <2>1. PICK packets \in [1..n -> CcfbInfos] : StartFeedback("ccfb", packets)
    BY <2>a DEF ProcessCongestionControlFeedback
  <2>2. CcfbInfos \subseteq CcfbInfo
    BY EcnsAssumption, Zenon DEF CcfbInfos, CcfbInfo, EcnMarking
  <2>3. packets \in Seq(CcfbInfo)
    BY <2>1, <2>2, BoundsAssumption
  <2> QED BY <2>1, <2>3, StartFeedbackIInv
<1>4. CASE \E n \in 0..MaxReport : \E base \in 1..MaxPackets, flags \in [1..n -> BOOLEAN] :
             /\ base + n <= transport_seq
             /\ ProcessTransportFeedback(TransportCcPackets(base, flags))
  <2>a. PICK n \in 0..MaxReport :
          \E base \in 1..MaxPackets, flags \in [1..n -> BOOLEAN] :
             /\ base + n <= transport_seq
             /\ ProcessTransportFeedback(TransportCcPackets(base, flags))
    BY <1>4
  <2>1. PICK base \in 1..MaxPackets, flags \in [1..n -> BOOLEAN] :
          /\ base + n <= transport_seq
          /\ StartFeedback("transport_cc", TransportCcPackets(base, flags))
    BY <2>a DEF ProcessTransportFeedback
  <2>2. TransportCcPackets(base, flags) \in [1..n -> TransportCcInfo]
    <3>1. DOMAIN flags = 1..n
      OBVIOUS
    <3>2. ASSUME NEW i \in 1..n
          PROVE  [seq |-> base + i - 1, received |-> flags[i]] \in TransportCcInfo
      <4>1. base + i - 1 \in 1..transport_seq - 1
        BY <2>1, BoundsAssumption DEF IInv, TypeOK
      <4>2. flags[i] \in BOOLEAN
        OBVIOUS
      <4> QED BY <4>1, <4>2 DEF TransportCcInfo
    <3> QED BY <3>1, <3>2 DEF TransportCcPackets
  <2>3. TransportCcPackets(base, flags) \in Seq(TransportCcInfo)
    BY <2>2, BoundsAssumption
  <2> QED BY <2>1, <2>3, StartFeedbackIInv
<1>5. CASE ProcessPacketInfo
  BY <1>5, ProcessPacketInfoIInv
<1>6. CASE FinishFeedback \/ (\E route \in ConnectedRoutes : SetNetworkRoute(route)) \/ Tick
  BY <1>6, OtherStepsIInv
<1>7. CASE UNCHANGED adapterVars
  <2>1. TypeOK' /\ FeedbackOK'
    BY <1>7 DEF adapterVars, IInv, TypeOK, FeedbackOK, TransportCcInfo
  <2> QED BY <1>7, <2>1, SamePackets DEF adapterVars
<1> QED BY <1>1, <1>2, <1>3, <1>4, <1>5, <1>6, <1>7 DEF Next

(***************************************************************************)
(* The theorems.                                                           *)
(***************************************************************************)
\* The invariant holds in every state of every behaviour of the adapter.
THEOREM Invariance == Spec => []IInv
<1>1. Init => IInv
  BY InitIInv
<1>2. IInv /\ [Next]_adapterVars => IInv'
  BY NextIInv
<1> QED BY <1>1, <1>2, PTL DEF Spec

\* The adapter's maps and counters keep their types: history_ is keyed by
\* transport sequence numbers that were handed out, rtp_to_transport_sequence_
\* number_ leads to such numbers, and no in-flight counter becomes negative.
THEOREM TypeCorrect == Spec => []TypeOK
<1>1. IInv => TypeOK
  BY DEF IInv
<1> QED BY <1>1, Invariance, PTL

\* InFlightBytesTracker is exact for any number of packets, routes and sizes
\* and any history window: the RTC_DCHECK_GE of RemoveInFlightPacketBytes
\* cannot fail, and GetOutstandingData never drifts.
THEOREM InFlightIsExact == Spec => []InFlightExact
<1>1. IInv => InFlightExact
  BY DEF IInv
<1> QED BY <1>1, Invariance, PTL

\* The map from RTP packet identifiers never leads RFC 8888 feedback to a
\* packet with another SSRC or RTP sequence number, nor to an erased one.
THEOREM RtpMapIsSound == Spec => []RtpMapSound
<1>1. IInv => RtpMapSound
  BY DEF IInv
<1> QED BY <1>1, Invariance, PTL

\* RFC 8888 feedback finds every remembered packet whose SSRC and RTP
\* sequence number were used once.
THEOREM RtpMapIsComplete == Spec => []RtpMapComplete
<1>1. IInv => RtpMapComplete
  BY DEF IInv
<1> QED BY <1>1, Invariance, PTL

\* No packet is reported to the congestion controller after it was reported
\* as received.
THEOREM ReportedAreForgotten == Spec => []ReportedPacketsForgotten
<1>1. IInv => ReportedPacketsForgotten
  BY DEF IInv
<1> QED BY <1>1, Invariance, PTL

(***************************************************************************)
(* What the adapter returns.                                               *)
(***************************************************************************)
\* A result that may be handed to the congestion controller: of a packet that is
\* acknowledged, on the current route.
ResultOK(r, ack, route) ==
  r.seq <= ack /\ r.network_route = route

ResultsOK(rs, ack, route) == \A i \in DOMAIN rs : ResultOK(rs[i], ack, route)

\* No packet of rs arrived with its marking cleared.
MarkingKept(rs) == \A i \in DOMAIN rs : rs[i].received => rs[i].ecn /= "NotEct"

InSendOrder(rs) == \A i, j \in DOMAIN rs : i < j => rs[i].seq <= rs[j].seq

\* The message being processed: nothing is returned yet, the results so far may be
\* returned, and those of transport-cc feedback come in send order.
FeedbackProgress ==
  feedback /= NoFeedback =>
    /\ returned = Nullopt
    /\ ResultsOK(feedback.results, last_ack, network_route)
    /\ feedback.supports_ecn => MarkingKept(feedback.results)
    /\ feedback.kind = "transport_cc" =>
         /\ InSendOrder(feedback.todo)
         /\ InSendOrder(feedback.results)
         /\ \A i \in DOMAIN feedback.results, j \in DOMAIN feedback.todo :
              feedback.results[i].seq <= feedback.todo[j].seq

\* The inductive invariant of what is returned.
ReturnInv == IInv /\ FeedbackProgress /\ FeedbackConsistent

\* A call that returns nothing, or a send notification, while no message is processed.
LEMMA NothingReturned ==
  ASSUME IInv', feedback' = NoFeedback, returned'.kind /= "feedback"
  PROVE  ReturnInv'
  BY DEF ReturnInv, FeedbackProgress, FeedbackConsistent

\* A message that starts has no results yet.
LEMMA StartFeedbackReturns ==
  ASSUME IInv', NEW kind, NEW packets, StartFeedback(kind, packets),
         kind = "transport_cc" => InSendOrder(packets)
  PROVE  ReturnInv'
<1>1. returned' = Nullopt /\ returned'.kind /= "feedback"
  BY DEF StartFeedback, Nullopt
<1>2. CASE packets = <<>>
  BY <1>1, <1>2, NothingReturned DEF StartFeedback
<1>3. CASE packets /= <<>>
  <2>1. /\ feedback'.kind = kind /\ feedback'.todo = packets /\ feedback'.results = <<>>
    BY <1>3 DEF StartFeedback
  <2>2. DOMAIN <<>> = {}
    OBVIOUS
  <2>3. FeedbackProgress'
    BY <1>1, <2>1, <2>2 DEF FeedbackProgress, ResultsOK, MarkingKept, InSendOrder
  <2>4. QED
    BY <1>1, <2>3 DEF ReturnInv, FeedbackConsistent
<1>4. QED
  BY <1>2, <1>3

\* The entries of a transport-cc message are in send order.
LEMMA TransportCcInSendOrder ==
  ASSUME NEW base \in Nat, NEW n \in Nat, NEW flags \in [1..n -> BOOLEAN]
  PROVE  InSendOrder(TransportCcPackets(base, flags))
<1>1. DOMAIN flags = 1..n
  OBVIOUS
<1>2. \A i \in 1..n : TransportCcPackets(base, flags)[i].seq = base + i - 1
  BY <1>1 DEF TransportCcPackets
<1>3. DOMAIN TransportCcPackets(base, flags) = 1..n
  BY <1>1 DEF TransportCcPackets
<1>4. \A i, j \in 1..n : i < j => base + i - 1 <= base + j - 1
  OBVIOUS
<1>5. QED
  BY <1>2, <1>3, <1>4 DEF InSendOrder

\* One more result that may be returned.
LEMMA AppendResult ==
  ASSUME NEW rs \in Seq(Results), NEW r \in Results, NEW ack, NEW route
  PROVE  LET app == Append(rs, r)
         IN /\ (ResultsOK(rs, ack, route) /\ ResultOK(r, ack, route))
                 => ResultsOK(app, ack, route)
            /\ (MarkingKept(rs) /\ (r.received => r.ecn /= "NotEct")) => MarkingKept(app)
            /\ (InSendOrder(rs) /\ \A i \in DOMAIN rs : rs[i].seq <= r.seq)
                 => InSendOrder(app)
            /\ DOMAIN app = DOMAIN rs \cup {Len(rs) + 1}
            /\ app[Len(rs) + 1] = r
            /\ \A i \in DOMAIN rs : app[i] = rs[i]
<1> DEFINE app == Append(rs, r)
<1>1. /\ DOMAIN rs = 1..Len(rs) /\ DOMAIN app = 1..Len(rs) + 1 /\ Len(rs) \in Nat
      /\ app[Len(rs) + 1] = r
      /\ \A i \in 1..Len(rs) : app[i] = rs[i]
  OBVIOUS
<1> HIDE DEF app
<1>2. DOMAIN app = DOMAIN rs \cup {Len(rs) + 1}
  BY <1>1
<1>3. ASSUME ResultsOK(rs, ack, route), ResultOK(r, ack, route)
      PROVE  ResultsOK(app, ack, route)
  BY <1>1, <1>2, <1>3 DEF ResultsOK
<1>4. ASSUME MarkingKept(rs), r.received => r.ecn /= "NotEct" PROVE MarkingKept(app)
  BY <1>1, <1>2, <1>4 DEF MarkingKept
<1>5. ASSUME InSendOrder(rs), \A i \in DOMAIN rs : rs[i].seq <= r.seq PROVE InSendOrder(app)
  <2> SUFFICES ASSUME NEW i \in DOMAIN app, NEW j \in DOMAIN app, i < j
               PROVE  app[i].seq <= app[j].seq
    BY DEF InSendOrder
  <2>1. i \in 1..Len(rs)
    BY <1>1
  <2>2. CASE j \in 1..Len(rs)
    BY <1>1, <1>5, <2>1, <2>2 DEF InSendOrder
  <2>3. CASE j = Len(rs) + 1
    BY <1>1, <1>5, <2>1, <2>3
  <2>4. QED
    BY <1>1, <1>2, <2>2, <2>3
<1>6. QED
  BY <1>1, <1>2, <1>3, <1>4, <1>5 DEF app

\* Acknowledging a packet never moves the last acknowledged one back.
LEMMA AckGrows ==
  ASSUME IInv, NEW seq \in 1..transport_seq - 1, NEW received, RetrievePacketFeedback(seq, received)
  PROVE  /\ last_ack' \in Int /\ last_ack \in Int /\ last_ack <= last_ack' /\ seq <= last_ack'
<1>1. last_ack \in Int /\ transport_seq \in Nat
  BY DEF IInv, TypeOK
<1>2. last_ack' = IF seq > last_ack THEN seq ELSE last_ack
  BY DEF RetrievePacketFeedback
<1>3. QED
  BY <1>1, <1>2

\* Taking the first entry off a list that is in send order.
LEMMA TailInSendOrder ==
  ASSUME NEW S, NEW s \in Seq(S), s /= <<>>
  PROVE  /\ DOMAIN Tail(s) = 1..Len(s) - 1 /\ DOMAIN s = 1..Len(s)
         /\ Len(s) \in Nat /\ 1 <= Len(s)
         /\ Head(s) = s[1]
         /\ \A i \in DOMAIN Tail(s) : Tail(s)[i] = s[i + 1] /\ i + 1 \in DOMAIN s
         /\ InSendOrder(s) => InSendOrder(Tail(s))
         /\ InSendOrder(s) => \A i \in DOMAIN Tail(s) : Head(s).seq <= Tail(s)[i].seq
<1> DEFINE t == Tail(s)
<1>1. /\ DOMAIN t = 1..Len(s) - 1 /\ DOMAIN s = 1..Len(s)
      /\ Len(s) \in Nat /\ 1 <= Len(s) /\ Head(s) = s[1]
      /\ \A i \in DOMAIN t : t[i] = s[i + 1]
  OBVIOUS
<1> HIDE DEF t
<1>2. \A i \in DOMAIN t : i + 1 \in DOMAIN s /\ 1 \in DOMAIN s /\ 1 < i + 1
  BY <1>1
<1>3. \A i, j \in DOMAIN t : i < j => i + 1 < j + 1
  BY <1>1
<1>4. InSendOrder(s) => InSendOrder(t)
  BY <1>1, <1>2, <1>3 DEF InSendOrder
<1>5. InSendOrder(s) => \A i \in DOMAIN t : s[1].seq <= t[i].seq
  BY <1>1, <1>2 DEF InSendOrder
<1>6. QED
  BY <1>1, <1>2, <1>4, <1>5 DEF t

\* One entry of a message: at most one more result, for the packet it names.
LEMMA ProcessPacketInfoReturns ==
  ASSUME ReturnInv, IInv', ProcessPacketInfo
  PROVE  ReturnInv'
<1> DEFINE info   == Head(feedback.todo)
           seq    == LookUp(info)
           usable == /\ CanLookUp(info)
                     /\ Found(seq)
                     /\ OnCurrentRoute(seq)
           ecn    == IF feedback.kind = "ccfb" THEN info.ecn ELSE "NotEct"
           result == [seq |-> seq, received |-> info.received, ecn |-> ecn,
                      network_route |-> history[seq].network_route]
           rs     == feedback.results
           todo   == feedback.todo
           results == IF usable THEN Append(rs, result) ELSE rs
           supports_ecn == feedback.supports_ecn /\ (usable /\ info.received => ecn /= "NotEct")
<1>1. UNCHANGED <<network_route, returned>>
  BY DEF ProcessPacketInfo
<1>2. /\ feedback /= NoFeedback
      /\ todo /= <<>>
      /\ feedback' = [feedback EXCEPT !.todo = Tail(@), !.results = results,
                                      !.supports_ecn = supports_ecn]
  BY DEF ProcessPacketInfo
<1>3. /\ feedback'.kind = feedback.kind /\ feedback'.todo = Tail(todo)
      /\ feedback'.results = results /\ feedback'.supports_ecn = supports_ecn
  <2> HIDE DEF results, supports_ecn
  <2>1. CASE feedback \in [kind : {"ccfb"}, todo : Seq(CcfbInfo),
                           results : Seq(Results), supports_ecn : BOOLEAN]
    BY <1>2, <2>1
  <2>2. CASE feedback \in [kind : {"transport_cc"}, todo : Seq(TransportCcInfo),
                           results : Seq(Results), supports_ecn : BOOLEAN]
    BY <1>2, <2>2
  <2>3. QED
    BY <1>2, <2>1, <2>2 DEF ReturnInv, IInv, FeedbackOK
<1>4. /\ info.received \in BOOLEAN
      /\ CanLookUp(info) => seq \in 1..transport_seq - 1
      /\ ecn \in EcnMarking
      /\ feedback.kind = "transport_cc" => todo \in Seq(TransportCcInfo) /\ seq = info.seq
  <2>1. CASE feedback.kind = "ccfb"
    <3>1. todo \in Seq(CcfbInfo)
      BY <1>2, <2>1 DEF ReturnInv, IInv, FeedbackOK
    <3>2. info \in CcfbInfo
      BY <1>2, <3>1
    <3> QED BY <2>1, <3>2 DEF CcfbInfo, LookUp, CanLookUp, ReturnInv, IInv, TypeOK
  <2>2. CASE feedback.kind /= "ccfb"
    <3>1. todo \in Seq(TransportCcInfo)
      BY <1>2, <2>2 DEF ReturnInv, IInv, FeedbackOK
    <3>2. info \in TransportCcInfo
      BY <1>2, <3>1
    <3> QED BY <2>2, <3>1, <3>2 DEF TransportCcInfo, LookUp, EcnMarking
  <2>3. QED
    BY <2>1, <2>2
<1>5. rs \in Seq(Results)
  BY <1>2 DEF ReturnInv, IInv, FeedbackOK
<1>6. /\ last_ack' \in Int /\ last_ack \in Int /\ last_ack <= last_ack'
      /\ usable => seq <= last_ack'
  <2>1. CASE CanLookUp(info)
    <3>1. RetrievePacketFeedback(seq, info.received)
      BY <2>1 DEF ProcessPacketInfo
    <3>2. seq \in 1..transport_seq - 1
      BY <1>4, <2>1
    <3> HIDE DEF info, seq
    <3> QED BY <3>1, <3>2, AckGrows DEF ReturnInv
  <2>2. CASE ~CanLookUp(info)
    <3>1. UNCHANGED last_ack
      BY <2>2 DEF ProcessPacketInfo
    <3>2. last_ack \in Int
      BY DEF ReturnInv, IInv, TypeOK
    <3> QED BY <2>2, <3>1, <3>2
  <2>3. QED
    BY <2>1, <2>2
<1>7. usable => result \in Results /\ result.seq = seq /\ result.received = info.received
                 /\ result.ecn = ecn /\ result.network_route = network_route
  <2>1. transport_seq \in Nat /\ network_route \in NetworkRoute
    BY DEF ReturnInv, IInv, TypeOK
  <2>2. usable => /\ seq \in Int /\ info.received \in BOOLEAN /\ ecn \in EcnMarking
                  /\ history[seq].network_route = network_route
    BY <1>4, <2>1 DEF OnCurrentRoute
  <2> HIDE DEF usable, seq, info, ecn
  <2>3. QED
    BY <2>1, <2>2 DEF Results
<1>8. usable => ResultOK(result, last_ack', network_route')
  BY <1>1, <1>6, <1>7, Zenon DEF ResultOK
<1>9. ResultsOK(rs, last_ack', network_route')
  <2>1. ResultsOK(rs, last_ack, network_route)
    BY <1>2 DEF ReturnInv, FeedbackProgress
  <2> HIDE DEF rs
  <2>a. \A i \in DOMAIN rs : rs[i] \in Results
    BY <1>5
  <2>2. \A i \in DOMAIN rs : rs[i].seq \in Int
    BY <2>a DEF Results
  <2>3. QED
    BY <1>1, <1>6, <2>1, <2>2 DEF ResultsOK, ResultOK
<1>10. ResultsOK(results, last_ack', network_route')
  <2>1. CASE usable
    <3> HIDE DEF rs, result, usable
    <3> QED BY <1>5, <1>7, <1>8, <1>9, <2>1, AppendResult
  <2>2. CASE ~usable
    BY <1>9, <2>2
  <2>3. QED
    BY <2>1, <2>2
<1>11. supports_ecn => MarkingKept(results)
  <2> SUFFICES ASSUME supports_ecn PROVE MarkingKept(results)
    OBVIOUS
  <2>1. MarkingKept(rs)
    BY <1>2 DEF ReturnInv, FeedbackProgress
  <2>2. CASE usable
    <3>1. result.received => result.ecn /= "NotEct"
      BY <1>7, <2>2, Zenon
    <3> HIDE DEF rs, result, usable, supports_ecn
    <3> QED BY <1>5, <1>7, <2>1, <2>2, <3>1, AppendResult, Zenon
  <2>3. CASE ~usable
    BY <2>1, <2>3
  <2>4. QED
    BY <2>2, <2>3
<1>12. ASSUME feedback.kind = "transport_cc"
       PROVE  /\ InSendOrder(Tail(todo))
              /\ InSendOrder(results)
              /\ \A i \in DOMAIN results, j \in DOMAIN Tail(todo) :
                   results[i].seq <= Tail(todo)[j].seq
  <2>1. /\ InSendOrder(todo) /\ InSendOrder(rs)
        /\ \A i \in DOMAIN rs, j \in DOMAIN todo : rs[i].seq <= todo[j].seq
    BY <1>2, <1>12 DEF ReturnInv, FeedbackProgress
  <2>2. todo \in Seq(TransportCcInfo) /\ seq = Head(todo).seq
    BY <1>4, <1>12
  <2> HIDE DEF todo, rs, seq, usable, info
  <2>3. /\ DOMAIN Tail(todo) = 1..Len(todo) - 1 /\ DOMAIN todo = 1..Len(todo)
        /\ Len(todo) \in Nat /\ 1 <= Len(todo) /\ Head(todo) = todo[1]
        /\ \A i \in DOMAIN Tail(todo) : Tail(todo)[i] = todo[i + 1] /\ i + 1 \in DOMAIN todo
        /\ InSendOrder(Tail(todo))
        /\ \A i \in DOMAIN Tail(todo) : Head(todo).seq <= Tail(todo)[i].seq
    BY <1>2, <2>1, <2>2, TailInSendOrder
  <2>4. \A i \in DOMAIN rs, j \in DOMAIN Tail(todo) : rs[i].seq <= Tail(todo)[j].seq
    BY <2>1, <2>3
  <2>5. CASE ~usable
    BY <2>1, <2>3, <2>4, <2>5
  <2>6. CASE usable
    <3>1. \A i \in DOMAIN rs : rs[i].seq <= result.seq
      BY <1>7, <2>1, <2>2, <2>3, <2>6
    <3>2. result.seq = Head(todo).seq
      BY <1>7, <2>2, <2>6
    <3> DEFINE app == Append(rs, result)
    <3> HIDE DEF result
    <3>3. /\ InSendOrder(app) /\ DOMAIN app = DOMAIN rs \cup {Len(rs) + 1}
          /\ app[Len(rs) + 1] = result /\ \A i \in DOMAIN rs : app[i] = rs[i]
      BY <1>5, <1>7, <2>1, <2>6, <3>1, AppendResult, Zenon
    <3>4. results = app
      BY <2>6
    <3> HIDE DEF app, results
    <3> QED BY <2>3, <2>4, <3>2, <3>3, <3>4
  <2>7. QED
    BY <2>5, <2>6
<1>13. returned' = Nullopt
  BY <1>1, <1>2 DEF ReturnInv, FeedbackProgress
<1> HIDE DEF results, supports_ecn, todo
<1>14. FeedbackProgress'
  BY <1>3, <1>10, <1>11, <1>12, <1>13 DEF FeedbackProgress
<1>15. FeedbackConsistent'
  BY <1>13 DEF FeedbackConsistent, Nullopt
<1>16. QED
  BY <1>14, <1>15 DEF ReturnInv

\* The report that is returned is a rearrangement of the results, in send order.
LEMMA FinishedReport ==
  ASSUME ReturnInv, FinishFeedback
  PROVE  \E sorted :
           /\ returned' = ToTransportFeedback(sorted)
           /\ ResultsOK(sorted, last_ack, network_route)
           /\ feedback.supports_ecn => MarkingKept(sorted)
           /\ InSendOrder(sorted)
           /\ sorted \in Seq(Results)
           /\ \A i \in DOMAIN sorted : \E j \in DOMAIN feedback.results :
                sorted[i] = feedback.results[j]
<1> DEFINE rs == feedback.results
<1>1. /\ ResultsOK(rs, last_ack, network_route)
      /\ feedback.supports_ecn => MarkingKept(rs)
      /\ feedback.kind = "transport_cc" => InSendOrder(rs)
      /\ rs \in Seq(Results)
  BY DEF ReturnInv, FeedbackProgress, FinishFeedback, IInv, FeedbackOK
<1>2. CASE feedback.kind = "ccfb"
  <2>1. PICK sorted \in Sortings(rs) : returned' = ToTransportFeedback(sorted)
    BY <1>2 DEF FinishFeedback
  <2> HIDE DEF rs
  <2>2. PICK p \in [DOMAIN rs -> DOMAIN rs] : sorted = [i \in DOMAIN rs |-> rs[p[i]]]
    BY <2>1 DEF Sortings
  <2>3. DOMAIN sorted = DOMAIN rs
    BY <2>2
  <2>4. \A i \in DOMAIN sorted : p[i] \in DOMAIN rs /\ sorted[i] = rs[p[i]]
    BY <2>2
  <2>5. InSendOrder(sorted)
    BY <2>1, <2>3 DEF Sortings, InSendOrder
  <2>6. ResultsOK(sorted, last_ack, network_route)
    BY <1>1, <2>4 DEF ResultsOK
  <2>7. feedback.supports_ecn => MarkingKept(sorted)
    BY <1>1, <2>4, Zenon DEF MarkingKept
  <2>8. sorted \in Seq(Results)
    <3>1. DOMAIN rs = 1..Len(rs) /\ Len(rs) \in Nat /\ \A i \in DOMAIN rs : rs[i] \in Results
      BY <1>1
    <3>2. sorted \in [1..Len(rs) -> Results]
      BY <2>2, <2>4, <3>1
    <3>3. QED
      BY <3>1, <3>2
  <2>9. QED
    BY <2>1, <2>4, <2>5, <2>6, <2>7, <2>8 DEF rs
<1>3. CASE feedback.kind /= "ccfb"
  <2>1. returned' = ToTransportFeedback(rs)
    BY <1>3 DEF FinishFeedback
  <2>2. feedback.kind = "transport_cc"
    BY <1>3 DEF FinishFeedback, ReturnInv, IInv, FeedbackOK
  <2>3. QED
    BY <1>1, <2>1, <2>2
<1>4. QED
  BY <1>2, <1>3

\* The end of a message: its report is consistent with the state it leaves.
LEMMA FinishFeedbackReturns ==
  ASSUME ReturnInv, IInv', FinishFeedback
  PROVE  ReturnInv'
<1>1. UNCHANGED <<history, last_ack, in_flight, network_route>> /\ feedback' = NoFeedback
  BY DEF FinishFeedback
<1>2. PICK sorted :
        /\ returned' = ToTransportFeedback(sorted)
        /\ ResultsOK(sorted, last_ack, network_route)
        /\ feedback.supports_ecn => MarkingKept(sorted)
        /\ InSendOrder(sorted)
  BY FinishedReport
<1>3. CASE sorted = <<>>
  <2>1. returned'.kind /= "feedback"
    BY <1>2, <1>3 DEF ToTransportFeedback, Nullopt
  <2>2. QED
    BY <1>1, <2>1, NothingReturned
<1>4. CASE sorted /= <<>>
  <2>1. /\ returned'.packet_feedbacks = sorted
        /\ returned'.data_in_flight = in_flight[network_route.path]
        /\ returned'.supports_ecn = feedback.supports_ecn
    BY <1>2, <1>4 DEF ToTransportFeedback, GetOutstandingData
  <2>2. network_route'.path \in AllPaths
    BY DEF IInv, TypeOK, NetworkRoute
  <2>3. returned'.data_in_flight = DataSize(history', InFlightPackets(network_route.path)')
    BY <1>1, <2>1, <2>2 DEF IInv, InFlightExact
  <2>4. FeedbackConsistent'
    BY <1>1, <1>2, <1>4, <2>1, <2>3
    DEF FeedbackConsistent, ResultsOK, ResultOK, MarkingKept, InSendOrder
  <2>5. QED
    BY <1>1, <2>4 DEF ReturnInv, FeedbackProgress
<1>5. QED
  BY <1>3, <1>4

\* Every step keeps what is returned consistent.
LEMMA NextReturns == ReturnInv /\ [Next]_adapterVars => ReturnInv'
<1> SUFFICES ASSUME ReturnInv, [Next]_adapterVars PROVE ReturnInv'
  OBVIOUS
<1>1. IInv'
  BY NextIInv DEF ReturnInv
<1>2. CASE \E key \in Keys, size \in 1..MaxSize : AddPacket(key, size)
  BY <1>1, <1>2, NothingReturned DEF AddPacket, Nullopt
<1>3. CASE \E seq \in 1..MaxPackets : ProcessSentPacket(seq)
  <2>1. feedback' = NoFeedback
    BY <1>3 DEF ProcessSentPacket
  <2>2. returned'.kind \in {"sent", "nullopt"}
    BY <1>3 DEF ProcessSentPacket, Nullopt
  <2>3. QED
    BY <1>1, <2>1, <2>2, NothingReturned
<1>4. CASE \E n \in 0..MaxReport : \E packets \in [1..n -> CcfbInfos] :
             ProcessCongestionControlFeedback(packets)
  <2>1. PICK packets : StartFeedback("ccfb", packets)
    BY <1>4 DEF ProcessCongestionControlFeedback
  <2>2. QED
    BY <1>1, <2>1, StartFeedbackReturns
<1>5. CASE \E n \in 0..MaxReport : \E base \in 1..MaxPackets, flags \in [1..n -> BOOLEAN] :
             /\ base + n <= transport_seq
             /\ ProcessTransportFeedback(TransportCcPackets(base, flags))
  <2>1. PICK n \in 0..MaxReport :
          \E base \in 1..MaxPackets, flags \in [1..n -> BOOLEAN] :
             /\ base + n <= transport_seq
             /\ ProcessTransportFeedback(TransportCcPackets(base, flags))
    BY <1>5
  <2>2. PICK base \in 1..MaxPackets, flags \in [1..n -> BOOLEAN] :
          StartFeedback("transport_cc", TransportCcPackets(base, flags))
    BY <2>1 DEF ProcessTransportFeedback
  <2>3. base \in Nat /\ n \in Nat
    BY BoundsAssumption
  <2>4. InSendOrder(TransportCcPackets(base, flags))
    BY <2>3, TransportCcInSendOrder
  <2>5. QED
    BY <1>1, <2>2, <2>4, StartFeedbackReturns
<1>6. CASE ProcessPacketInfo
  BY <1>1, <1>6, ProcessPacketInfoReturns
<1>7. CASE FinishFeedback
  BY <1>1, <1>7, FinishFeedbackReturns
<1>8. CASE \E route \in ConnectedRoutes : SetNetworkRoute(route)
  BY <1>1, <1>8, NothingReturned DEF SetNetworkRoute, Nullopt
<1>9. CASE Tick \/ UNCHANGED adapterVars
  <2>1. UNCHANGED <<history, last_ack, network_route, feedback, returned>>
    BY <1>9 DEF Tick, adapterVars
  <2>2. FeedbackProgress' /\ FeedbackConsistent'
    BY <2>1, Zenon DEF ReturnInv, FeedbackProgress, FeedbackConsistent, InFlightPackets, SentOn
  <2>3. QED
    BY <1>1, <2>2 DEF ReturnInv
<1>10. QED
  BY <1>2, <1>3, <1>4, <1>5, <1>6, <1>7, <1>8, <1>9 DEF Next

\* Whatever order sending, notifications, route changes and feedback come in, every
\* TransportPacketsFeedback that ProcessCongestionControlFeedback and
\* ProcessTransportFeedback return is in send order, speaks of acknowledged packets
\* of the current route only, claims ECN support only if no marking was cleared and
\* carries the bytes in flight after all its acknowledgements.
THEOREM FeedbackIsConsistent == Spec => []FeedbackConsistent
<1>1. Init => ReturnInv
  <2> SUFFICES ASSUME Init PROVE ReturnInv
    OBVIOUS
  <2>1. feedback = NoFeedback /\ returned.kind /= "feedback"
    BY DEF Init, Nullopt
  <2>2. QED
    BY <2>1, InitIInv, Zenon DEF ReturnInv, FeedbackProgress, FeedbackConsistent
<1>2. ReturnInv /\ [Next]_adapterVars => ReturnInv'
  BY NextReturns
<1>3. ReturnInv => FeedbackConsistent
  BY DEF ReturnInv
<1> QED BY <1>1, <1>2, <1>3, PTL DEF Spec
====
