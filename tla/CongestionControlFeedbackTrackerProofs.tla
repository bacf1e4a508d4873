---- MODULE CongestionControlFeedbackTrackerProofs ----
(***************************************************************************)
(* What the operators of CongestionControlFeedbackTracker compute: the     *)
(* sort, the copies of a packet, and the loop of AddPacketsToFeedback, for *)
(* any packets and any limit.                                              *)
(*                                                                         *)
(* Induction goes by least counterexamples (LeastNat).                     *)
(***************************************************************************)
EXTENDS CongestionControlFeedbackTracker, WellFoundedInduction, FiniteSetTheorems, TLAPS

\* A set of natural numbers that is not empty has a least element.
LEMMA LeastNat ==
  ASSUME NEW T \in SUBSET Nat, T # {}
  PROVE  \E n \in T : \A m \in T : n <= m
<1> DEFINE R == OpToRel(<, Nat)
<1>1. IsWellFoundedOn(R, Nat)
  BY NatLessThanWellFounded
<1>2. \A x, y \in Nat : x < y => <<x, y>> \in R
  BY DEF OpToRel
<1> HIDE DEF R
<1>3. PICK n \in T : \A m \in T : ~ (<<m, n>> \in R)
  BY <1>1, WFMin
<1>4. \A m \in T : ~(m < n)
  BY <1>2, <1>3, Zenon
<1>5. \A m \in T : n <= m
  BY <1>4, SMT
<1>6. QED
  BY <1>5

\* The types of the packets of a tracker.
LEMMA PacketTypes ==
  ASSUME NEW s \in Seq(PacketInfo)
  PROVE  /\ Len(s) \in Nat /\ DOMAIN s = 1 .. Len(s)
         /\ \A i \in 1 .. Len(s) : s[i].seq \in Nat /\ s[i].arrival_time \in Nat
<1>1. Len(s) \in Nat /\ DOMAIN s = 1 .. Len(s) /\ \A i \in 1 .. Len(s) : s[i] \in PacketInfo
  OBVIOUS
<1>2. \A p \in PacketInfo : p.seq \in Nat /\ p.arrival_time \in Nat
  BY DEF PacketInfo
<1>3. QED
  BY <1>1, <1>2

----
(***************************************************************************)
(* The sort                                                                *)
(***************************************************************************)
\* s is packets in the order of their sequence numbers, and of arrival for the copies
\* of one packet.
InOrder(s) ==
  \A i, j \in DOMAIN s : i < j =>
     \/ s[i].seq < s[j].seq
     \/ s[i].seq = s[j].seq /\ s[i].arrival_time <= s[j].arrival_time

\* A function from a finite set into itself that never takes a value twice takes all.
LEMMA InjectionOnto ==
  ASSUME NEW I, IsFiniteSet(I), NEW f \in [I -> I],
         \A i, j \in I : i /= j => f[i] /= f[j]
  PROVE  \A k \in I : \E i \in I : f[i] = k
<1> DEFINE J == {f[i] : i \in I}
<1>1. f \in Bijection(I, J)
  BY DEF Bijection, Injection, Surjection, IsInjective
<1>2. ExistsBijection(I, J)
  BY <1>1 DEF ExistsBijection
<1>3. J \subseteq I
  OBVIOUS
<1> HIDE DEF J
<1>4. IsFiniteSet(J) /\ Cardinality(J) = Cardinality(I)
  BY <1>2, <1>3, FS_Subset, FS_Bijection
<1>5. J = I
  BY <1>3, <1>4, FS_Subset
<1>6. QED
  BY <1>5 DEF J

\* The outcome of the sort has the packets that were there, in order.
LEMMA SortedFacts ==
  ASSUME NEW packets \in Seq(PacketInfo), NEW s \in Sorted(packets)
  PROVE  /\ s \in Seq(PacketInfo)
         /\ Len(s) = Len(packets)
         /\ InOrder(s)
         /\ \A i \in 1 .. Len(s) : \E k \in 1 .. Len(s) : s[i] = packets[k]
         /\ \A k \in 1 .. Len(s) : \E i \in 1 .. Len(s) : s[i] = packets[k]
<1> DEFINE I == DOMAIN packets
<1>1. I = 1 .. Len(packets) /\ Len(packets) \in Nat
  OBVIOUS
<1>2. PICK f \in [I -> I] : /\ \A i, j \in I : i /= j => f[i] /= f[j]
                            /\ s = [i \in I |-> packets[f[i]]]
  BY DEF Sorted
<1>3. IsFiniteSet(I)
  BY <1>1, FS_Interval
<1>4. \A k \in I : \E i \in I : f[i] = k
  BY <1>2, <1>3, InjectionOnto
<1>5. s \in [I -> PacketInfo]
  BY <1>1, <1>2
<1>6. s \in Seq(PacketInfo) /\ Len(s) = Len(packets)
  BY <1>1, <1>5
<1>7. InOrder(s)
  BY <1>5 DEF Sorted, InOrder
<1>8. QED
  BY <1>1, <1>2, <1>4, <1>6, <1>7

\* The sequence numbers of packets in order grow.
LEMMA InOrderGrows ==
  ASSUME NEW s \in Seq(PacketInfo), InOrder(s)
  PROVE  \A i, j \in 1 .. Len(s) : i <= j => s[i].seq <= s[j].seq
<1> SUFFICES ASSUME NEW i \in 1 .. Len(s), NEW j \in 1 .. Len(s), i <= j
             PROVE  s[i].seq <= s[j].seq
  OBVIOUS
<1>1. /\ DOMAIN s = 1 .. Len(s) /\ s[i].seq \in Nat /\ s[j].seq \in Nat
      /\ Len(s) \in Nat
  BY PacketTypes
<1>2. CASE i = j
  BY <1>1, <1>2
<1>3. CASE i < j
  <2>1. s[i].seq < s[j].seq \/ s[i].seq = s[j].seq
    BY <1>1, <1>3 DEF InOrder
  <2>2. QED
    BY <1>1, <2>1
<1>4. QED
  BY <1>1, <1>2, <1>3

\* packet_it moves past the copies of the packet it points to, and past nothing else.
LEMMA AfterCopiesFacts ==
  ASSUME NEW s \in Seq(PacketInfo), InOrder(s), NEW it \in 1 .. Len(s)
  PROVE  LET end == AfterCopies(s, it)
         IN /\ end \in it + 1 .. Len(s) + 1
            /\ \A i \in it .. end - 1 : s[i].seq = s[it].seq
            /\ \A i \in end .. Len(s) : s[i].seq > s[it].seq
<1> DEFINE T == {e \in it + 1 .. Len(s) + 1 : e <= Len(s) => s[e].seq /= s[it].seq}
<1>1. Len(s) \in Nat /\ DOMAIN s = 1 .. Len(s) /\ \A i \in 1 .. Len(s) : s[i].seq \in Nat
  BY PacketTypes
<1>2. T \in SUBSET Nat /\ Len(s) + 1 \in T
  BY <1>1
<1>3. PICK end \in T : \A m \in T : end <= m
  BY <1>2, LeastNat
<1>4. end \in it + 1 .. Len(s) + 1 /\ (end <= Len(s) => s[end].seq /= s[it].seq)
  BY <1>3
<1>5. \A i \in it .. end - 1 : s[i].seq = s[it].seq
  <2> SUFFICES ASSUME NEW i \in it .. end - 1, s[i].seq /= s[it].seq PROVE FALSE
    OBVIOUS
  <2>1. i \in it + 1 .. Len(s)
    BY <1>1, <1>4
  <2>2. i \in T /\ ~(end <= i)
    BY <1>1, <1>4, <2>1
  <2>3. QED
    BY <1>3, <2>2
<1> HIDE DEF T
<1> DEFINE Ends(e) == /\ \A i \in it .. e - 1 : s[i].seq = s[it].seq
                      /\ e <= Len(s) => s[e].seq /= s[it].seq
           found == AfterCopies(s, it)
<1>6. \E e \in it + 1 .. Len(s) + 1 : Ends(e)
  BY <1>4, <1>5
<1>7. found = CHOOSE e \in it + 1 .. Len(s) + 1 : Ends(e)
  BY DEF AfterCopies
<1> HIDE DEF Ends
<1>8. found \in it + 1 .. Len(s) + 1 /\ Ends(found)
  BY <1>6, <1>7
<1> HIDE DEF found
<1>9. \A i \in found .. Len(s) : s[i].seq > s[it].seq
  <2> SUFFICES ASSUME NEW i \in found .. Len(s) PROVE s[i].seq > s[it].seq
    OBVIOUS
  <2>1. /\ found \in 1 .. Len(s) /\ i \in 1 .. Len(s) /\ it < found
        /\ s[found].seq /= s[it].seq
    BY <1>1, <1>8 DEF Ends
  <2>2. s[found].seq > s[it].seq
    BY <1>1, <2>1 DEF InOrder
  <2>3. s[i].seq >= s[found].seq
    BY <1>1, <2>1 DEF InOrder
  <2>4. QED
    BY <1>1, <2>1, <2>2, <2>3
<1>10. QED
  BY <1>8, <1>9 DEF Ends, found

----
(***************************************************************************)
(* The loop of AddPacketsToFeedback                                        *)
(***************************************************************************)
\* g has the values of packet_it and packet_feedback after each iteration.
IsLoop(s, last, end, g) ==
  g = [n \in last .. end |-> IF n = last THEN [it |-> 1, report |-> <<>>]
                             ELSE ReportPacket(s, n, g[n - 1])]

\* The loop terminates with a value for every iteration: the recursion of the model
\* defines a function.
LEMMA LoopExists ==
  ASSUME NEW s, NEW last \in Int, NEW end \in Int, last <= end
  PROVE  \E g : IsLoop(s, last, end, g)
<1> DEFINE T == {k \in Nat : ~ \E g : IsLoop(s, last, last + k, g)}
<1>1. ASSUME T /= {} PROVE FALSE
  <2>1. T \in SUBSET Nat
    OBVIOUS
  <2>2. PICK k \in T : \A m \in T : k <= m
    BY <1>1, <2>1, LeastNat
  <2>3. CASE k = 0
    <3> DEFINE g == [n \in last .. last |-> [it |-> 1, report |-> <<>>]]
    <3>1. IsLoop(s, last, last + 0, g)
      BY DEF IsLoop
    <3>2. QED
      BY <2>2, <2>3, <3>1
  <2>4. CASE k /= 0
    <3>1. k - 1 \in Nat /\ k \in Nat /\ k - 1 \notin T
      BY <2>2, <2>4
    <3>2. PICK h : IsLoop(s, last, last + (k - 1), h)
      BY <3>1
    <3> DEFINE g == [n \in last .. last + k |->
                       IF n <= last + (k - 1) THEN h[n]
                       ELSE ReportPacket(s, n, h[n - 1])]
    <3>3. ASSUME NEW n \in last .. last + k
          PROVE  g[n] = IF n = last THEN [it |-> 1, report |-> <<>>]
                        ELSE ReportPacket(s, n, g[n - 1])
      <4>1. CASE n <= last + (k - 1)
        <5>1. h[n] = IF n = last THEN [it |-> 1, report |-> <<>>]
                     ELSE ReportPacket(s, n, h[n - 1])
          BY <3>1, <3>2, <4>1 DEF IsLoop
        <5>2. n /= last => n - 1 \in last .. last + k /\ g[n - 1] = h[n - 1]
          BY <3>1, <4>1
        <5>3. g[n] = h[n]
          BY <4>1
        <5>4. QED
          BY <5>1, <5>2, <5>3
      <4>2. CASE ~(n <= last + (k - 1))
        <5>1. n /= last /\ n - 1 \in last .. last + k /\ g[n - 1] = h[n - 1]
          BY <3>1, <4>2
        <5>2. QED
          BY <4>2, <5>1
      <4>3. QED
        BY <4>1, <4>2
    <3>4. IsLoop(s, last, last + k, g)
      <4>1. g = [n \in last .. last + k |-> g[n]]
        OBVIOUS
      <4> HIDE DEF g
      <4>2. QED
        BY <3>3, <4>1 DEF IsLoop
    <3>5. QED
      BY <2>2, <3>4
  <2>5. QED
    BY <2>3, <2>4
<1>2. end - last \in Nat /\ T = {}
  BY <1>1
<1>3. \E g : IsLoop(s, last, last + (end - last), g)
  BY <1>2
<1>4. last + (end - last) = end
  OBVIOUS
<1>5. QED
  BY <1>3, <1>4

\* AddPacketsToFeedback returns what the loop has collected after its last iteration.
LEMMA AddPacketsToFeedbackLoop ==
  ASSUME NEW tr, NEW s, tr.packets /= <<>>,
         NEW last \in Int, last = IF tr.last = Nullopt THEN s[1].seq - 1 ELSE tr.last,
         NEW back \in Int, back = s[Len(s)].seq, last <= ReportEnd(last, back),
         ReportEnd(last, back) \in Int
  PROVE  \E g : /\ IsLoop(s, last, ReportEnd(last, back), g)
                /\ AddPacketsToFeedback(tr, s)
                     = [tracker |-> [last |-> back, packets |-> <<>>],
                        report  |-> g[ReportEnd(last, back)].report]
<1> DEFINE g == CHOOSE h : IsLoop(s, last, ReportEnd(last, back), h)
<1>1. IsLoop(s, last, ReportEnd(last, back), g)
  BY LoopExists
<1>2. AddPacketsToFeedback(tr, s)
        = [tracker |-> [last |-> back, packets |-> <<>>],
           report  |-> g[ReportEnd(last, back)].report]
  BY DEF AddPacketsToFeedback, IsLoop
<1>3. QED
  BY <1>1, <1>2

----
(***************************************************************************)
(* What one entry of the report says                                       *)
(***************************************************************************)
\* An entry that is right for the outcome of the sort is right for what arrived.
LEMMA EntryOfSorted ==
  ASSUME NEW packets \in Seq(PacketInfo), NEW s \in Sorted(packets), NEW e, NEW n \in Int,
         EntryFor(s, e, n)
  PROVE  EntryFor(packets, e, n)
<1>1. /\ DOMAIN s = 1 .. Len(s) /\ DOMAIN packets = 1 .. Len(s)
      /\ \A i \in 1 .. Len(s) : \E k \in 1 .. Len(s) : s[i] = packets[k]
      /\ \A k \in 1 .. Len(s) : \E i \in 1 .. Len(s) : s[i] = packets[k]
  BY SortedFacts, PacketTypes
<1>2. \A i \in CopiesIn(s, n) : \E k \in CopiesIn(packets, n) : s[i] = packets[k]
  BY <1>1 DEF CopiesIn
<1>3. \A k \in CopiesIn(packets, n) : \E i \in CopiesIn(s, n) : s[i] = packets[k]
  BY <1>1 DEF CopiesIn
<1>4. \A i \in FirstCopiesIn(s, n) : \E k \in FirstCopiesIn(packets, n) : s[i] = packets[k]
  <2> SUFFICES ASSUME NEW i \in FirstCopiesIn(s, n)
               PROVE  \E k \in FirstCopiesIn(packets, n) : s[i] = packets[k]
    OBVIOUS
  <2>1. PICK k \in CopiesIn(packets, n) : s[i] = packets[k]
    BY <1>2 DEF FirstCopiesIn
  <2>2. ASSUME NEW j \in CopiesIn(packets, n)
        PROVE  packets[k].arrival_time <= packets[j].arrival_time
    <3>1. PICK l \in CopiesIn(s, n) : s[l] = packets[j]
      BY <1>3
    <3>2. QED
      BY <2>1, <3>1 DEF FirstCopiesIn
  <2>3. QED
    BY <2>1, <2>2 DEF FirstCopiesIn
<1>5. e.seq = n /\ (e.received <=> CopiesIn(packets, n) /= {})
  BY <1>2, <1>3 DEF EntryFor
<1>6. ASSUME e.received
      PROVE  \E i \in FirstCopiesIn(packets, n) : e.arrival_time = packets[i].arrival_time
  <2>1. PICK i \in FirstCopiesIn(s, n) : e.arrival_time = s[i].arrival_time
    BY <1>6 DEF EntryFor
  <2>2. QED
    BY <1>4, <2>1
<1>7. ASSUME e.received, \E i \in CopiesIn(packets, n) : packets[i].ecn = "Ce"
      PROVE  e.ecn = "Ce"
  <2>1. \E i \in CopiesIn(s, n) : s[i].ecn = "Ce"
    BY <1>3, <1>7
  <2>2. QED
    BY <1>7, <2>1 DEF EntryFor
<1>8. ASSUME e.received, ~ \E i \in CopiesIn(packets, n) : packets[i].ecn = "Ce"
      PROVE  \E i \in FirstCopiesIn(packets, n) : e.ecn = packets[i].ecn
  <2>1. ~ \E i \in CopiesIn(s, n) : s[i].ecn = "Ce"
    BY <1>2, <1>8
  <2>2. PICK i \in FirstCopiesIn(s, n) : e.ecn = s[i].ecn
    BY <1>8, <2>1 DEF EntryFor
  <2>3. QED
    BY <1>4, <2>2
<1>9. QED
  BY <1>5, <1>6, <1>7, <1>8 DEF EntryFor

\* The types of the entries of a report.
PacketReports ==
  [seq : Int, received : BOOLEAN, arrival_time : Nat, ecn : Ecns \cup {"NotEct"}]

\* After the iteration for n, packet_it stands on the first packet after n, and there is a
\* right entry for every sequence number after last.
LoopInv(s, last, n, acc) ==
  /\ acc.it \in 1 .. Len(s) + 1
  /\ \A i \in 1 .. acc.it - 1 : s[i].seq <= n
  /\ \A i \in acc.it .. Len(s) : s[i].seq > n
  /\ acc.report \in Seq(PacketReports)
  /\ Len(acc.report) = n - last
  /\ \A j \in 1 .. n - last : EntryFor(s, acc.report[j], last + j)

\* The entry made for a packet that arrived.
LEMMA ReceivedEntry ==
  ASSUME NEW s \in Seq(PacketInfo), InOrder(s), NEW it \in 1 .. Len(s),
         NEW n \in Int, n = s[it].seq, \A i \in 1 .. it - 1 : s[i].seq <= n - 1,
         NEW end, end = AfterCopies(s, it),
         NEW e, e = [seq |-> n, received |-> TRUE, arrival_time |-> s[it].arrival_time,
                     ecn |-> CopyEcn(s, it, end)]
  PROVE  EntryFor(s, e, n) /\ e \in PacketReports
<1>1. /\ Len(s) \in Nat /\ DOMAIN s = 1 .. Len(s)
      /\ \A i \in 1 .. Len(s) : s[i].seq \in Nat /\ s[i].arrival_time \in Nat
  BY PacketTypes
<1>2. /\ end \in it + 1 .. Len(s) + 1
      /\ \A i \in it .. end - 1 : s[i].seq = n
      /\ \A i \in end .. Len(s) : s[i].seq > n
  BY AfterCopiesFacts
<1>3. CopiesIn(s, n) = it .. end - 1
  <2>1. ASSUME NEW i \in 1 .. Len(s), s[i].seq = n PROVE i \in it .. end - 1
    <3>1. i \in 1 .. it - 1 \/ i \in it .. end - 1 \/ i \in end .. Len(s)
      BY <1>1, <1>2
    <3>2. QED
      BY <1>1, <1>2, <2>1, <3>1
  <2>2. ASSUME NEW i \in it .. end - 1 PROVE i \in 1 .. Len(s)
    BY <1>1, <1>2
  <2>3. QED
    BY <1>1, <1>2, <2>1, <2>2 DEF CopiesIn
<1>4. it \in CopiesIn(s, n)
  BY <1>2, <1>3
<1>5. it \in FirstCopiesIn(s, n)
  <2>1. ASSUME NEW j \in CopiesIn(s, n) PROVE s[it].arrival_time <= s[j].arrival_time
    <3>1. j \in 1 .. Len(s) /\ s[j].seq = s[it].seq /\ (j = it \/ it < j)
      BY <1>1, <1>2, <1>3
    <3>2. it < j => s[it].arrival_time <= s[j].arrival_time
      BY <1>1, <3>1 DEF InOrder
    <3>3. QED
      BY <1>1, <3>1, <3>2
  <2>2. QED
    BY <1>4, <2>1 DEF FirstCopiesIn
<1>6. /\ e.seq = n /\ e.received = TRUE /\ e.arrival_time = s[it].arrival_time
      /\ e.ecn = CopyEcn(s, it, end)
  OBVIOUS
<1>7. IF \E i \in CopiesIn(s, n) : s[i].ecn = "Ce" THEN e.ecn = "Ce" ELSE e.ecn = s[it].ecn
  <2>1. \A i \in CopiesIn(s, n) : i = it \/ i \in it + 1 .. end - 1
    BY <1>2, <1>3
  <2>2. it + 1 .. end - 1 \subseteq CopiesIn(s, n)
    BY <1>2, <1>3
  <2>3. QED
    BY <1>6, <2>1, <2>2 DEF CopyEcn
<1>8. EntryFor(s, e, n)
  BY <1>4, <1>5, <1>6, <1>7 DEF EntryFor
<1>9. \A i \in 1 .. Len(s) : s[i].ecn \in Ecns
  <2>1. \A i \in 1 .. Len(s) : s[i] \in PacketInfo
    OBVIOUS
  <2>2. QED
    BY <2>1 DEF PacketInfo
<1>10. e.ecn \in Ecns
  <2>1. CopiesIn(s, n) \subseteq 1 .. Len(s)
    BY <1>1 DEF CopiesIn
  <2>2. QED
    BY <1>7, <1>9, <2>1
<1>11. QED
  BY <1>1, <1>6, <1>8, <1>10 DEF PacketReports

\* One iteration of the loop adds the right entry.
LEMMA ReportPacketStep ==
  ASSUME NEW s \in Seq(PacketInfo), InOrder(s), NEW last \in Int, NEW n \in Int, last < n,
         n <= s[Len(s)].seq, Len(s) > 0, NEW acc, LoopInv(s, last, n - 1, acc)
  PROVE  LoopInv(s, last, n, ReportPacket(s, n, acc))
<1> DEFINE it == acc.it
           next == ReportPacket(s, n, acc)
<1> SUFFICES LoopInv(s, last, n, next)
  OBVIOUS
<1>1. /\ Len(s) \in Nat /\ DOMAIN s = 1 .. Len(s)
      /\ \A i \in 1 .. Len(s) : s[i].seq \in Nat /\ s[i].arrival_time \in Nat
  BY PacketTypes
<1>2. /\ it \in 1 .. Len(s) + 1 /\ \A i \in 1 .. it - 1 : s[i].seq <= n - 1
      /\ \A i \in it .. Len(s) : s[i].seq > n - 1
      /\ acc.report \in Seq(PacketReports) /\ Len(acc.report) = (n - 1) - last
      /\ \A j \in 1 .. (n - 1) - last : EntryFor(s, acc.report[j], last + j)
  BY DEF LoopInv
<1>3. it \in 1 .. Len(s)
  BY <1>1, <1>2
<1>4. ASSUME NEW f \in PacketReports, EntryFor(s, f, n),
             next.report = Append(acc.report, f), next.it \in 1 .. Len(s) + 1,
             \A i \in 1 .. next.it - 1 : s[i].seq <= n,
             \A i \in next.it .. Len(s) : s[i].seq > n
      PROVE  LoopInv(s, last, n, next)
  <2> HIDE DEF next
  <2>1. next.report \in Seq(PacketReports) /\ Len(next.report) = n - last
    BY <1>2, <1>4
  <2>2. ASSUME NEW j \in 1 .. n - last PROVE EntryFor(s, next.report[j], last + j)
    <3>1. CASE j = n - last
      <4>1. next.report[j] = f /\ last + j = n
        BY <1>2, <1>4, <3>1
      <4>2. QED
        BY <1>4, <4>1
    <3>2. CASE j /= n - last
      <4>1. j \in 1 .. (n - 1) - last
        BY <3>2
      <4>2. next.report[j] = acc.report[j]
        BY <1>2, <1>4, <4>1
      <4>3. QED
        BY <1>2, <4>1, <4>2
    <3>3. QED
      BY <3>1, <3>2
  <2>3. QED
    BY <1>4, <2>1, <2>2 DEF LoopInv
<1>5. CASE n = s[it].seq
  <2> DEFINE end == AfterCopies(s, it)
             f == [seq |-> n, received |-> TRUE, arrival_time |-> s[it].arrival_time,
                   ecn |-> CopyEcn(s, it, end)]
  <2>1. next = [it |-> end, report |-> Append(acc.report, f)]
    BY <1>5 DEF ReportPacket
  <2> HIDE DEF it
  <2>2. EntryFor(s, f, n) /\ f \in PacketReports
    BY <1>2, <1>3, <1>5, ReceivedEntry
  <2>3. /\ end \in it + 1 .. Len(s) + 1
        /\ \A i \in it .. end - 1 : s[i].seq = n
        /\ \A i \in end .. Len(s) : s[i].seq > n
    BY <1>3, <1>5, AfterCopiesFacts
  <2> HIDE DEF end, f
  <2>4. next.it = end /\ next.report = Append(acc.report, f)
    BY <2>1
  <2>5. \A i \in 1 .. end - 1 : s[i].seq <= n
    <3> SUFFICES ASSUME NEW i \in 1 .. end - 1 PROVE s[i].seq <= n
      OBVIOUS
    <3>1. i \in 1 .. it - 1 \/ i \in it .. end - 1
      BY <1>1, <1>3, <2>3
    <3>2. i \in 1 .. Len(s)
      BY <1>1, <1>3, <2>3
    <3>3. QED
      BY <1>1, <1>2, <2>3, <3>1, <3>2
  <2>6. end \in 1 .. Len(s) + 1
    BY <1>1, <1>3, <2>3
  <2> HIDE DEF next
  <2>7. QED
    BY <1>4, <2>2, <2>3, <2>4, <2>5, <2>6
<1>6. CASE n /= s[it].seq
  <2> DEFINE f == [seq |-> n, received |-> FALSE, arrival_time |-> 0, ecn |-> "NotEct"]
  <2>1. next = [it |-> it, report |-> Append(acc.report, f)]
    BY <1>6 DEF ReportPacket
  <2>2. f.seq = n /\ f.received = FALSE /\ f \in PacketReports
    BY DEF PacketReports
  <2> HIDE DEF it, f
  <2>3. next.it = it /\ next.report = Append(acc.report, f)
    BY <2>1
  <2> HIDE DEF next
  <2>4. \A i \in it .. Len(s) : s[i].seq > n
    <3> SUFFICES ASSUME NEW i \in it .. Len(s) PROVE s[i].seq > n
      OBVIOUS
    <3>1. it \in it .. Len(s) /\ i \in 1 .. Len(s) /\ (i = it \/ it < i)
      BY <1>1, <1>3
    <3>2. s[it].seq > n - 1 /\ s[it].seq \in Nat /\ s[i].seq \in Nat
      BY <1>1, <1>2, <1>3, <3>1
    <3>3. s[it].seq > n
      BY <1>6, <3>2
    <3>4. it < i => s[it].seq <= s[i].seq
      BY <1>1, <1>3, <3>1, <3>2 DEF InOrder
    <3>5. QED
      BY <3>1, <3>2, <3>3, <3>4
  <2>5. \A i \in 1 .. it - 1 : s[i].seq < n
    BY <1>1, <1>2, <1>3
  <2>6. CopiesIn(s, n) = {}
    BY <1>1, <1>3, <2>4, <2>5 DEF CopiesIn
  <2>7. EntryFor(s, f, n)
    BY <2>2, <2>6 DEF EntryFor
  <2>8. \A i \in 1 .. it - 1 : s[i].seq <= n
    BY <1>1, <1>3, <2>5
  <2>9. QED
    BY <1>2, <1>4, <2>2, <2>3, <2>4, <2>7, <2>8
<1>7. QED
  BY <1>5, <1>6

\* The invariant of the loop holds after every iteration.
LEMMA LoopInvariant ==
  ASSUME NEW s \in Seq(PacketInfo), InOrder(s), Len(s) > 0,
         NEW last \in Int, \A i \in 1 .. Len(s) : s[i].seq > last,
         NEW end \in Int, last <= end, end <= s[Len(s)].seq,
         NEW g, IsLoop(s, last, end, g)
  PROVE  LoopInv(s, last, end, g[end])
<1> DEFINE T == {k \in 0 .. end - last : ~ LoopInv(s, last, last + k, g[last + k])}
<1>1. ASSUME T /= {} PROVE FALSE
  <2>1. PICK k \in T : \A m \in T : k <= m
    <3>1. T \in SUBSET Nat
      OBVIOUS
    <3>2. QED
      BY <1>1, <3>1, LeastNat
  <2>2. CASE k = 0
    <3>1. g[last] = [it |-> 1, report |-> <<>>]
      BY DEF IsLoop
    <3>2. LoopInv(s, last, last, g[last])
      BY <3>1, PacketTypes DEF LoopInv
    <3>3. last + k = last
      BY <2>2
    <3>4. QED
      BY <2>1, <3>2, <3>3
  <2>3. CASE k /= 0
    <3> DEFINE n == last + k
    <3>1. n \in last .. end /\ n /= last /\ n - 1 = last + (k - 1) /\ last < n
          /\ k - 1 \in 0 .. end - last /\ ~(k <= k - 1)
      BY <2>1, <2>3
    <3>2. LoopInv(s, last, n - 1, g[n - 1])
      BY <2>1, <3>1
    <3>3. g[n] = ReportPacket(s, n, g[n - 1])
      BY <3>1 DEF IsLoop
    <3>4. n <= s[Len(s)].seq
      <4>1. s[Len(s)].seq \in Nat
        BY PacketTypes
      <4>2. QED
        BY <3>1, <4>1
    <3> HIDE DEF n
    <3>5. n \in Int
      BY <3>1
    <3>6. LoopInv(s, last, n, g[n])
      BY <3>1, <3>2, <3>3, <3>4, <3>5, ReportPacketStep
    <3>7. QED
      BY <2>1, <3>6 DEF n
  <2>4. QED
    BY <2>2, <2>3
<1>2. end - last \in 0 .. end - last /\ last + (end - last) = end /\ T = {}
  BY <1>1
<1>3. QED
  BY <1>2

----
(***************************************************************************)
(* The two methods                                                         *)
(***************************************************************************)
\* What the methods need of a tracker: no packet waits behind the point where the next
\* message starts.
TrackerOK(tr) ==
  /\ tr.last = Nullopt \/ tr.last \in Nat
  /\ tr.packets \in Seq(PacketInfo)
  /\ Len(tr.packets) <= MaxPacketsPerSsrc + 1
  /\ tr.last /= Nullopt => \A i \in 1 .. Len(tr.packets) : tr.packets[i].seq > tr.last

\* ReceivedPacket keeps a tracker in order, also for a packet that comes after feedback
\* covered it, and never leaves it without packets.
THEOREM ReceivedPacketOK ==
  ASSUME NEW tr, TrackerOK(tr), NEW p \in PacketInfo, p.seq > 0
  PROVE  /\ TrackerOK(ReceivedPacket(tr, p))
         /\ ReceivedPacket(tr, p).packets /= <<>>
         /\ \A i \in DOMAIN ReceivedPacket(tr, p).packets :
               \/ ReceivedPacket(tr, p).packets[i] = p
               \/ \E j \in DOMAIN tr.packets :
                    ReceivedPacket(tr, p).packets[i] = tr.packets[j]
<1>1. /\ Len(tr.packets) \in Nat /\ DOMAIN tr.packets = 1 .. Len(tr.packets)
      /\ \A i \in 1 .. Len(tr.packets) : tr.packets[i].seq \in Nat
      /\ tr.packets \in Seq(PacketInfo)
  BY PacketTypes DEF TrackerOK
<1>2. CASE Len(tr.packets) > MaxPacketsPerSsrc
  <2>1. ReceivedPacket(tr, p) = tr
    BY <1>2 DEF ReceivedPacket
  <2>2. tr.packets /= <<>>
    BY <1>2, MaxPacketsPerSsrcAssumption
  <2>3. QED
    BY <2>1, <2>2
<1>3. CASE ~(Len(tr.packets) > MaxPacketsPerSsrc)
  <2> DEFINE last == IF tr.last /= Nullopt /\ p.seq < tr.last + 1
                     THEN p.seq - 1 ELSE tr.last
             packets == Append(tr.packets, p)
  <2>1. /\ ReceivedPacket(tr, p).last = last
        /\ ReceivedPacket(tr, p).packets = packets
    BY <1>3 DEF ReceivedPacket
  <2>2. p.seq \in Nat
    BY DEF PacketInfo
  <2>3. last = Nullopt \/ last \in Nat
    BY <2>2 DEF TrackerOK
  <2>4. /\ packets \in Seq(PacketInfo) /\ Len(packets) = Len(tr.packets) + 1
        /\ DOMAIN packets = 1 .. Len(tr.packets) + 1
        /\ packets[Len(tr.packets) + 1] = p
        /\ \A i \in 1 .. Len(tr.packets) : packets[i] = tr.packets[i]
    BY <1>1
  <2>5. Len(packets) <= MaxPacketsPerSsrc + 1
    BY <1>1, <1>3, <2>4, MaxPacketsPerSsrcAssumption
  <2>6. last /= Nullopt => tr.last /= Nullopt /\ tr.last \in Nat /\ last <= tr.last
                           /\ last < p.seq
    BY <2>2, NulloptAssumption DEF TrackerOK
  <2>7. ASSUME last /= Nullopt, NEW i \in 1 .. Len(packets) PROVE packets[i].seq > last
    <3>1. i = Len(tr.packets) + 1 \/ i \in 1 .. Len(tr.packets)
      BY <1>1, <2>4
    <3>2. ASSUME i \in 1 .. Len(tr.packets) PROVE packets[i].seq > last
      <4>1. tr.packets[i].seq > tr.last /\ tr.packets[i].seq \in Nat
        BY <1>1, <2>6, <2>7, <3>2 DEF TrackerOK
      <4>2. last \in Nat
        BY <2>3, <2>7
      <4>3. packets[i].seq = tr.packets[i].seq
        BY <2>4, <3>2
      <4> HIDE DEF last, packets
      <4>4. QED
        BY <2>6, <2>7, <4>1, <4>2, <4>3
    <3>3. QED
      BY <2>3, <2>4, <2>6, <2>7, <3>1, <3>2
  <2> HIDE DEF last, packets
  <2>8. TrackerOK(ReceivedPacket(tr, p))
    BY <2>1, <2>3, <2>4, <2>5, <2>7 DEF TrackerOK
  <2>9. packets /= <<>>
    BY <1>1, <2>4
  <2>10. QED
    BY <1>1, <2>1, <2>4, <2>8, <2>9
<1>4. QED
  BY <1>2, <1>3

\* AddPacketsToFeedback, whatever the outcome of the sort, takes all packets, and reports
\* consecutive sequence numbers, at most kMaxPacketsPerSsrc, each as RFC 8888 asks; a
\* report that is not full has every packet.
THEOREM AddPacketsToFeedbackOK ==
  ASSUME NEW tr, TrackerOK(tr), NEW s \in Sorted(tr.packets), tr.packets /= <<>>
  PROVE  LET report == AddPacketsToFeedback(tr, s).report
         IN /\ TrackerOK(AddPacketsToFeedback(tr, s).tracker)
            /\ AddPacketsToFeedback(tr, s).tracker.packets = <<>>
            /\ report \in Seq(PacketReports)
            /\ Len(report) \in 1 .. MaxPacketsPerSsrc
            /\ \A i \in 1 .. Len(report) :
                  EntryFor(tr.packets, report[i], report[1].seq + i - 1)
            /\ Len(report) < MaxPacketsPerSsrc =>
                  \A i \in 1 .. Len(tr.packets) : \E j \in 1 .. Len(report) :
                     report[j].seq = tr.packets[i].seq /\ report[j].received
<1> DEFINE last == IF tr.last = Nullopt THEN s[1].seq - 1 ELSE tr.last
           back == s[Len(s)].seq
           end == ReportEnd(last, back)
           result == AddPacketsToFeedback(tr, s)
           report == result.report
<1>1. tr.packets \in Seq(PacketInfo)
  BY DEF TrackerOK
<1>2. /\ s \in Seq(PacketInfo) /\ InOrder(s) /\ Len(s) = Len(tr.packets)
      /\ \A i \in 1 .. Len(s) : \E k \in 1 .. Len(s) : s[i] = tr.packets[k]
      /\ \A k \in 1 .. Len(s) : \E i \in 1 .. Len(s) : s[i] = tr.packets[k]
  BY <1>1, SortedFacts
<1>3. /\ Len(s) \in Nat /\ DOMAIN s = 1 .. Len(s) /\ \A i \in 1 .. Len(s) : s[i].seq \in Nat
  BY <1>2, PacketTypes
<1>4. Len(s) > 0
  BY <1>1, <1>2, <1>3
<1>5. back \in Nat /\ s[1].seq \in Nat /\ last \in Int
  BY <1>3, <1>4 DEF TrackerOK
<1>6. \A i \in 1 .. Len(s) : s[i].seq > last
  <2>1. CASE tr.last = Nullopt
    <3>1. \A i \in 1 .. Len(s) : 1 \in 1 .. Len(s) /\ 1 <= i
      BY <1>3
    <3>2. \A i \in 1 .. Len(s) : s[1].seq <= s[i].seq
      BY <1>2, <3>1, InOrderGrows
    <3>3. last = s[1].seq - 1
      BY <2>1
    <3>4. QED
      BY <1>3, <1>5, <3>2, <3>3
  <2>2. CASE tr.last /= Nullopt
    BY <1>2, <2>2 DEF TrackerOK
  <2>3. QED
    BY <2>1, <2>2
<1>7. back > last
  BY <1>3, <1>4, <1>6
<1> HIDE DEF last, back
<1>8. /\ end \in Int /\ last < end /\ end <= back /\ end <= last + MaxPacketsPerSsrc
      /\ end < last + MaxPacketsPerSsrc => end = back
  BY <1>5, <1>7, MaxPacketsPerSsrcAssumption DEF ReportEnd
<1>9. PICK g : /\ IsLoop(s, last, end, g)
               /\ result = [tracker |-> [last |-> back, packets |-> <<>>],
                            report  |-> g[end].report]
  BY <1>5, <1>8, AddPacketsToFeedbackLoop DEF last, back
<1> HIDE DEF end, result
<1>10. LoopInv(s, last, end, g[end])
  <2>1. last \in Int /\ end \in Int /\ last <= end /\ end <= s[Len(s)].seq
    BY <1>5, <1>8 DEF back
  <2>2. IsLoop(s, last, end, g)
    BY <1>9
  <2>3. s \in Seq(PacketInfo) /\ InOrder(s)
    BY <1>2
  <2>4. QED
    BY <1>4, <1>6, <2>1, <2>2, <2>3, LoopInvariant
<1>11. report = g[end].report
  BY <1>9
<1>12. /\ report \in Seq(PacketReports) /\ Len(report) = end - last
       /\ \A j \in 1 .. end - last : EntryFor(s, report[j], last + j)
  BY <1>10, <1>11 DEF LoopInv
<1> HIDE DEF report
<1>13. TrackerOK(result.tracker) /\ result.tracker.packets = <<>>
  <2>1. result.tracker.last = back /\ result.tracker.packets = <<>>
    BY <1>9
  <2>2. Len(<<>>) = 0 /\ <<>> \in Seq(PacketInfo)
    OBVIOUS
  <2>3. QED
    BY <1>5, <2>1, <2>2, MaxPacketsPerSsrcAssumption DEF TrackerOK
<1>14. Len(report) \in 1 .. MaxPacketsPerSsrc
  BY <1>5, <1>8, <1>12, MaxPacketsPerSsrcAssumption
<1>15. ASSUME NEW i \in 1 .. Len(report)
       PROVE  EntryFor(tr.packets, report[i], report[1].seq + i - 1)
  <2>1. 1 \in 1 .. end - last /\ i \in 1 .. end - last
    BY <1>12, <1>14
  <2>2. report[1].seq = last + 1
    BY <1>12, <2>1 DEF EntryFor
  <2>3. last + i \in Int /\ report[1].seq + i - 1 = last + i
    BY <1>5, <2>1, <2>2
  <2>4. EntryFor(tr.packets, report[i], last + i)
    BY <1>1, <1>12, <2>1, <2>3, EntryOfSorted
  <2>5. QED
    BY <2>3, <2>4
<1>16. ASSUME Len(report) < MaxPacketsPerSsrc, NEW i \in 1 .. Len(tr.packets)
       PROVE  \E j \in 1 .. Len(report) :
                report[j].seq = tr.packets[i].seq /\ report[j].received
  <2>1. end = back
    BY <1>5, <1>8, <1>12, <1>16, MaxPacketsPerSsrcAssumption
  <2>2. PICK k \in 1 .. Len(s) : s[k] = tr.packets[i]
    BY <1>2
  <2>3. s[k].seq > last /\ s[k].seq <= back /\ s[k].seq \in Nat
    <3>1. Len(s) \in 1 .. Len(s) /\ k <= Len(s)
      BY <1>3, <1>4
    <3>2. s[k].seq <= s[Len(s)].seq
      BY <1>2, <3>1, InOrderGrows
    <3>3. QED
      BY <1>3, <1>6, <3>2 DEF back
  <2> DEFINE j == s[k].seq - last
  <2>4. j \in 1 .. end - last /\ last + j = s[k].seq
    BY <1>5, <2>1, <2>3
  <2> HIDE DEF j
  <2>5. EntryFor(s, report[j], s[k].seq)
    BY <1>12, <2>4
  <2>6. CopiesIn(s, s[k].seq) /= {}
    BY <1>3 DEF CopiesIn
  <2>7. QED
    BY <1>12, <2>2, <2>4, <2>5, <2>6 DEF EntryFor
<1>17. QED
  BY <1>12, <1>13, <1>14, <1>15, <1>16 DEF report, result
====
