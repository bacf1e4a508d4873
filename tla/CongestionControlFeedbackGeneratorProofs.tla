---- MODULE CongestionControlFeedbackGeneratorProofs ----
(***************************************************************************)
(* Proofs about CongestionControlFeedbackGenerator: when feedback is sent, *)
(* for any number of SSRCs and any intervals and rate.                     *)
(***************************************************************************)
EXTENDS CongestionControlFeedbackGenerator, CongestionControlFeedbackTrackerProofs

(***************************************************************************)
(* Arithmetic                                                              *)
(***************************************************************************)
\* Multiplying by a natural number keeps an order.
LEMMA TimesMonotone ==
  ASSUME NEW r \in Nat, NEW x \in Int, NEW y \in Int, x <= y
  PROVE  r * x <= r * y
<1>1. r * (y - x) >= 0
  OBVIOUS
<1>2. r * (y - x) = r * y - r * x
  OBVIOUS
<1>3. QED
  BY <1>1, <1>2

\* A bound that counts from the present time stays one when time passes.
LEMMA LargerMonotone ==
  ASSUME NEW w \in Nat, NEW a \in Nat, NEW b \in Nat, NEW c \in Nat, NEW d \in Nat,
         w <= Larger(a + d, c), a <= b
  PROVE  w <= Larger(b + d, c)
  BY DEF Larger

\* What integer division leaves is less than the divisor.
LEMMA DivFacts ==
  ASSUME NEW a \in Nat, NEW r \in Nat \ {0}
  PROVE  /\ a \div r \in Nat
         /\ r * (a \div r) <= a
         /\ a < r * (a \div r) + r
  OBVIOUS

\* The factors of a product may be grouped otherwise.
LEMMA TimesRegroup ==
  ASSUME NEW a \in Nat, NEW b \in Nat, NEW c \in Nat
  PROVE  a * (b * c) = c * (b * a)
  OBVIOUS

----
(***************************************************************************)
(* The length of a message                                                 *)
(***************************************************************************)
\* More packets never make the block of an SSRC shorter.
LEMMA StreamLengthMonotone ==
  ASSUME NEW n \in Nat, NEW m \in Nat, n <= m
  PROVE  StreamLength(n) \in Nat /\ StreamLength(n) <= StreamLength(m)
  BY DEF StreamLength

\* g is the sum that BlockLength computes, for the sets in D.
IsSum(lengths, D, g) ==
  g = [T \in D |-> IF T = {} THEN 12
                   ELSE LET s == CHOOSE s \in T : TRUE
                        IN StreamLength(lengths[s]) + g[T \ {s}]]

\* The sets of SSRCs of a size.
UpTo(S, k) == {T \in SUBSET S : Cardinality(T) <= k}

\* Without one of its members a finite set is smaller.
LEMMA RemoveOne ==
  ASSUME NEW S, IsFiniteSet(S), NEW T \in SUBSET S, T /= {}, NEW s, s = CHOOSE t \in T : TRUE
  PROVE  /\ s \in T /\ T \ {s} \in SUBSET S
         /\ Cardinality(T) \in Nat \ {0}
         /\ Cardinality(T \ {s}) = Cardinality(T) - 1
<1>1. s \in T
  OBVIOUS
<1>2. IsFiniteSet(T) /\ IsFiniteSet(T \ {s})
  BY FS_Subset
<1>3. Cardinality(T) \in Nat /\ Cardinality(T) /= 0
  BY <1>1, <1>2, FS_CardinalityType, FS_EmptySet
<1>4. Cardinality(T \ {s}) = Cardinality(T) - 1
  BY <1>1, <1>2, FS_RemoveElement
<1>5. QED
  BY <1>1, <1>3, <1>4

\* The sum of BlockLength is defined for every set of SSRCs.
LEMMA SumExists ==
  ASSUME NEW S, IsFiniteSet(S), NEW lengths
  PROVE  \E g : IsSum(lengths, SUBSET S, g)
<1> DEFINE B == {k \in Nat : ~ \E g : IsSum(lengths, UpTo(S, k), g)}
<1>1. ASSUME B /= {} PROVE FALSE
  <2>1. PICK k \in B : \A m \in B : k <= m
    <3>1. B \in SUBSET Nat
      OBVIOUS
    <3>2. QED
      BY <1>1, <3>1, LeastNat
  <2>2. CASE k = 0
    <3> DEFINE g == [T \in UpTo(S, 0) |-> 12]
    <3>1. \A T \in UpTo(S, 0) : T = {}
      <4> SUFFICES ASSUME NEW T \in UpTo(S, 0), T /= {} PROVE FALSE
        OBVIOUS
      <4>1. Cardinality(T) \in Nat \ {0}
        BY RemoveOne DEF UpTo
      <4>2. QED
        BY <4>1 DEF UpTo
    <3>2. IsSum(lengths, UpTo(S, 0), g)
      BY <3>1 DEF IsSum
    <3>3. QED
      BY <2>1, <2>2, <3>2
  <2>3. CASE k /= 0
    <3>1. k - 1 \in Nat /\ k \in Nat /\ k - 1 \notin B
      BY <2>1, <2>3
    <3>2. PICK h : IsSum(lengths, UpTo(S, k - 1), h)
      BY <3>1
    <3> DEFINE Step(f, T) == IF T = {} THEN 12
                             ELSE LET s == CHOOSE s \in T : TRUE
                                  IN StreamLength(lengths[s]) + f[T \ {s}]
               g == [T \in UpTo(S, k) |-> IF T \in UpTo(S, k - 1) THEN h[T] ELSE Step(h, T)]
    <3>3. ASSUME NEW T \in UpTo(S, k) PROVE g[T] = Step(h, T)
      <4>1. ASSUME T \in UpTo(S, k - 1) PROVE h[T] = Step(h, T)
        BY <3>2, <4>1 DEF IsSum
      <4> HIDE DEF Step
      <4>2. QED
        BY <4>1
    <3>4. ASSUME NEW T \in UpTo(S, k) PROVE Step(h, T) = Step(g, T)
      <4>1. CASE T = {}
        BY <4>1
      <4>2. CASE T /= {}
        <5> DEFINE s == CHOOSE s \in T : TRUE
        <5>1. T \ {s} \in SUBSET S /\ Cardinality(T \ {s}) = Cardinality(T) - 1
              /\ Cardinality(T) \in Nat
          BY <4>2, RemoveOne DEF UpTo
        <5>2. T \ {s} \in UpTo(S, k - 1) /\ T \ {s} \in UpTo(S, k)
          BY <3>1, <5>1 DEF UpTo
        <5> HIDE DEF s
        <5>3. g[T \ {s}] = h[T \ {s}]
          BY <5>2
        <5>4. Step(h, T) = StreamLength(lengths[s]) + h[T \ {s}]
          BY <4>2 DEF s
        <5> HIDE DEF g
        <5>5. Step(g, T) = StreamLength(lengths[s]) + g[T \ {s}]
          BY <4>2 DEF s
        <5>6. QED
          BY <5>3, <5>4, <5>5
      <4>3. QED
        BY <4>1, <4>2
    <3>5. IsSum(lengths, UpTo(S, k), g)
      <4>1. g = [T \in UpTo(S, k) |-> g[T]]
        OBVIOUS
      <4> HIDE DEF g
      <4>2. \A T \in UpTo(S, k) : g[T] = Step(g, T)
        <5> HIDE DEF Step
        <5> QED BY <3>3, <3>4
      <4>3. QED
        BY <4>1, <4>2 DEF IsSum
    <3>6. QED
      BY <2>1, <3>5
  <2>4. QED
    BY <2>2, <2>3
<1>2. Cardinality(S) \in Nat /\ B = {}
  BY <1>1, FS_CardinalityType
<1>3. UpTo(S, Cardinality(S)) = SUBSET S
  BY FS_Subset DEF UpTo
<1>4. \E g : IsSum(lengths, UpTo(S, Cardinality(S)), g)
  BY <1>2
<1>5. QED
  BY <1>3, <1>4

\* The sum for a set of SSRCs grows at most by the longest block for each.
LEMMA SumBounded ==
  ASSUME NEW S, IsFiniteSet(S), NEW M \in Nat, NEW lengths \in [S -> 0 .. M],
         NEW g, IsSum(lengths, SUBSET S, g)
  PROVE  \A T \in SUBSET S :
           g[T] \in Nat /\ 12 <= g[T] /\ g[T] <= 12 + Cardinality(T) * StreamLength(M)
<1> DEFINE L == StreamLength(M)
           Ok(T) == g[T] \in Nat /\ 12 <= g[T] /\ g[T] <= 12 + Cardinality(T) * L
           B == {k \in Nat : \E T \in SUBSET S : Cardinality(T) = k /\ ~Ok(T)}
<1>1. L \in Nat
  BY StreamLengthMonotone
<1>2. \A T \in SUBSET S : IsFiniteSet(T) /\ Cardinality(T) \in Nat
  BY FS_Subset, FS_CardinalityType
<1> HIDE DEF L
<1>3. ASSUME B /= {} PROVE FALSE
  <2>1. PICK k \in B : \A m \in B : k <= m
    <3>1. B \in SUBSET Nat
      OBVIOUS
    <3>2. QED
      BY <1>3, <3>1, LeastNat
  <2>2. PICK T \in SUBSET S : Cardinality(T) = k /\ ~Ok(T)
    BY <2>1
  <2>3. CASE T = {}
    <3>1. g[T] = 12 /\ Cardinality(T) = 0
      BY <2>3, FS_EmptySet DEF IsSum
    <3>2. 0 * L = 0
      BY <1>1
    <3>3. QED
      BY <2>2, <3>1, <3>2
  <2>4. CASE T /= {}
    <3> DEFINE s == CHOOSE s \in T : TRUE
               U == T \ {s}
    <3>1. s \in T /\ U \in SUBSET S /\ Cardinality(U) = k - 1 /\ k \in Nat \ {0}
      BY <2>2, <2>4, RemoveOne
    <3>2. g[T] = StreamLength(lengths[s]) + g[U]
      BY <2>4 DEF IsSum
    <3> HIDE DEF s, U
    <3>3. Ok(U)
      <4>1. k - 1 \in Nat /\ ~(k <= k - 1)
        BY <3>1
      <4>2. k - 1 \notin B
        BY <2>1, <4>1
      <4> HIDE DEF Ok
      <4>3. QED
        BY <3>1, <4>1, <4>2
    <3>4. StreamLength(lengths[s]) \in Nat /\ StreamLength(lengths[s]) <= L
      <4>1. lengths[s] \in Nat /\ lengths[s] <= M
        BY <3>1
      <4>2. QED
        BY <4>1, StreamLengthMonotone DEF L
    <3>5. k * L = (k - 1) * L + L /\ (k - 1) * L \in Int /\ k * L \in Int
      BY <1>1, <3>1
    <3>6. Ok(T)
      BY <1>1, <2>2, <3>1, <3>2, <3>3, <3>4, <3>5
    <3>7. QED
      BY <2>2, <3>6
  <2>5. QED
    BY <2>3, <2>4
<1>4. \A T \in SUBSET S : Ok(T)
  <2> HIDE DEF Ok
  <2> QED BY <1>2, <1>3
<1>5. QED
  BY <1>4 DEF L

\* A message has at least its header, and at most MaxBlockLength bytes.
LEMMA BlockLengthBounded ==
  ASSUME NEW lengths \in [Ssrcs -> 0 .. MaxPacketsPerSsrc]
  PROVE  /\ BlockLength(lengths) \in Nat /\ MaxBlockLength \in Nat
         /\ 12 <= BlockLength(lengths)
         /\ BlockLength(lengths) <= MaxBlockLength
<1> DEFINE g == CHOOSE h : IsSum(lengths, SUBSET Ssrcs, h)
<1>1. IsFiniteSet(Ssrcs) /\ MaxPacketsPerSsrc \in Nat
  BY GeneratorAssumption, MaxPacketsPerSsrcAssumption
<1>2. IsSum(lengths, SUBSET Ssrcs, g)
  BY <1>1, SumExists
<1>3. DOMAIN lengths = Ssrcs
  OBVIOUS
<1>4. BlockLength(lengths) = g[Ssrcs]
  BY <1>3 DEF BlockLength, IsSum
<1> HIDE DEF g
<1>5. /\ g[Ssrcs] \in Nat /\ 12 <= g[Ssrcs]
      /\ g[Ssrcs] <= 12 + Cardinality(Ssrcs) * StreamLength(MaxPacketsPerSsrc)
  BY <1>1, <1>2, SumBounded
<1>6. Cardinality(Ssrcs) \in Nat /\ StreamLength(MaxPacketsPerSsrc) \in Nat
  BY <1>1, FS_CardinalityType, StreamLengthMonotone
<1>7. MaxBlockLength \in Nat
  BY <1>6 DEF MaxBlockLength
<1>8. QED
  BY <1>4, <1>5, <1>7 DEF MaxBlockLength

----
(***************************************************************************)
(* The inductive invariant                                                 *)
(***************************************************************************)
LongestWait == Larger(MinDelta, MaxWait)

\* The types of the members other than the trackers.
MembersTypeOK ==
  /\ clock \in Nat
  /\ first_arrival = Nullopt \/ first_arrival \in 0..clock
  /\ marker_bit_seen \in BOOLEAN
  /\ next_possible \in Nat
  /\ last_sent \in 0..clock
  /\ debt \in Nat
  /\ wakeup \in Nat

\* What a packet that waits in a tracker may rely on: the first arrival is not much later
\* than its own, and the repeating task runs in time.
InTime(p) ==
  /\ first_arrival <= p.arrival_time + MaxLag
  /\ wakeup <= Larger(p.arrival_time + MaxLag + LongestWait, next_possible)

\* The trackers, the deadline and the repeating task.
TimeInv ==
  /\ MembersTypeOK
  /\ trackers = [s \in Ssrcs |-> trackers[s]]
  /\ \A s \in Ssrcs : TrackerOK(trackers[s])
  /\ PendingHasDeadline
  /\ clock <= wakeup
  /\ wakeup <= Larger(clock + LongestWait, next_possible)
  /\ \A s \in Ssrcs : \A i \in DOMAIN trackers[s].packets : InTime(trackers[s].packets[i])

\* The debt: what was sent and is not paid for by the time of the last message; and what
\* may have been sent by the time the next message is possible, at the rate or, where the
\* wait is clamped to MaxDelta, at one longest message in that time.
RateInv ==
  /\ bytes_sent \in Nat
  /\ bytes_sent > 0 => last_sent + MinDelta <= next_possible
  /\ bytes_sent <= MaxFeedbackRate * last_sent + debt
  /\ MaxDelta * bytes_sent <= MaxBytesPerInterval * (next_possible + 1)
  /\ FeedbackRateBounded

GeneratorInv == TimeInv /\ RateInv

\* The types of the constants.
LEMMA ConstantTypes ==
  /\ MinDelta \in Nat \ {0} /\ MaxWait \in Nat \ {0} /\ MaxDelta \in Nat \ {0}
  /\ MaxFeedbackRate \in Nat \ {0} /\ MinDelta <= MaxDelta /\ MaxLag \in Nat
  /\ MaxSeq \in Nat /\ LongestWait \in Nat /\ MinDelta <= LongestWait /\ MaxWait <= LongestWait
<1>1. /\ MinDelta \in Nat \ {0} /\ MaxWait \in Nat \ {0} /\ MaxDelta \in Nat \ {0}
      /\ MaxFeedbackRate \in Nat \ {0} /\ MinDelta <= MaxDelta /\ MaxLag \in Nat
      /\ MaxSeq \in Nat
  BY GeneratorAssumption
<1>2. QED
  BY <1>1 DEF LongestWait, Larger

\* The types of the bounds on what is sent.
LEMMA LongestTypes ==
  /\ MaxBlockLength \in Nat /\ MaxBytesPerInterval \in Nat
  /\ MaxBlockLength <= MaxBytesPerInterval
  /\ MaxFeedbackRate * MaxDelta <= MaxBytesPerInterval
<1>1. [s \in Ssrcs |-> 0] \in [Ssrcs -> 0 .. MaxPacketsPerSsrc]
  BY MaxPacketsPerSsrcAssumption
<1>2. MaxBlockLength \in Nat
  BY <1>1, BlockLengthBounded
<1>3. MaxFeedbackRate * MaxDelta \in Nat
  BY ConstantTypes
<1>4. QED
  BY <1>2, <1>3 DEF MaxBytesPerInterval, Larger

----
(***************************************************************************)
(* Sending a message                                                       *)
(***************************************************************************)
\* SendFeedback empties the trackers, restarts the wait for packets, and pays for a
\* message of some length.
LEMMA SendFeedbackEffect ==
  ASSUME NEW ts, \A s \in Ssrcs : TrackerOK(ts[s]), SendFeedback(ts)
  PROVE  /\ trackers' = [s \in Ssrcs |-> trackers'[s]]
         /\ \A s \in Ssrcs : TrackerOK(trackers'[s]) /\ trackers'[s].packets = <<>>
         /\ marker_bit_seen' = FALSE /\ first_arrival' = Nullopt
         /\ \E size \in 12 .. MaxBlockLength :
              CalculateNextPossibleSendTime(size) /\ bytes_sent' = bytes_sent + size
<1>1. PICK sorted \in [Ssrcs -> UNION {Sorted(ts[s].packets) : s \in Ssrcs}] :
        /\ \A s \in Ssrcs : sorted[s] \in Sorted(ts[s].packets)
        /\ LET result == [s \in Ssrcs |-> AddPacketsToFeedback(ts[s], sorted[s])]
               size   == BlockLength([s \in Ssrcs |-> Len(result[s].report)])
           IN /\ trackers' = [s \in Ssrcs |-> result[s].tracker]
              /\ CalculateNextPossibleSendTime(size)
              /\ bytes_sent' = bytes_sent + size
        /\ marker_bit_seen' = FALSE
        /\ first_arrival' = Nullopt
  BY DEF SendFeedback
<1> DEFINE result == [s \in Ssrcs |-> AddPacketsToFeedback(ts[s], sorted[s])]
           lengths == [s \in Ssrcs |-> Len(result[s].report)]
           size == BlockLength(lengths)
<1>2. /\ trackers' = [s \in Ssrcs |-> result[s].tracker]
      /\ CalculateNextPossibleSendTime(size) /\ bytes_sent' = bytes_sent + size
      /\ marker_bit_seen' = FALSE /\ first_arrival' = Nullopt
  BY <1>1
<1>3. ASSUME NEW s \in Ssrcs
      PROVE  /\ TrackerOK(result[s].tracker) /\ result[s].tracker.packets = <<>>
             /\ Len(result[s].report) \in 0 .. MaxPacketsPerSsrc
  <2>1. result[s] = AddPacketsToFeedback(ts[s], sorted[s])
        /\ sorted[s] \in Sorted(ts[s].packets) /\ TrackerOK(ts[s])
    BY <1>1
  <2> HIDE DEF result
  <2>2. CASE ts[s].packets = <<>>
    <3>1. result[s].tracker = ts[s] /\ result[s].report = <<>>
      BY <2>1, <2>2 DEF AddPacketsToFeedback
    <3>2. Len(<<>>) = 0
      OBVIOUS
    <3>3. QED
      BY <2>1, <2>2, <3>1, <3>2, MaxPacketsPerSsrcAssumption
  <2>3. CASE ts[s].packets /= <<>>
    <3>1. /\ TrackerOK(result[s].tracker) /\ result[s].tracker.packets = <<>>
          /\ Len(result[s].report) \in 1 .. MaxPacketsPerSsrc
      BY <2>1, <2>3, AddPacketsToFeedbackOK
    <3>2. QED
      BY <3>1, MaxPacketsPerSsrcAssumption
  <2>4. QED
    BY <2>2, <2>3
<1> HIDE DEF result
<1>4. lengths \in [Ssrcs -> 0 .. MaxPacketsPerSsrc]
  BY <1>3
<1> HIDE DEF lengths
<1>5. size \in 12 .. MaxBlockLength
  BY <1>4, BlockLengthBounded
<1> HIDE DEF size
<1>6. \A s \in Ssrcs : trackers'[s] = result[s].tracker
  BY <1>2
<1>7. QED
  BY <1>2, <1>3, <1>5, <1>6

\* CalculateNextPossibleSendTime keeps what was sent within the bounds.
LEMMA RateStep ==
  ASSUME TimeInv, RateInv, NEW size \in 12 .. MaxBlockLength,
         CalculateNextPossibleSendTime(size), bytes_sent' = bytes_sent + size,
         next_possible <= clock
  PROVE  /\ RateInv'
         /\ debt' \in Nat /\ last_sent' = clock
         /\ next_possible' \in Nat /\ clock + MinDelta <= next_possible'
<1> DEFINE R == MaxFeedbackRate
           dt == clock - last_sent
           paid == dt * R
           q == debt' \div R
<1>1. /\ clock \in Nat /\ last_sent \in Nat /\ last_sent <= clock /\ debt \in Nat
      /\ next_possible \in Nat /\ dt \in Nat
  BY DEF TimeInv, MembersTypeOK
<1>2. R \in Nat \ {0} /\ MinDelta \in Nat \ {0} /\ MaxDelta \in Nat \ {0}
  BY ConstantTypes
<1>3. size \in Nat /\ MaxBlockLength \in Nat /\ size <= MaxBlockLength /\ 12 <= size
  BY LongestTypes
<1>4. paid \in Nat /\ R * clock = R * last_sent + paid
      /\ R * clock \in Nat /\ R * last_sent \in Nat
  BY <1>1, <1>2
<1>5. /\ debt' = (IF paid > debt THEN 0 ELSE debt - paid) + size
      /\ last_sent' = clock
      /\ next_possible' = clock + Larger(MinDelta, Smaller(q, MaxDelta))
  BY DEF CalculateNextPossibleSendTime, DebtAfter
<1>6. bytes_sent \in Nat /\ bytes_sent <= R * last_sent + debt
  BY DEF RateInv
<1> HIDE DEF paid
<1>7. debt' \in Nat
  BY <1>1, <1>3, <1>4, <1>5
<1>8. q \in Nat
  BY <1>2, <1>7, DivFacts
<1> HIDE DEF q
<1>9. /\ next_possible' \in Nat /\ clock + MinDelta <= next_possible'
      /\ q <= MaxDelta => clock + q <= next_possible'
  BY <1>1, <1>2, <1>5, <1>8 DEF Larger, Smaller
<1> HIDE DEF R
<1>10. bytes_sent' \in Nat /\ bytes_sent' <= R * last_sent' + debt'
  BY <1>1, <1>3, <1>4, <1>5, <1>6
<1> DEFINE K == MaxBytesPerInterval
<1>11. K \in Nat /\ MaxBlockLength <= K /\ R * MaxDelta <= K
  BY <1>2, <1>3, LongestTypes DEF R
<1>12. MaxDelta * bytes_sent' = MaxDelta * bytes_sent + MaxDelta * size
       /\ MaxDelta * bytes_sent \in Nat /\ MaxDelta * size \in Nat
  BY <1>2, <1>3, <1>6
<1>13. MaxDelta * bytes_sent <= K * (clock + 1)
  <2>1. MaxDelta * bytes_sent <= K * (next_possible + 1)
    BY DEF RateInv
  <2> HIDE DEF K
  <2>2. K * (next_possible + 1) <= K * (clock + 1)
    BY <1>1, <1>11, TimesMonotone
  <2>3. K * (next_possible + 1) \in Nat /\ K * (clock + 1) \in Nat
    BY <1>1, <1>11
  <2>4. QED
    BY <1>12, <2>1, <2>2, <2>3
<1> HIDE DEF K
<1>14. MaxDelta * bytes_sent' <= K * (last_sent' + 1) + MaxDelta * MaxBlockLength
  <2>1. MaxDelta * size <= MaxDelta * MaxBlockLength
    BY <1>2, <1>3, TimesMonotone
  <2>2. MaxDelta * MaxBlockLength \in Nat /\ K * (clock + 1) \in Nat
    BY <1>1, <1>2, <1>3, <1>11
  <2>3. QED
    BY <1>5, <1>12, <1>13, <2>1, <2>2
<1>15. MaxDelta * bytes_sent' <= K * (next_possible' + 1)
  <2> DEFINE n == next_possible' + 1
  <2>0. /\ n \in Nat /\ K * n \in Nat
        /\ q <= MaxDelta => clock + q + 1 <= n
        /\ ~(q <= MaxDelta) => clock + MaxDelta + 1 <= n
    <3>1. /\ n \in Nat
          /\ q <= MaxDelta => clock + q + 1 <= n
          /\ ~(q <= MaxDelta) => clock + MaxDelta + 1 <= n
      BY <1>1, <1>2, <1>5, <1>8, <1>9 DEF Larger, Smaller
    <3> HIDE DEF n
    <3>2. K * n \in Nat
      BY <1>11, <3>1
    <3>3. QED
      BY <3>1, <3>2
  <2> HIDE DEF n
  <2>1. CASE q <= MaxDelta
    <3>1. bytes_sent' <= R * (clock + q + 1)
      <4>1. debt' < R * q + R
        BY <1>2, <1>7, DivFacts DEF q
      <4>2. R * (clock + q + 1) = R * clock + R * q + R /\ R * q \in Nat
        BY <1>1, <1>2, <1>8
      <4>3. QED
        BY <1>2, <1>4, <1>5, <1>7, <1>10, <4>1, <4>2
    <3>2. R * (clock + q + 1) \in Nat
      BY <1>1, <1>2, <1>8
    <3>3. MaxDelta * bytes_sent' <= MaxDelta * (R * (clock + q + 1))
      BY <1>2, <1>10, <3>1, <3>2, TimesMonotone
    <3>4. MaxDelta * (R * (clock + q + 1)) = (clock + q + 1) * (R * MaxDelta)
      BY <1>1, <1>2, <1>8, TimesRegroup
    <3>5. (clock + q + 1) * (R * MaxDelta) <= (clock + q + 1) * K
      BY <1>1, <1>2, <1>8, <1>11, TimesMonotone
    <3>6. (clock + q + 1) * K = K * (clock + q + 1)
      BY <1>1, <1>8, <1>11
    <3>7. K * (clock + q + 1) <= K * n
      BY <1>1, <1>8, <1>11, <2>0, <2>1, TimesMonotone
    <3>8. MaxDelta * (R * (clock + q + 1)) \in Nat /\ K * (clock + q + 1) \in Nat
      BY <1>1, <1>2, <1>8, <1>11, <3>2
    <3>9. MaxDelta * bytes_sent' <= K * n
      BY <1>12, <2>0, <3>3, <3>4, <3>5, <3>6, <3>7, <3>8
    <3>10. QED
      BY <3>9 DEF n
  <2>2. CASE ~(q <= MaxDelta)
    <3>1. MaxDelta * size <= MaxDelta * K
      BY <1>2, <1>3, <1>11, TimesMonotone
    <3>2. K * (clock + MaxDelta + 1) = K * (clock + 1) + MaxDelta * K
          /\ K * (clock + 1) \in Nat /\ MaxDelta * K \in Nat
      BY <1>1, <1>2, <1>11
    <3>3. K * (clock + MaxDelta + 1) <= K * n
      BY <1>1, <1>2, <1>11, <2>0, <2>2, TimesMonotone
    <3>4. MaxDelta * bytes_sent' <= K * n
      BY <1>12, <1>13, <2>0, <3>1, <3>2, <3>3
    <3>5. QED
      BY <3>4 DEF n
  <2>3. QED
    BY <2>1, <2>2
<1>16. MaxBytesPerInterval' = MaxBytesPerInterval /\ MaxBlockLength' = MaxBlockLength
  BY DEF MaxBytesPerInterval, MaxBlockLength, StreamLength, Larger
<1>17. FeedbackRateBounded'
  BY <1>14, <1>16 DEF FeedbackRateBounded, K
<1>18. RateInv'
  BY <1>5, <1>9, <1>10, <1>15, <1>16, <1>17 DEF RateInv, R, K
<1>19. QED
  BY <1>5, <1>7, <1>9, <1>18

\* The time NextFeedbackTime gives is never before the rate limit allows, and not long
\* after it.
LEMMA NextFeedbackTimeFacts ==
  ASSUME clock \in Nat, NEW first, first = Nullopt \/ first \in 0 .. clock,
         NEW marker \in BOOLEAN, NEW next \in Nat
  PROVE  LET t == NextFeedbackTime(first, marker, next)
         IN /\ t \in Nat /\ next <= t
            /\ t <= Larger(clock + LongestWait, next)
            /\ first /= Nullopt => t <= Larger(first + MaxWait, next)
            /\ first = Nullopt => clock < t
<1>1. CASE first = Nullopt
  <2>1. NextFeedbackTime(first, marker, next) = Larger(clock + MinDelta, next)
    BY <1>1 DEF NextFeedbackTime
  <2>2. QED
    BY <1>1, <2>1, ConstantTypes DEF Larger
<1>2. CASE first /= Nullopt
  <2>1. first \in Nat /\ first <= clock
    BY <1>2
  <2>2. NextFeedbackTime(first, marker, next) \in {next, Larger(next, first + MaxWait)}
    BY <1>2 DEF NextFeedbackTime
  <2>3. QED
    BY <1>2, <2>1, <2>2, ConstantTypes DEF Larger
<1>3. QED
  BY <1>1, <1>2

\* A message that is sent when the rate limit allows it, from trackers in order.
LEMMA SentStep ==
  ASSUME GeneratorInv, NEW ts, \A s \in Ssrcs : TrackerOK(ts[s]), SendFeedback(ts),
         next_possible <= clock, clock' = clock, wakeup' \in Nat, clock <= wakeup',
         wakeup' <= Larger(clock + LongestWait, next_possible')
  PROVE  GeneratorInv'
<1>1. /\ trackers' = [s \in Ssrcs |-> trackers'[s]]
      /\ \A s \in Ssrcs : TrackerOK(trackers'[s]) /\ trackers'[s].packets = <<>>
      /\ marker_bit_seen' = FALSE /\ first_arrival' = Nullopt
      /\ \E size \in 12 .. MaxBlockLength :
           CalculateNextPossibleSendTime(size) /\ bytes_sent' = bytes_sent + size
  BY SendFeedbackEffect
<1>2. /\ RateInv' /\ debt' \in Nat /\ last_sent' = clock
      /\ next_possible' \in Nat /\ clock + MinDelta <= next_possible'
  BY <1>1, RateStep DEF GeneratorInv
<1>3. clock \in Nat
  BY DEF GeneratorInv, TimeInv, MembersTypeOK
<1>4. MembersTypeOK'
  <2>1. marker_bit_seen' = FALSE /\ first_arrival' = Nullopt
    BY <1>1
  <2>2. last_sent' \in 0 .. clock'
    BY <1>2, <1>3
  <2>3. QED
    BY <1>2, <1>3, <2>1, <2>2 DEF MembersTypeOK
<1>5. PendingHasDeadline'
  BY <1>1 DEF PendingHasDeadline
<1>6. \A s \in Ssrcs : \A i \in DOMAIN trackers'[s].packets : InTime(trackers[s].packets[i])'
  <2>1. DOMAIN <<>> = {}
    OBVIOUS
  <2>2. QED
    BY <1>1, <2>1
<1>7. TimeInv'
  <2>1. \A s \in Ssrcs : TrackerOK(trackers[s])'
    BY <1>1 DEF TrackerOK
  <2>2. LongestWait' = LongestWait
    BY DEF LongestWait, Larger
  <2>3. (wakeup <= Larger(clock + LongestWait, next_possible))'
    BY <2>2 DEF Larger
  <2>4. QED
    BY <1>1, <1>4, <1>5, <1>6, <2>1, <2>3 DEF TimeInv
<1>8. QED
  BY <1>2, <1>7 DEF GeneratorInv

\* A packet that is handled without feedback being due.
LEMMA KeptStep ==
  ASSUME GeneratorInv, NEW ssrc \in Ssrcs, NEW p \in PacketInfo, p.seq > 0,
         p.arrival_time <= clock, clock <= p.arrival_time + MaxLag, NEW marker \in BOOLEAN,
         trackers' = [trackers EXCEPT ![ssrc] = ReceivedPacket(@, p)],
         marker_bit_seen' = (marker_bit_seen \/ marker),
         first_arrival' = FirstArrival(p, marker),
         UNCHANGED <<clock, wakeup, next_possible, last_sent, debt, bytes_sent>>
  PROVE  GeneratorInv'
<1>1. TimeInv /\ MembersTypeOK
  BY DEF GeneratorInv, TimeInv
<1>2. clock \in Nat /\ wakeup \in Nat /\ next_possible \in Nat
      /\ p.arrival_time \in Nat
  BY <1>1 DEF MembersTypeOK, PacketInfo
<1>3. first_arrival' \in 0 .. clock /\ first_arrival' /= Nullopt
  BY <1>1, <1>2, NulloptAssumption DEF MembersTypeOK, FirstArrival
<1>4. MembersTypeOK'
  BY <1>1, <1>3 DEF MembersTypeOK
<1> DEFINE tr == ReceivedPacket(trackers[ssrc], p)
<1>5. /\ TrackerOK(tr) /\ tr.packets /= <<>>
      /\ \A i \in DOMAIN tr.packets :
           \/ tr.packets[i] = p
           \/ \E j \in DOMAIN trackers[ssrc].packets : tr.packets[i] = trackers[ssrc].packets[j]
  BY <1>1, ReceivedPacketOK DEF TimeInv
<1> HIDE DEF tr
<1>6. /\ trackers' = [s \in Ssrcs |-> trackers'[s]] /\ trackers'[ssrc] = tr
      /\ \A s \in Ssrcs : s /= ssrc => trackers'[s] = trackers[s]
  BY <1>1 DEF TimeInv, tr
<1>7. \A s \in Ssrcs : TrackerOK(trackers[s])'
  <2>1. \A s \in Ssrcs : TrackerOK(trackers'[s])
    BY <1>1, <1>5, <1>6 DEF TimeInv
  <2>2. QED
    BY <2>1 DEF TrackerOK
<1>8. PendingHasDeadline'
  BY <1>3, <1>5, <1>6 DEF PendingHasDeadline
<1>9. /\ first_arrival' <= p.arrival_time + MaxLag
      /\ wakeup' <= Larger(p.arrival_time + MaxLag + LongestWait, next_possible')
  <2>1. wakeup <= Larger(clock + LongestWait, next_possible)
    BY <1>1 DEF TimeInv
  <2>2. QED
    BY <1>2, <1>3, <2>1, ConstantTypes DEF Larger
<1>10. ASSUME NEW s \in Ssrcs, NEW i \in DOMAIN trackers[s].packets
       PROVE  /\ first_arrival' <= trackers[s].packets[i].arrival_time + MaxLag
              /\ wakeup' <= Larger(trackers[s].packets[i].arrival_time + MaxLag + LongestWait,
                                   next_possible')
  <2>1. InTime(trackers[s].packets[i])
    BY <1>1 DEF TimeInv
  <2>2. trackers[s].packets /= <<>>
    OBVIOUS
  <2>3. first_arrival /= Nullopt
    BY <1>1, <2>2 DEF TimeInv, PendingHasDeadline
  <2>4. first_arrival' = first_arrival
    BY <2>3 DEF FirstArrival
  <2>5. QED
    BY <2>1, <2>4 DEF InTime
<1>11. ASSUME NEW s \in Ssrcs, NEW i \in DOMAIN trackers'[s].packets
       PROVE  /\ first_arrival' <= trackers'[s].packets[i].arrival_time + MaxLag
              /\ wakeup' <= Larger(trackers'[s].packets[i].arrival_time + MaxLag + LongestWait,
                                   next_possible')
  <2>1. CASE s /= ssrc
    BY <1>6, <1>10, <2>1
  <2>2. CASE s = ssrc
    <3>1. trackers'[s] = tr
      BY <1>6, <2>2
    <3>2. CASE tr.packets[i] = p
      BY <1>9, <3>1, <3>2
    <3>3. CASE tr.packets[i] /= p
      <4>1. PICK j \in DOMAIN trackers[ssrc].packets : tr.packets[i] = trackers[ssrc].packets[j]
        BY <1>5, <3>1, <3>3
      <4>2. QED
        BY <1>10, <2>2, <3>1, <4>1
    <3>4. QED
      BY <3>2, <3>3
  <2>3. QED
    BY <2>1, <2>2
<1>12. \A s \in Ssrcs : \A i \in DOMAIN trackers'[s].packets : InTime(trackers[s].packets[i])'
  BY <1>11 DEF InTime, LongestWait, Larger
<1>13. clock' <= wakeup' /\ (wakeup <= Larger(clock + LongestWait, next_possible))'
  BY <1>1 DEF TimeInv, Larger, LongestWait
<1>14. TimeInv'
  BY <1>4, <1>6, <1>7, <1>8, <1>12, <1>13 DEF TimeInv
<1>15. RateInv'
  BY DEF GeneratorInv, RateInv, FeedbackRateBounded, MaxBytesPerInterval, MaxBlockLength,
            StreamLength, Larger
<1>16. QED
  BY <1>14, <1>15 DEF GeneratorInv

----
(***************************************************************************)
(* Steps                                                                   *)
(***************************************************************************)
\* OnReceivedPacket preserves the invariant, and sends only when the rate limit allows.
LEMMA OnReceivedPacketStep ==
  ASSUME GeneratorInv, NEW ssrc \in Ssrcs, NEW p \in PacketInfo, p.seq > 0,
         p.arrival_time <= clock, clock <= p.arrival_time + MaxLag, NEW marker \in BOOLEAN,
         OnReceivedPacket(ssrc, p, marker)
  PROVE  GeneratorInv' /\ (bytes_sent' /= bytes_sent => next_possible <= clock)
<1> DEFINE ts    == [trackers EXCEPT ![ssrc] = ReceivedPacket(@, p)]
           first == FirstArrival(p, marker)
           seen  == marker_bit_seen \/ marker
           time  == NextFeedbackTime(first, seen, next_possible)
<1>1. TimeInv /\ MembersTypeOK
  BY DEF GeneratorInv, TimeInv
<1>2. clock \in Nat /\ wakeup \in Nat /\ next_possible \in Nat /\ p.arrival_time \in Nat
      /\ first \in 0 .. clock /\ seen \in BOOLEAN
  BY <1>1 DEF MembersTypeOK, PacketInfo, FirstArrival
<1>3. time \in Nat /\ next_possible <= time
  <2> HIDE DEF first, seen
  <2> QED BY <1>2, NextFeedbackTimeFacts
<1>4. CASE time < p.arrival_time
  <2>1. SendFeedback(ts) /\ clock' = clock /\ wakeup' = wakeup
    BY <1>4 DEF OnReceivedPacket
  <2>2. \A s \in Ssrcs : TrackerOK(ts[s])
    <3>1. TrackerOK(ReceivedPacket(trackers[ssrc], p))
      BY <1>1, ReceivedPacketOK DEF TimeInv
    <3>2. QED
      BY <1>1, <3>1 DEF TimeInv
  <2> HIDE DEF ts, time
  <2>3. next_possible <= clock
    BY <1>2, <1>3, <1>4
  <2>4. clock <= wakeup' /\ wakeup' <= Larger(clock + LongestWait, next_possible')
    <3>1. wakeup <= Larger(clock + LongestWait, next_possible) /\ clock <= wakeup
      BY <1>1 DEF TimeInv
    <3>2. wakeup <= clock + LongestWait
      BY <1>2, <2>3, <3>1, ConstantTypes DEF Larger
    <3>3. PICK size \in 12 .. MaxBlockLength :
            CalculateNextPossibleSendTime(size) /\ bytes_sent' = bytes_sent + size
      BY <2>1, <2>2, SendFeedbackEffect
    <3>4. next_possible' \in Nat
      BY <2>3, <3>3, RateStep DEF GeneratorInv
    <3>5. QED
      BY <1>2, <2>1, <3>1, <3>2, <3>4, ConstantTypes DEF Larger
  <2>5. QED
    BY <1>2, <2>1, <2>2, <2>3, <2>4, SentStep
<1>5. CASE ~(time < p.arrival_time)
  <2>1. /\ trackers' = ts /\ marker_bit_seen' = seen /\ first_arrival' = first
        /\ UNCHANGED <<clock, wakeup, next_possible, last_sent, debt, bytes_sent>>
    BY <1>5 DEF OnReceivedPacket
  <2>2. QED
    BY <2>1, KeptStep
<1>6. QED
  BY <1>4, <1>5

\* Process preserves the invariant, and sends only when the rate limit allows.
LEMMA ProcessStep ==
  ASSUME GeneratorInv, Process
  PROVE  GeneratorInv' /\ (bytes_sent' /= bytes_sent => next_possible <= clock)
<1> DEFINE time == NextFeedbackTime(first_arrival, marker_bit_seen, next_possible)
<1>1. TimeInv /\ MembersTypeOK
  BY DEF GeneratorInv, TimeInv
<1>2. clock \in Nat /\ wakeup \in Nat /\ next_possible \in Nat
      /\ (first_arrival = Nullopt \/ first_arrival \in 0 .. clock)
      /\ marker_bit_seen \in BOOLEAN
  BY <1>1 DEF MembersTypeOK
<1>3. /\ time \in Nat /\ next_possible <= time
      /\ time <= Larger(clock + LongestWait, next_possible)
      /\ first_arrival /= Nullopt => time <= Larger(first_arrival + MaxWait, next_possible)
  BY <1>2, NextFeedbackTimeFacts
<1>4. clock' = clock
  BY DEF Process
<1>5. CASE time <= clock
  <2>1. SendFeedback(trackers)
    BY <1>5 DEF Process
  <2>2. next_possible <= clock
    BY <1>2, <1>3, <1>5
  <2>3. \A s \in Ssrcs : TrackerOK(trackers[s])
    BY <1>1 DEF TimeInv
  <2>4. /\ marker_bit_seen' = FALSE /\ first_arrival' = Nullopt
        /\ \E size \in 12 .. MaxBlockLength :
             CalculateNextPossibleSendTime(size) /\ bytes_sent' = bytes_sent + size
    BY <2>1, <2>3, SendFeedbackEffect
  <2>5. next_possible' \in Nat
    BY <2>2, <2>4, RateStep DEF GeneratorInv
  <2>6. wakeup' = Larger(clock + MinDelta, next_possible')
    BY <1>4, <2>4 DEF Process, NextFeedbackTime
  <2>7. /\ wakeup' \in Nat /\ clock <= wakeup'
        /\ wakeup' <= Larger(clock + LongestWait, next_possible')
    BY <1>2, <2>5, <2>6, ConstantTypes DEF Larger
  <2>8. QED
    BY <1>4, <2>1, <2>2, <2>3, <2>7, SentStep
<1>6. CASE ~(time <= clock)
  <2>1. UNCHANGED <<trackers, marker_bit_seen, first_arrival, next_possible, last_sent,
                    debt, bytes_sent>>
    BY <1>6 DEF Process
  <2>2. wakeup' = time
    BY <1>4, <2>1 DEF Process, NextFeedbackTime
  <2> HIDE DEF time
  <2>3. MembersTypeOK'
    BY <1>1, <1>3, <1>4, <2>1, <2>2 DEF MembersTypeOK
  <2>4. ASSUME NEW s \in Ssrcs, NEW i \in DOMAIN trackers[s].packets
        PROVE  /\ first_arrival <= trackers[s].packets[i].arrival_time + MaxLag
               /\ time <= Larger(trackers[s].packets[i].arrival_time + MaxLag + LongestWait,
                                 next_possible)
    <3>1. InTime(trackers[s].packets[i])
      BY <1>1 DEF TimeInv
    <3>2. trackers[s].packets /= <<>>
      OBVIOUS
    <3>3. first_arrival /= Nullopt /\ first_arrival \in Nat
      BY <1>1, <1>2, <3>2 DEF TimeInv, PendingHasDeadline
    <3>4. trackers[s].packets[i].arrival_time \in Nat
      BY <1>1, PacketTypes DEF TimeInv, TrackerOK
    <3>5. first_arrival <= trackers[s].packets[i].arrival_time + MaxLag
      BY <3>1 DEF InTime
    <3>6. QED
      BY <1>2, <1>3, <3>3, <3>4, <3>5, ConstantTypes DEF Larger
  <2>5. \A s \in Ssrcs : \A i \in DOMAIN trackers'[s].packets : InTime(trackers[s].packets[i])'
    BY <2>1, <2>2, <2>4 DEF InTime, LongestWait, Larger
  <2>6. \A s \in Ssrcs : TrackerOK(trackers[s])'
    BY <1>1, <2>1 DEF TimeInv, TrackerOK
  <2>7. PendingHasDeadline' /\ trackers' = [s \in Ssrcs |-> trackers'[s]]
    BY <1>1, <2>1 DEF TimeInv, PendingHasDeadline
  <2>8. clock' <= wakeup' /\ (wakeup <= Larger(clock + LongestWait, next_possible))'
    BY <1>2, <1>3, <1>4, <1>6, <2>1, <2>2 DEF Larger, LongestWait
  <2>9. TimeInv'
    BY <2>3, <2>5, <2>6, <2>7, <2>8 DEF TimeInv
  <2>10. RateInv'
    BY <2>1 DEF GeneratorInv, RateInv, FeedbackRateBounded, MaxBytesPerInterval, MaxBlockLength,
            StreamLength, Larger
  <2>11. QED
    BY <2>1, <2>9, <2>10 DEF GeneratorInv
<1>7. QED
  BY <1>5, <1>6

\* Time passes, but not past the time the repeating task was asked for.
LEMMA TickStep ==
  ASSUME GeneratorInv, clock' \in Nat, clock <= clock', clock' <= wakeup,
         UNCHANGED <<trackers, marker_bit_seen, first_arrival, next_possible, last_sent,
                     debt, wakeup, bytes_sent>>
  PROVE  GeneratorInv'
<1>1. TimeInv /\ MembersTypeOK
  BY DEF GeneratorInv, TimeInv
<1>2. clock \in Nat
  BY <1>1 DEF MembersTypeOK
<1>3. MembersTypeOK'
  BY <1>1, <1>2 DEF MembersTypeOK
<1>4. clock' <= wakeup' /\ (wakeup <= Larger(clock + LongestWait, next_possible))'
  <2>1. wakeup <= Larger(clock + LongestWait, next_possible)
        /\ wakeup \in Nat /\ next_possible \in Nat
    BY <1>1 DEF TimeInv, MembersTypeOK
  <2>2. clock' \in Nat /\ clock \in Nat /\ clock <= clock' /\ LongestWait \in Nat
    BY <1>2, ConstantTypes
  <2>3. wakeup <= Larger(clock' + LongestWait, next_possible)
    BY <2>1, <2>2, LargerMonotone
  <2>4. clock' <= wakeup' /\ wakeup' = wakeup /\ next_possible' = next_possible
    BY <1>2
  <2>5. QED
    BY <2>3, <2>4 DEF Larger, LongestWait
<1>5. \A s \in Ssrcs : \A i \in DOMAIN trackers'[s].packets : InTime(trackers[s].packets[i])'
  BY <1>1, <1>2 DEF TimeInv, InTime, LongestWait, Larger
<1>6. \A s \in Ssrcs : TrackerOK(trackers[s])'
  BY <1>1, <1>2 DEF TimeInv, TrackerOK
<1>7. PendingHasDeadline' /\ trackers' = [s \in Ssrcs |-> trackers'[s]]
  BY <1>1, <1>2 DEF TimeInv, PendingHasDeadline
<1>8. TimeInv'
  BY <1>3, <1>4, <1>5, <1>6, <1>7 DEF TimeInv
<1>9. RateInv'
  BY <1>2 DEF GeneratorInv, RateInv, FeedbackRateBounded, MaxBytesPerInterval, MaxBlockLength,
            StreamLength, Larger
<1>10. QED
  BY <1>2, <1>8, <1>9 DEF GeneratorInv

\* Every step preserves the invariant, and sends only when the rate limit allows.
LEMMA GeneratorNextStep ==
  ASSUME GeneratorInv, [GeneratorNext]_generatorVars
  PROVE  GeneratorInv' /\ (bytes_sent' /= bytes_sent => next_possible <= clock)
<1>1. ASSUME NEW ssrc \in Ssrcs, NEW seq \in 1 .. MaxSeq, NEW ecn \in Ecns,
             NEW marker \in BOOLEAN, NEW lag \in 0 .. Smaller(MaxLag, clock),
             OnReceivedPacket(ssrc, [seq |-> seq, arrival_time |-> clock - lag, ecn |-> ecn],
                              marker)
      PROVE  GeneratorInv' /\ (bytes_sent' /= bytes_sent => next_possible <= clock)
  <2> DEFINE p == [seq |-> seq, arrival_time |-> clock - lag, ecn |-> ecn]
  <2>1. clock \in Nat /\ MaxLag \in Nat /\ MaxSeq \in Nat
    BY ConstantTypes DEF GeneratorInv, TimeInv, MembersTypeOK
  <2>2. lag \in Nat /\ lag <= MaxLag /\ lag <= clock
    BY <2>1 DEF Smaller
  <2>3. p \in PacketInfo /\ p.seq > 0 /\ p.arrival_time = clock - lag
    BY <2>1, <2>2 DEF PacketInfo
  <2>4. p.arrival_time <= clock /\ clock <= p.arrival_time + MaxLag
    BY <2>1, <2>2, <2>3
  <2>5. OnReceivedPacket(ssrc, p, marker)
    BY <1>1
  <2> HIDE DEF p
  <2>6. QED
    BY <2>3, <2>4, <2>5, OnReceivedPacketStep
<1>2. CASE Process
  BY <1>2, ProcessStep
<1>3. CASE Tick \/ UNCHANGED generatorVars
  <2>1. clock \in Nat /\ wakeup \in Nat /\ clock <= wakeup
    BY DEF GeneratorInv, TimeInv, MembersTypeOK
  <2>2. UNCHANGED <<trackers, marker_bit_seen, first_arrival, next_possible, last_sent,
                    debt, wakeup, bytes_sent>>
    BY <1>3 DEF Tick, generatorVars
  <2>3. clock' = clock \/ (clock < wakeup /\ clock' = clock + 1)
    BY <1>3 DEF Tick, generatorVars
  <2>4. clock' \in Nat /\ clock <= clock' /\ clock' <= wakeup
    BY <2>1, <2>3
  <2>5. QED
    BY <2>2, <2>4, TickStep
<1>4. QED
  BY <1>1, <1>2, <1>3 DEF GeneratorNext

\* A new generator satisfies the invariant.
LEMMA GeneratorInitInv == GeneratorInit => GeneratorInv
<1> SUFFICES ASSUME GeneratorInit PROVE GeneratorInv
  OBVIOUS
<1>1. /\ clock = 0 /\ trackers = [s \in Ssrcs |-> NewTracker] /\ marker_bit_seen = FALSE
      /\ first_arrival = Nullopt /\ next_possible = 0 /\ last_sent = 0 /\ debt = 0
      /\ wakeup = 0 /\ bytes_sent = 0
  BY DEF GeneratorInit
<1>2. MembersTypeOK
  <2>1. /\ clock = 0 /\ next_possible = 0 /\ last_sent = 0 /\ debt = 0 /\ wakeup = 0
        /\ first_arrival = Nullopt
    BY <1>1
  <2>2. clock \in Nat /\ next_possible \in Nat /\ last_sent \in 0 .. clock /\ debt \in Nat
        /\ wakeup \in Nat
    BY <2>1
  <2>3. marker_bit_seen \in BOOLEAN
    BY <1>1
  <2>4. QED
    BY <2>1, <2>2, <2>3 DEF MembersTypeOK
<1>3. NewTracker.last = Nullopt /\ NewTracker.packets = <<>>
  BY DEF NewTracker
<1>4. Len(<<>>) = 0 /\ <<>> \in Seq(PacketInfo) /\ DOMAIN <<>> = {}
  OBVIOUS
<1>5. \A s \in Ssrcs : trackers[s].last = Nullopt /\ trackers[s].packets = <<>>
  BY <1>1, <1>3
<1>6. \A s \in Ssrcs : TrackerOK(trackers[s])
  <2>1. TrackerOK(NewTracker)
    BY <1>3, <1>4, MaxPacketsPerSsrcAssumption DEF TrackerOK
  <2>2. QED
    BY <1>1, <2>1
<1>7. PendingHasDeadline
  BY <1>1, <1>5 DEF PendingHasDeadline
<1>8. clock <= wakeup /\ wakeup <= Larger(clock + LongestWait, next_possible)
  BY <1>1, ConstantTypes DEF Larger
<1>9. TimeInv
  BY <1>1, <1>2, <1>4, <1>5, <1>6, <1>7, <1>8 DEF TimeInv
<1>10. RateInv
  <2>1. MaxFeedbackRate \in Nat /\ MaxDelta \in Nat
    BY ConstantTypes
  <2>2. MaxFeedbackRate * 0 = 0 /\ MaxDelta * 0 = 0 /\ MaxDelta * MaxBlockLength \in Nat
        /\ MaxBytesPerInterval * (0 + 1) \in Nat
    BY <2>1, LongestTypes
  <2>3. FeedbackRateBounded
    BY <1>1, <2>2 DEF FeedbackRateBounded
  <2>4. QED
    BY <1>1, <2>2, <2>3 DEF RateInv
<1>11. QED
  BY <1>9, <1>10 DEF GeneratorInv

\* The inductive invariant holds in every state of every behaviour.
LEMMA GeneratorInvAlways == GeneratorSpec => []GeneratorInv
<1>1. GeneratorInv /\ [GeneratorNext]_generatorVars => GeneratorInv'
  BY GeneratorNextStep
<1>2. QED
  BY <1>1, GeneratorInitInv, PTL DEF GeneratorSpec

----
(***************************************************************************)
(* Results                                                                 *)
(***************************************************************************)
\* The members of CongestionControlFeedbackGenerator keep their types, and a tracker never
\* has more than kMaxPacketsPerSsrc + 1 packets.
THEOREM GeneratorTypeCorrect == GeneratorSpec => []GeneratorTypeOK
<1>1. GeneratorInv => GeneratorTypeOK
  <2> SUFFICES ASSUME GeneratorInv PROVE GeneratorTypeOK
    OBVIOUS
  <2>1. MembersTypeOK
    BY DEF GeneratorInv, TimeInv
  <2>2. \A s \in Ssrcs : /\ trackers[s].last = Nullopt \/ trackers[s].last \in Nat
                        /\ trackers[s].packets \in Seq(PacketInfo)
                        /\ Len(trackers[s].packets) <= MaxPacketsPerSsrc + 1
    BY DEF GeneratorInv, TimeInv, TrackerOK
  <2>3. QED
    BY <2>1, <2>2 DEF MembersTypeOK, GeneratorTypeOK
<1>2. QED
  BY <1>1, GeneratorInvAlways, PTL

\* No received packet is stranded: while packets wait the time of the first arrival is
\* set, and NextFeedbackTime comes due.
THEOREM NoPacketStranded == GeneratorSpec => []PendingHasDeadline
<1>1. GeneratorInv => PendingHasDeadline
  BY DEF GeneratorInv, TimeInv
<1>2. QED
  BY <1>1, GeneratorInvAlways, PTL

\* No packet waits longer for feedback than for a marker or for the repeating task,
\* unless the rate limit forbids feedback, for any intervals the field trial sets.
THEOREM DelayBounded == GeneratorSpec => []FeedbackDelayBounded
<1>1. GeneratorInv => FeedbackDelayBounded
  <2> SUFFICES ASSUME GeneratorInv, NEW s \in Ssrcs, NEW i \in DOMAIN trackers[s].packets
               PROVE  clock <= Larger(trackers[s].packets[i].arrival_time + MaxLag
                                        + Larger(MinDelta, MaxWait), next_possible)
    BY DEF FeedbackDelayBounded
  <2> DEFINE a == trackers[s].packets[i].arrival_time
  <2>1. InTime(trackers[s].packets[i]) /\ TrackerOK(trackers[s]) /\ clock <= wakeup
        /\ clock \in Nat /\ wakeup \in Nat /\ next_possible \in Nat
    BY DEF GeneratorInv, TimeInv, MembersTypeOK
  <2>2. a \in Nat
    BY <2>1, PacketTypes DEF TrackerOK
  <2>3. wakeup <= Larger(a + MaxLag + LongestWait, next_possible)
    BY <2>1 DEF InTime
  <2> HIDE DEF a
  <2>4. clock <= Larger(a + MaxLag + LongestWait, next_possible)
    BY <2>1, <2>2, <2>3, ConstantTypes DEF Larger
  <2>5. QED
    BY <2>4 DEF a, LongestWait
<1>2. QED
  BY <1>1, GeneratorInvAlways, PTL

\* However the messages are sized, all feedback sent stays within kMaxFeedbackRate up to
\* one message and a tick, or, where the longest message cannot be paid for within
\* max_time_between_feedback_, within one such message for each such interval.
THEOREM RateBounded == GeneratorSpec => []FeedbackRateBounded
<1>1. GeneratorInv => FeedbackRateBounded
  BY DEF GeneratorInv, RateInv
<1>2. QED
  BY <1>1, GeneratorInvAlways, PTL

\* Messages are MinDelta apart and never before next_possible_feedback_send_time_, the
\* RTC_DCHECK_GE in SendFeedback.
THEOREM MessagesSpaced == GeneratorSpec => FeedbackSpaced
<1> DEFINE A == bytes_sent' /= bytes_sent => /\ clock >= next_possible
                                             /\ bytes_sent > 0 => clock - last_sent >= MinDelta
<1>1. GeneratorInv /\ [GeneratorNext]_generatorVars => [A]_generatorVars
  <2> SUFFICES ASSUME GeneratorInv, [GeneratorNext]_generatorVars, bytes_sent' /= bytes_sent
               PROVE  /\ clock >= next_possible
                      /\ bytes_sent > 0 => clock - last_sent >= MinDelta
    OBVIOUS
  <2>1. next_possible <= clock
    BY GeneratorNextStep
  <2>2. /\ clock \in Nat /\ next_possible \in Nat /\ last_sent \in Nat
        /\ bytes_sent > 0 => last_sent + MinDelta <= next_possible
    BY DEF GeneratorInv, TimeInv, RateInv, MembersTypeOK
  <2>3. QED
    BY <2>1, <2>2, ConstantTypes
<1>2. QED
  BY <1>1, GeneratorInvAlways, PTL DEF GeneratorSpec, FeedbackSpaced

\* No packet waits behind the start of the next message, although packets come late and
\* again: ReceivedPacket rewinds far enough.
THEOREM NoPacketBehind == GeneratorSpec => []PendingAboveLast
<1>1. GeneratorInv => PendingAboveLast
  <2> SUFFICES ASSUME GeneratorInv, NEW s \in Ssrcs PROVE
                 trackers[s].last /= Nullopt =>
                   \A i \in DOMAIN trackers[s].packets :
                      trackers[s].packets[i].seq > trackers[s].last
    BY DEF PendingAboveLast
  <2>1. TrackerOK(trackers[s])
    BY DEF GeneratorInv, TimeInv
  <2>2. DOMAIN trackers[s].packets = 1 .. Len(trackers[s].packets)
    BY <2>1 DEF TrackerOK
  <2>3. QED
    BY <2>1, <2>2 DEF TrackerOK
<1>2. QED
  BY <1>1, GeneratorInvAlways, PTL

\* Without packets waiting AddPacketsToFeedback reports nothing; with packets it reports
\* what AddPacketsToFeedbackOK says.
LEMMA ReportFacts ==
  ASSUME NEW tr, TrackerOK(tr), NEW report \in Reports(tr)
  PROVE  \/ report = <<>> /\ tr.packets = <<>>
         \/ /\ report \in Seq(PacketReports)
            /\ Len(report) \in 1 .. MaxPacketsPerSsrc
            /\ \A i \in 1 .. Len(report) :
                 EntryFor(tr.packets, report[i], report[1].seq + i - 1)
            /\ Len(report) < MaxPacketsPerSsrc =>
                 \A i \in 1 .. Len(tr.packets) : \E j \in 1 .. Len(report) :
                    report[j].seq = tr.packets[i].seq /\ report[j].received
<1>1. PICK sorted \in Sorted(tr.packets) : report = AddPacketsToFeedback(tr, sorted).report
  BY DEF Reports
<1>2. CASE tr.packets = <<>>
  BY <1>1, <1>2 DEF AddPacketsToFeedback
<1>3. CASE tr.packets /= <<>>
  BY <1>1, <1>3, AddPacketsToFeedbackOK
<1>4. QED
  BY <1>2, <1>3

\* Whatever has arrived, in whatever order, every message that AddPacketsToFeedback can
\* make lists consecutive sequence numbers and says of each what the packets that wait
\* amount to: the arrival time of the first copy, and CE if any copy was marked.
THEOREM FeedbackMatchesPending == GeneratorSpec => []ReportMatchesPending
<1>1. GeneratorInv => ReportMatchesPending
  <2> SUFFICES ASSUME GeneratorInv, NEW s \in Ssrcs, NEW report \in Reports(trackers[s]),
                      NEW i \in DOMAIN report
               PROVE  EntryFor(trackers[s].packets, report[i], report[1].seq + i - 1)
    BY DEF ReportMatchesPending
  <2>1. TrackerOK(trackers[s])
    BY DEF GeneratorInv, TimeInv
  <2> DEFINE waiting == trackers[s].packets
  <2>2. CASE report = <<>>
    BY <2>2
  <2>3. CASE report /= <<>>
    <3>1. /\ report \in Seq(PacketReports)
          /\ \A j \in 1 .. Len(report) : EntryFor(waiting, report[j], report[1].seq + j - 1)
      BY <2>1, <2>3, ReportFacts
    <3>2. i \in 1 .. Len(report)
      BY <3>1
    <3>3. QED
      BY <3>1, <3>2
  <2>4. QED
    BY <2>2, <2>3
<1>2. QED
  BY <1>1, GeneratorInvAlways, PTL

\* A report that is not full has every packet that waits, and no report has more than
\* kMaxPacketsPerSsrc entries.
THEOREM FeedbackComplete == GeneratorSpec => []ReportComplete
<1>1. GeneratorInv => ReportComplete
  <2> SUFFICES ASSUME GeneratorInv, NEW s \in Ssrcs, NEW report \in Reports(trackers[s])
               PROVE  /\ Len(report) <= MaxPacketsPerSsrc
                      /\ Len(report) < MaxPacketsPerSsrc =>
                           \A i \in DOMAIN trackers[s].packets : \E j \in DOMAIN report :
                              report[j].seq = trackers[s].packets[i].seq /\ report[j].received
    BY DEF ReportComplete
  <2>1. TrackerOK(trackers[s])
    BY DEF GeneratorInv, TimeInv
  <2> DEFINE waiting == trackers[s].packets
  <2>2. DOMAIN waiting = 1 .. Len(waiting)
    BY <2>1 DEF TrackerOK
  <2>3. CASE report = <<>> /\ waiting = <<>>
    <3>1. Len(report) = 0 /\ DOMAIN waiting = {}
      BY <2>3
    <3>2. QED
      BY <3>1, MaxPacketsPerSsrcAssumption
  <2>4. CASE ~(report = <<>> /\ waiting = <<>>)
    <3>1. /\ report \in Seq(PacketReports)
          /\ Len(report) \in 1 .. MaxPacketsPerSsrc
          /\ Len(report) < MaxPacketsPerSsrc =>
               \A i \in 1 .. Len(waiting) : \E j \in 1 .. Len(report) :
                  report[j].seq = waiting[i].seq /\ report[j].received
      BY <2>1, <2>4, ReportFacts
    <3>2. DOMAIN report = 1 .. Len(report)
      BY <3>1
    <3>3. QED
      BY <2>2, <3>1, <3>2, MaxPacketsPerSsrcAssumption
  <2>5. QED
    BY <2>3, <2>4
<1>2. QED
  BY <1>1, GeneratorInvAlways, PTL
====
