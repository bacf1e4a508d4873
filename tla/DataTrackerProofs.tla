---- MODULE DataTrackerProofs ----
(***************************************************************************)
(* Proofs about DataTracker for TSNs that arrive in any order and number,  *)
(* and are given up in any ranges: whatever comes, the tracker knows what  *)
(* came.                                                                   *)
(***************************************************************************)
EXTENDS DataTracker, TLAPS

AckStates == {"Idle", "BecomingDelayed", "Delayed", "Immediate"}
Blocks == [first : Nat, last : Nat]
Trackers == [cum_tsn : Nat, blocks : SUBSET Blocks, ack : AckStates, seen : BOOLEAN]
AllTsns == Nat \ {0}

Tracks(d, got) == d \in Trackers /\ TracksExactly(d, got, AllTsns)

(***************************************************************************)
(* Blocks                                                                  *)
(***************************************************************************)
\* Blocks that are in order, and neither overlap nor touch.
Apart(blocks) ==
  /\ \A b \in blocks : b.first <= b.last
  /\ \A b, c \in blocks : b = c \/ b.last + 1 < c.first \/ c.last + 1 < b.first

\* A block is what its first and its last TSN say.
LEMMA BlockFields ==
  ASSUME NEW m \in Nat, NEW n \in Nat
  PROVE  Block(m, n) \in Blocks /\ Block(m, n).first = m /\ Block(m, n).last = n
BY DEF Block, Blocks

\* The block Add builds: it replaces the neighbours of the TSN, and covers them and
\* the TSN.
LEMMA AddJoins ==
  ASSUME NEW blocks \in SUBSET Blocks, Apart(blocks), NEW tsn \in AllTsns,
         ~ \E b \in blocks : Covers(b, tsn)
  PROVE  \E touched \in SUBSET blocks, new \in Blocks :
           /\ Add(blocks, tsn) = (blocks \ touched) \cup {new}
           /\ new.first <= tsn /\ tsn <= new.last
           /\ \A b \in touched : b.last + 1 = tsn \/ b.first = tsn + 1
           /\ \A b \in blocks \ touched : b.last + 1 < new.first \/ new.last + 1 < b.first
           /\ \A t \in Nat : Covers(new, t) <=> t = tsn \/ \E b \in touched : Covers(b, t)
<1> DEFINE left == {b \in blocks : b.last + 1 = tsn}
           right == {b \in blocks : b.first = tsn + 1}
           first == IF left = {} THEN tsn ELSE (CHOOSE b \in left : TRUE).first
           last == IF right = {} THEN tsn ELSE (CHOOSE b \in right : TRUE).last
<1>0. tsn \in Nat /\ \A b \in blocks : b.first \in Nat /\ b.last \in Nat
  BY DEF AllTsns, Blocks
<1>1. \A b \in left : left = {b} /\ first = b.first
  <2> SUFFICES ASSUME NEW b \in left PROVE left = {b} /\ first = b.first
    OBVIOUS
  <2>1. \A c \in left : c = b
    BY <1>0 DEF Apart
  <2> QED BY <2>1
<1>2. \A b \in right : right = {b} /\ last = b.last
  <2> SUFFICES ASSUME NEW b \in right PROVE right = {b} /\ last = b.last
    OBVIOUS
  <2>1. \A c \in right : c = b
    BY <1>0 DEF Apart
  <2> QED BY <2>1
<1>3. first \in Nat /\ first <= tsn /\ (left = {} => first = tsn)
  <2>1. CASE left = {} BY <2>1, <1>0
  <2>2. CASE left /= {}
    <3>1. PICK b \in left : TRUE BY <2>2
    <3>2. b.first <= b.last BY <3>1 DEF Apart
    <3> HIDE DEF first
    <3> QED BY <3>1, <3>2, <1>0, <1>1
  <2> QED BY <2>1, <2>2
<1>4. last \in Nat /\ tsn <= last /\ (right = {} => last = tsn)
  <2>1. CASE right = {} BY <2>1, <1>0
  <2>2. CASE right /= {}
    <3>1. PICK b \in right : TRUE BY <2>2
    <3>2. b.first <= b.last BY <3>1 DEF Apart
    <3> HIDE DEF last
    <3> QED BY <3>1, <3>2, <1>0, <1>2
  <2> QED BY <2>1, <2>2
<1>5. Add(blocks, tsn) = (blocks \ (left \cup right)) \cup {Block(first, last)}
  BY DEF Add
<1> DEFINE touched == left \cup right
           new == Block(first, last)
<1>6. new \in Blocks /\ new.first = first /\ new.last = last
  BY <1>3, <1>4, BlockFields
<1>7. \A b \in blocks \ touched : b.last + 1 < first \/ last + 1 < b.first
  <2> HIDE DEF first, last
  <2> SUFFICES ASSUME NEW b \in blocks, b \notin left, b \notin right
               PROVE  b.last + 1 < first \/ last + 1 < b.first
    OBVIOUS
  <2>1. b.last + 1 < tsn \/ tsn + 1 < b.first
    BY <1>0 DEF Covers
  <2>2. CASE b.last + 1 < tsn
    <3>1. CASE left = {} BY <3>1, <2>2, <1>3
    <3>2. CASE left /= {}
      <4>1. PICK c \in left : TRUE BY <3>2
      <4>2. b.last + 1 < c.first \/ c.last + 1 < b.first
        BY <4>1 DEF Apart
      <4>3. b.first <= b.last BY DEF Apart
      <4> QED BY <4>1, <4>2, <4>3, <2>2, <1>0, <1>1
    <3> QED BY <3>1, <3>2
  <2>3. CASE tsn + 1 < b.first
    <3>1. CASE right = {} BY <3>1, <2>3, <1>4
    <3>2. CASE right /= {}
      <4>1. PICK c \in right : TRUE BY <3>2
      <4>2. b.last + 1 < c.first \/ c.last + 1 < b.first
        BY <4>1 DEF Apart
      <4>3. b.first <= b.last BY DEF Apart
      <4> QED BY <4>1, <4>2, <4>3, <2>3, <1>0, <1>2
    <3> QED BY <3>1, <3>2
  <2> QED BY <2>1, <2>2, <2>3
<1>8. \A t \in Nat : Covers(new, t) <=> t = tsn \/ \E b \in touched : Covers(b, t)
  <2> HIDE DEF first, last, new
  <2> SUFFICES ASSUME NEW t \in Nat
               PROVE  (first <= t /\ t <= last) <=> t = tsn \/ \E b \in left \cup right : Covers(b, t)
    BY <1>6 DEF Covers
  <2>1. (\E b \in left : Covers(b, t)) <=> first <= t /\ t < tsn
    <3>1. CASE left = {} BY <3>1, <1>3, <1>0
    <3>2. CASE left /= {}
      <4>1. PICK c \in left : TRUE BY <3>2
      <4>2. left = {c} /\ first = c.first BY <4>1, <1>1
      <4>3. Covers(c, t) <=> first <= t /\ t < tsn
        BY <4>1, <4>2, <1>0 DEF Covers
      <4> QED BY <4>2, <4>3
    <3> QED BY <3>1, <3>2
  <2>2. (\E b \in right : Covers(b, t)) <=> tsn < t /\ t <= last
    <3>1. CASE right = {} BY <3>1, <1>4, <1>0
    <3>2. CASE right /= {}
      <4>1. PICK c \in right : TRUE BY <3>2
      <4>2. right = {c} /\ last = c.last BY <4>1, <1>2
      <4>3. Covers(c, t) <=> tsn < t /\ t <= last
        BY <4>1, <4>2, <1>0 DEF Covers
      <4> QED BY <4>2, <4>3
    <3> QED BY <3>1, <3>2
  <2>3. (\E b \in left \cup right : Covers(b, t))
          <=> (\E b \in left : Covers(b, t)) \/ (\E b \in right : Covers(b, t))
    OBVIOUS
  <2> HIDE DEF left, right
  <2> QED BY <2>1, <2>2, <2>3, <1>0, <1>3, <1>4
<1> HIDE DEF first, last, new
<1>9. touched \in SUBSET blocks /\ \A b \in touched : b.last + 1 = tsn \/ b.first = tsn + 1
  OBVIOUS
<1> HIDE DEF left, right, touched
<1>10. Add(blocks, tsn) = (blocks \ touched) \cup {new}
  BY <1>5 DEF touched, new
<1> QED BY <1>3, <1>4, <1>6, <1>7, <1>8, <1>9, <1>10

\* What a tracker with these blocks beyond `tsn` has: the TSNs up to `tsn`, and those
\* of the blocks.
Known(tsn, blocks) == {t \in AllTsns : t <= tsn \/ \E b \in blocks : Covers(b, t)}

\* The blocks may follow `tsn` directly, and the one that does may be empty.
Beyond(tsn, blocks) ==
  /\ \A b \in blocks : /\ tsn < b.first
                       /\ b.first <= b.last \/ (b.first = tsn + 1 /\ b.last = tsn)
  /\ \A b, c \in blocks : b = c \/ b.last + 1 < c.first \/ c.last + 1 < b.first

\* The cumulative TSN moves over the block that follows it; nothing is lost or added,
\* and it does not move back.
LEMMA CumulativeExact ==
  ASSUME NEW d \in Trackers, NEW tsn \in Nat, NEW blocks \in SUBSET Blocks, Beyond(tsn, blocks)
  PROVE  /\ Tracks(CumulativeTo(d, tsn, blocks), Known(tsn, blocks))
         /\ CumulativeTo(d, tsn, blocks).cum_tsn >= tsn
         /\ CumulativeTo(d, tsn, blocks).ack = d.ack
<1> DEFINE next == {b \in blocks : b.first = tsn + 1}
           e == CumulativeTo(d, tsn, blocks)
<1>0. \A b \in blocks : b.first \in Nat /\ b.last \in Nat
  BY DEF Blocks
<1>1. e = [d EXCEPT !.cum_tsn = IF next = {} THEN tsn ELSE (CHOOSE b \in next : TRUE).last,
                    !.blocks = blocks \ next]
  BY DEF CumulativeTo
<1>2. \A b \in next : next = {b} /\ e.cum_tsn = b.last
  <2> SUFFICES ASSUME NEW b \in next PROVE next = {b} /\ e.cum_tsn = b.last
    OBVIOUS
  <2>1. \A c \in next : c = b
    BY <1>0 DEF Beyond
  <2>2. next = {b} BY <2>1
  <2> HIDE DEF next
  <2> QED BY <1>1, <2>2 DEF Trackers
<1>3. (next = {} => e.cum_tsn = tsn) /\ e.blocks = blocks \ next /\ e.ack = d.ack /\ e.seen = d.seen
  <2> HIDE DEF next, e
  <2> QED BY <1>1 DEF Trackers
<1>4. e.cum_tsn \in Nat /\ e.cum_tsn >= tsn
  <2>1. CASE next = {}
    <3> HIDE DEF e
    <3> QED BY <2>1, <1>3
  <2>2. CASE next /= {}
    <3>1. PICK b \in next : TRUE BY <2>2
    <3>2. b.last \in Nat /\ b.last >= tsn BY <3>1, <1>0 DEF Beyond
    <3> HIDE DEF e
    <3> QED BY <3>1, <3>2, <1>2
  <2> QED BY <2>1, <2>2
<1>5. e \in Trackers
  <2> HIDE DEF next
  <2>1. (IF next = {} THEN tsn ELSE (CHOOSE b \in next : TRUE).last) \in Nat
    BY <1>1, <1>4 DEF Trackers
  <2> QED BY <2>1, <1>1 DEF Trackers
<1>6. \A t \in AllTsns : t \in Known(tsn, blocks) <=> (t <= e.cum_tsn \/ \E b \in e.blocks : Covers(b, t))
  <2> SUFFICES ASSUME NEW t \in AllTsns
               PROVE  (t <= tsn \/ \E b \in blocks : Covers(b, t))
                        <=> (t <= e.cum_tsn \/ \E b \in blocks \ next : Covers(b, t))
    BY <1>3 DEF Known
  <2>1. CASE next = {}
    <3> HIDE DEF e
    <3> QED BY <2>1, <1>3
  <2>2. CASE next /= {}
    <3>1. PICK b \in next : TRUE BY <2>2
    <3>2. next = {b} /\ e.cum_tsn = b.last /\ b \in blocks BY <3>1, <1>2
    <3>3. t <= b.last <=> t <= tsn \/ Covers(b, t)
      BY <3>1, <1>0 DEF Covers, Beyond, AllTsns
    <3> HIDE DEF e, next
    <3> QED BY <3>2, <3>3
  <2> QED BY <2>1, <2>2
<1>7. \A b \in e.blocks : e.cum_tsn + 1 < b.first /\ b.first <= b.last
  <2> SUFFICES ASSUME NEW b \in blocks, b \notin next
               PROVE  e.cum_tsn + 1 < b.first /\ b.first <= b.last
    BY <1>3
  <2>1. tsn + 1 < b.first /\ b.first <= b.last
    BY <1>0 DEF Beyond
  <2>2. CASE next = {}
    <3> HIDE DEF e
    <3> QED BY <2>1, <2>2, <1>3
  <2>3. CASE next /= {}
    <3>1. PICK c \in next : TRUE BY <2>3
    <3>2. c.last + 1 < b.first
      BY <3>1, <2>1, <1>0 DEF Beyond
    <3> HIDE DEF e
    <3> QED BY <3>1, <3>2, <2>1, <1>2
  <2> QED BY <2>2, <2>3
<1>8. \A b, c \in e.blocks : b = c \/ b.last + 1 < c.first \/ c.last + 1 < b.first
  <2> HIDE DEF e
  <2> QED BY <1>3 DEF Beyond
<1> HIDE DEF e
<1> QED BY <1>3, <1>4, <1>5, <1>6, <1>7, <1>8 DEF e, Tracks, TracksExactly

(***************************************************************************)
(* The operations of the tracker                                           *)
(***************************************************************************)
\* A new tracker has nothing.
THEOREM NewTracksExactly == Tracks(NewTracker, {})
BY DEF Tracks, Trackers, TracksExactly, NewTracker, AckStates, AllTsns

\* Observe's answer, whether a DATA chunk is new, is right: a chunk that is delivered
\* to the reassembly queue never came before, and one that is dropped did.
THEOREM NewIsExact ==
  ASSUME NEW d, NEW got, Tracks(d, got), NEW tsn \in AllTsns
  PROVE  IsNew(d, tsn) <=> tsn \notin got
<1>1. d.cum_tsn \in Nat /\ tsn \in Nat
  BY DEF Tracks, Trackers, AllTsns
<1>2. tsn \in got <=> (tsn <= d.cum_tsn \/ \E b \in d.blocks : Covers(b, tsn))
  BY DEF Tracks, TracksExactly
<1> QED BY <1>1, <1>2 DEF IsNew

\* Only the TSNs and the blocks count, not what is to be acknowledged when.
LEMMA AckKeepsTracks ==
  ASSUME NEW d, NEW got, Tracks(d, got), NEW e \in Trackers,
         e.cum_tsn = d.cum_tsn, e.blocks = d.blocks
  PROVE  Tracks(e, got)
BY DEF Tracks, TracksExactly

\* A TSN that came is known, and no other: one that is old changes nothing, the next
\* one moves the cumulative TSN, and any other goes into a block.
LEMMA ArrivalTracked ==
  ASSUME NEW d, NEW got \in SUBSET AllTsns, Tracks(d, got), NEW tsn \in AllTsns
  PROVE  LET e == IF tsn <= d.cum_tsn THEN d
                  ELSE IF tsn = d.cum_tsn + 1 THEN CumulativeTo(d, tsn, d.blocks)
                  ELSE [d EXCEPT !.blocks = Add(@, tsn)]
         IN Tracks(e, got \cup {tsn}) /\ e.cum_tsn >= d.cum_tsn /\ e.ack = d.ack
<1>0. /\ d \in Trackers /\ d.cum_tsn \in Nat /\ tsn \in Nat
      /\ d.blocks \in SUBSET Blocks
      /\ \A b \in d.blocks : b.first \in Nat /\ b.last \in Nat
  BY DEF Tracks, Trackers, AllTsns, Blocks
<1>1. CASE tsn <= d.cum_tsn
  <2>1. tsn \in got BY <1>1 DEF Tracks, TracksExactly
  <2>2. got \cup {tsn} = got BY <2>1
  <2> QED BY <1>0, <1>1, <2>2
<1>2. CASE tsn = d.cum_tsn + 1
  <2>1. Beyond(tsn, d.blocks)
    BY <1>0, <1>2 DEF Beyond, Tracks, TracksExactly
  <2>2. Known(tsn, d.blocks) = got \cup {tsn}
    <3>1. \A t \in AllTsns : t <= tsn <=> t <= d.cum_tsn \/ t = tsn
      BY <1>0, <1>2 DEF AllTsns
    <3> QED BY <3>1 DEF Known, Tracks, TracksExactly
  <2> DEFINE e == CumulativeTo(d, tsn, d.blocks)
  <2>3. Tracks(e, got \cup {tsn}) /\ e.cum_tsn >= tsn /\ e.ack = d.ack
    BY <1>0, <2>1, <2>2, CumulativeExact
  <2>4. e.cum_tsn \in Nat
    <3> HIDE DEF e
    <3> QED BY <2>3 DEF Tracks, Trackers
  <2> HIDE DEF e
  <2>5. e.cum_tsn >= d.cum_tsn BY <1>0, <1>2, <2>3, <2>4
  <2>6. ~(tsn <= d.cum_tsn) BY <1>0, <1>2
  <2> QED BY <1>2, <2>3, <2>5, <2>6 DEF e
<1>3. CASE tsn > d.cum_tsn + 1
  <2> DEFINE e == [d EXCEPT !.blocks = Add(@, tsn)]
  <2>0. Apart(d.blocks) /\ \A b \in d.blocks : d.cum_tsn + 1 < b.first
    BY DEF Apart, Tracks, TracksExactly
  <2>1. /\ Add(d.blocks, tsn) \in SUBSET Blocks
        /\ \A t \in AllTsns : (\E b \in Add(d.blocks, tsn) : Covers(b, t))
                                <=> t = tsn \/ \E b \in d.blocks : Covers(b, t)
        /\ \A b \in Add(d.blocks, tsn) : d.cum_tsn + 1 < b.first /\ b.first <= b.last
        /\ \A b, c \in Add(d.blocks, tsn) : b = c \/ b.last + 1 < c.first \/ c.last + 1 < b.first
    <3>1. CASE \E b \in d.blocks : Covers(b, tsn)
      BY <3>1, <1>0, <2>0 DEF Add, Apart
    <3>2. CASE ~ \E b \in d.blocks : Covers(b, tsn)
      <4>1. PICK touched \in SUBSET d.blocks, new \in Blocks :
              /\ Add(d.blocks, tsn) = (d.blocks \ touched) \cup {new}
              /\ new.first <= tsn /\ tsn <= new.last
              /\ \A b \in touched : b.last + 1 = tsn \/ b.first = tsn + 1
              /\ \A b \in d.blocks \ touched : b.last + 1 < new.first \/ new.last + 1 < b.first
              /\ \A t \in Nat : Covers(new, t) <=> t = tsn \/ \E b \in touched : Covers(b, t)
        BY <1>0, <2>0, <3>2, AddJoins
      <4>2. new.first \in Nat /\ new.last \in Nat BY DEF Blocks
      <4>3. Add(d.blocks, tsn) \in SUBSET Blocks BY <4>1, <1>0
      <4>4. \A t \in AllTsns : (\E b \in Add(d.blocks, tsn) : Covers(b, t))
                                 <=> t = tsn \/ \E b \in d.blocks : Covers(b, t)
        BY <4>1 DEF AllTsns
      <4>5. d.cum_tsn + 1 < new.first
        <5>1. Covers(new, new.first) /\ new.first \in Nat
          BY <4>1, <4>2, <1>0 DEF Covers
        <5>2. new.first = tsn \/ \E b \in touched : Covers(b, new.first)
          BY <4>1, <5>1
        <5> QED BY <5>2, <2>0, <1>0, <1>3, <4>1, <4>2 DEF Covers
      <4>6. \A b \in Add(d.blocks, tsn) : d.cum_tsn + 1 < b.first /\ b.first <= b.last
        BY <4>1, <4>2, <4>5, <2>0, <1>0 DEF Apart
      <4>7. \A b, c \in Add(d.blocks, tsn) : b = c \/ b.last + 1 < c.first \/ c.last + 1 < b.first
        BY <4>1, <2>0 DEF Apart
      <4> QED BY <4>3, <4>4, <4>6, <4>7
    <3> QED BY <3>1, <3>2
  <2>2. e \in Trackers /\ e.cum_tsn = d.cum_tsn /\ e.blocks = Add(d.blocks, tsn) /\ e.ack = d.ack
    BY <1>0, <2>1 DEF Trackers
  <2>3. \A t \in AllTsns : t \in got \cup {tsn} <=> (t <= e.cum_tsn \/ \E b \in e.blocks : Covers(b, t))
    <3> HIDE DEF e
    <3> QED BY <2>1, <2>2 DEF Tracks, TracksExactly
  <2>4. Tracks(e, got \cup {tsn})
    <3> HIDE DEF e
    <3> QED BY <2>1, <2>2, <2>3 DEF Tracks, TracksExactly
  <2>5. ~(tsn <= d.cum_tsn) /\ tsn /= d.cum_tsn + 1 BY <1>0, <1>3
  <2>6. e.cum_tsn >= d.cum_tsn
    <3> HIDE DEF e
    <3> QED BY <2>2, <1>0
  <2> QED BY <2>2, <2>4, <2>5, <2>6
<1> QED BY <1>0, <1>1, <1>2, <1>3

\* Observe: after a DATA chunk the tracker knows it as well, however old, early or
\* repeated it is, and the cumulative TSN never moves back.
THEOREM ObserveTracksExactly ==
  ASSUME NEW d, NEW got \in SUBSET AllTsns, Tracks(d, got), NEW tsn \in AllTsns,
         NEW immediate_ack \in BOOLEAN
  PROVE  /\ Tracks(Observe(d, tsn, immediate_ack), got \cup {tsn})
         /\ Observe(d, tsn, immediate_ack).cum_tsn >= d.cum_tsn
<1> DEFINE e == IF tsn <= d.cum_tsn THEN d
                ELSE IF tsn = d.cum_tsn + 1 THEN CumulativeTo(d, tsn, d.blocks)
                ELSE [d EXCEPT !.blocks = Add(@, tsn)]
           at_once == tsn <= d.cum_tsn \/ e.blocks /= {} \/ immediate_ack \/ ~d.seen
           ack == IF at_once THEN "Immediate" ELSE MoreDelayed(e.ack)
           f == [[e EXCEPT !.seen = TRUE] EXCEPT !.ack = ack]
<1>1. Tracks(e, got \cup {tsn}) /\ e.cum_tsn >= d.cum_tsn
  BY ArrivalTracked
<1>2. e \in Trackers BY <1>1 DEF Tracks
<1>3. Observe(d, tsn, immediate_ack) = f
  <2>1. Observe(d, tsn, immediate_ack)
          = [e EXCEPT !.seen = TRUE, !.ack = IF at_once THEN "Immediate" ELSE MoreDelayed(@)]
    BY DEF Observe
  <2> HIDE DEF e, at_once
  <2> QED BY <2>1, <1>2 DEF Trackers
<1>4. ack \in AckStates
  <2>1. e.ack \in AckStates
    <3> HIDE DEF e
    <3> QED BY <1>2 DEF Trackers
  <2> HIDE DEF e, at_once
  <2> QED BY <2>1 DEF AckStates, MoreDelayed
<1>5. f \in Trackers /\ f.cum_tsn = e.cum_tsn /\ f.blocks = e.blocks
  <2> HIDE DEF e, ack
  <2> QED BY <1>2, <1>4 DEF Trackers
<1> HIDE DEF e, f
<1> QED BY <1>1, <1>3, <1>5, AckKeepsTracks

\* HandleForwardTsn: after a FORWARD-TSN the tracker knows all TSNs up to its own, and
\* what it knew beyond; one that is old changes nothing; the cumulative TSN never
\* moves back.
THEOREM ForwardTracksExactly ==
  ASSUME NEW d, NEW got \in SUBSET AllTsns, Tracks(d, got), NEW tsn \in AllTsns
  PROVE  /\ Tracks(HandleForwardTsn(d, tsn), got \cup 1 .. tsn)
         /\ HandleForwardTsn(d, tsn).cum_tsn >= d.cum_tsn
<1>0. /\ d \in Trackers /\ d.cum_tsn \in Nat /\ tsn \in Nat
      /\ d.blocks \in SUBSET Blocks
      /\ \A b \in d.blocks : b.first \in Nat /\ b.last \in Nat
  BY DEF Tracks, Trackers, AllTsns, Blocks
<1>1. CASE ~MovesForward(d, tsn)
  <2> DEFINE e == [d EXCEPT !.ack = "Immediate"]
  <2>1. e \in Trackers /\ e.cum_tsn = d.cum_tsn /\ e.blocks = d.blocks
    BY <1>0 DEF Trackers, AckStates
  <2>2. got \cup 1 .. tsn = got
    <3>1. \A t \in 1 .. tsn : t \in AllTsns /\ t <= d.cum_tsn
      BY <1>0, <1>1 DEF AllTsns, MovesForward
    <3> QED BY <3>1 DEF Tracks, TracksExactly
  <2>3. Tracks(e, got) BY <2>1, AckKeepsTracks
  <2>4. HandleForwardTsn(d, tsn) = e BY <1>1 DEF HandleForwardTsn
  <2> HIDE DEF e
  <2> QED BY <1>0, <2>1, <2>2, <2>3, <2>4
<1>2. CASE MovesForward(d, tsn)
  <2> DEFINE left == EraseTo(d.blocks, tsn)
             e == CumulativeTo(d, tsn, left)
             f == [e EXCEPT !.ack = MoreDelayed(e.ack)]
  <2>0. /\ \A b \in d.blocks : b.first <= b.last
        /\ \A b, c \in d.blocks : b = c \/ b.last + 1 < c.first \/ c.last + 1 < b.first
    BY DEF Tracks, TracksExactly
  <2>1. \A b \in left : \E c \in d.blocks :
          /\ c.last >= tsn /\ b \in Blocks /\ b.last = c.last
          /\ IF c.first <= tsn THEN b.first = tsn + 1 ELSE b = c
    <3> SUFFICES ASSUME NEW b \in left
                 PROVE  \E c \in d.blocks :
                          /\ c.last >= tsn /\ b \in Blocks /\ b.last = c.last
                          /\ IF c.first <= tsn THEN b.first = tsn + 1 ELSE b = c
      OBVIOUS
    <3>1. PICK c \in d.blocks : /\ c.last >= tsn
                                /\ b = IF c.first <= tsn THEN Block(tsn + 1, c.last) ELSE c
      BY DEF EraseTo
    <3>2. c.last \in Nat /\ c \in Blocks /\ tsn + 1 \in Nat BY <1>0
    <3>3. CASE c.first <= tsn
      <4>1. b = Block(tsn + 1, c.last) BY <3>1, <3>3
      <4> QED BY <3>1, <3>2, <3>3, <4>1, BlockFields
    <3>4. CASE ~(c.first <= tsn) BY <3>1, <3>2, <3>4
    <3> QED BY <3>3, <3>4
  <2>2. left \in SUBSET Blocks BY <2>1
  <2>3. \A b \in left : b.first \in Nat /\ b.last \in Nat BY <2>2 DEF Blocks
  <2>4. \A b \in left : tsn < b.first /\ (b.first <= b.last \/ (b.first = tsn + 1 /\ b.last = tsn))
    <3> HIDE DEF left
    <3> QED BY <2>0, <2>1, <2>3, <1>0
  <2>5. \A b, c \in left : b = c \/ b.last + 1 < c.first \/ c.last + 1 < b.first
    <3> SUFFICES ASSUME NEW b \in left, NEW c \in left
                 PROVE  b = c \/ b.last + 1 < c.first \/ c.last + 1 < b.first
      OBVIOUS
    <3>1. PICK b0 \in d.blocks : /\ b0.last >= tsn /\ b \in Blocks /\ b.last = b0.last
                                 /\ IF b0.first <= tsn THEN b.first = tsn + 1 ELSE b = b0
      BY <2>1
    <3>2. PICK c0 \in d.blocks : /\ c0.last >= tsn /\ c \in Blocks /\ c.last = c0.last
                                 /\ IF c0.first <= tsn THEN c.first = tsn + 1 ELSE c = c0
      BY <2>1
    <3>3. CASE b0 = c0
      <4>1. b.first = c.first /\ b.last = c.last BY <3>1, <3>2, <3>3
      <4>2. b \in Blocks /\ c \in Blocks BY <3>1, <3>2
      <4>3. b = c BY <4>1, <4>2 DEF Blocks
      <4> QED BY <4>3
    <3>4. CASE b0.last + 1 < c0.first
      BY <3>1, <3>2, <3>4, <1>0
    <3>5. CASE c0.last + 1 < b0.first
      BY <3>1, <3>2, <3>5, <1>0
    <3> QED BY <2>0, <3>3, <3>4, <3>5
  <2>6. Beyond(tsn, left)
    <3> HIDE DEF left
    <3> QED BY <2>4, <2>5 DEF Beyond
  <2>7. \A t \in Nat : t > tsn =>
          ((\E b \in left : Covers(b, t)) <=> (\E b \in d.blocks : Covers(b, t)))
    <3> SUFFICES ASSUME NEW t \in Nat, t > tsn
                 PROVE  (\E b \in left : Covers(b, t)) <=> (\E b \in d.blocks : Covers(b, t))
      OBVIOUS
    <3>1. ASSUME NEW b \in left, Covers(b, t) PROVE \E c \in d.blocks : Covers(c, t)
      <4>1. PICK c \in d.blocks : /\ c.last >= tsn /\ b \in Blocks /\ b.last = c.last
                                  /\ IF c.first <= tsn THEN b.first = tsn + 1 ELSE b = c
        BY <2>1
      <4>2. Covers(c, t) BY <4>1, <3>1, <1>0 DEF Covers
      <4> QED BY <4>2
    <3>2. ASSUME NEW c \in d.blocks, Covers(c, t) PROVE \E b \in left : Covers(b, t)
      <4> DEFINE b == IF c.first <= tsn THEN Block(tsn + 1, c.last) ELSE c
      <4>1. c.last >= tsn BY <3>2, <1>0 DEF Covers
      <4>2. b \in left BY <4>1 DEF EraseTo
      <4>3. Covers(b, t) BY <3>2, <1>0, BlockFields DEF Covers
      <4> HIDE DEF left, b
      <4> QED BY <4>2, <4>3
    <3> QED BY <3>1, <3>2
  <2>8. Known(tsn, left) = got \cup 1 .. tsn
    <3> HIDE DEF left
    <3>1. \A t \in AllTsns : t \in Nat /\ (t \in 1 .. tsn <=> t <= tsn) BY <1>0 DEF AllTsns
    <3>2. \A t \in AllTsns : t > tsn => (t \in got <=> \E b \in left : Covers(b, t))
      BY <2>7, <1>0, <1>2 DEF Tracks, TracksExactly, MovesForward, AllTsns
    <3>3. \A t \in AllTsns : t \in Known(tsn, left) <=> t \in got \cup 1 .. tsn
      <4> SUFFICES ASSUME NEW t \in AllTsns
                   PROVE  t \in Known(tsn, left) <=> t \in got \cup 1 .. tsn
        OBVIOUS
      <4>1. CASE t <= tsn BY <4>1, <3>1 DEF Known
      <4>2. CASE t > tsn
        <5>1. ~(t <= tsn) BY <4>2, <3>1, <1>0
        <5> QED BY <4>2, <5>1, <3>1, <3>2 DEF Known
      <4>3. t <= tsn \/ t > tsn BY <3>1, <1>0
      <4> QED BY <4>1, <4>2, <4>3
    <3>4. got \cup 1 .. tsn \subseteq AllTsns BY <1>0 DEF AllTsns
    <3> QED BY <3>3, <3>4 DEF Known
  <2>9. Tracks(e, got \cup 1 .. tsn) /\ e.cum_tsn >= tsn
    <3> HIDE DEF left
    <3> QED BY <1>0, <2>2, <2>6, <2>8, CumulativeExact
  <2>10. HandleForwardTsn(d, tsn) = f
    BY <1>2 DEF HandleForwardTsn
  <2>11. e \in Trackers BY <2>9 DEF Tracks
  <2> HIDE DEF e
  <2>12. MoreDelayed(e.ack) \in AckStates BY <2>11 DEF Trackers, AckStates, MoreDelayed
  <2>13. f \in Trackers /\ f.cum_tsn = e.cum_tsn /\ f.blocks = e.blocks
    BY <2>11, <2>12 DEF Trackers
  <2> HIDE DEF f
  <2>14. Tracks(f, got \cup 1 .. tsn) BY <2>9, <2>13, AckKeepsTracks
  <2>15. tsn > d.cum_tsn BY <1>2 DEF MovesForward
  <2>16. f.cum_tsn >= d.cum_tsn BY <2>9, <2>11, <2>13, <2>15, <1>0 DEF Trackers
  <2> QED BY <2>10, <2>14, <2>16
<1> QED BY <1>1, <1>2
====
