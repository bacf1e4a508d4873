---- MODULE DataTracker ----
(***************************************************************************)
(* DataTracker: which TSNs have arrived, and when to acknowledge them.     *)
(*                                                                         *)
(* TSNs are unwrapped, and count from 1.  The sorted vector of blocks is   *)
(* the set of its blocks.  The tracker is a record:                        *)
(*   cum_tsn  all TSNs up to this one have arrived, or were given up       *)
(*   blocks   what arrived beyond: the gap ack blocks of a SACK            *)
(*   ack      ack_state_; the delayed ack timer runs when it is "Delayed"  *)
(*   seen     seen_packet_                                                 *)
(***************************************************************************)
EXTENDS Integers

Block(first, last) == [first |-> first, last |-> last]
Covers(b, tsn) == b.first <= tsn /\ tsn <= b.last

NewTracker == [cum_tsn |-> 0, blocks |-> {}, ack |-> "Idle", seen |-> FALSE]

\* Mutant of Add: without joining the block on the right.
AddLeftOnly(blocks, tsn) ==
  LET left == {b \in blocks : b.last + 1 = tsn}
      first == IF left = {} THEN tsn ELSE (CHOOSE b \in left : TRUE).first
  IN IF \E b \in blocks : Covers(b, tsn) THEN blocks
     ELSE (blocks \ left) \cup {Block(first, tsn)}

\* AdditionalTsnBlocks::Add: the blocks that `tsn` touches become one.
Add(blocks, tsn) ==
  LET left == {b \in blocks : b.last + 1 = tsn}
      right == {b \in blocks : b.first = tsn + 1}
      first == IF left = {} THEN tsn ELSE (CHOOSE b \in left : TRUE).first
      last == IF right = {} THEN tsn ELSE (CHOOSE b \in right : TRUE).last
  IN IF \E b \in blocks : Covers(b, tsn) THEN blocks
     ELSE (blocks \ (left \cup right)) \cup {Block(first, last)}

\* AdditionalTsnBlocks::EraseTo.  A block that ends at `tsn` is left empty.
EraseTo(blocks, tsn) ==
  {IF b.first <= tsn THEN Block(tsn + 1, b.last) ELSE b : b \in {c \in blocks : c.last >= tsn}}

\* The cumulative TSN moves further when the first block follows it.
CumulativeTo(d, tsn, blocks) ==
  LET next == {b \in blocks : b.first = tsn + 1}
  IN [d EXCEPT !.cum_tsn = IF next = {} THEN tsn ELSE (CHOOSE b \in next : TRUE).last,
               !.blocks = blocks \ next]

\* The state after a DATA or FORWARD TSN: a second one is not delayed.
MoreDelayed(ack) ==
  CASE ack = "Idle" -> "BecomingDelayed"
    [] ack = "Delayed" -> "Immediate"
    [] OTHER -> ack

\* Observe returns whether `tsn` is new.
IsNew(d, tsn) == tsn > d.cum_tsn /\ ~ \E b \in d.blocks : Covers(b, tsn)

Observe(d, tsn, immediate_ack) ==
  LET d1 == IF tsn <= d.cum_tsn THEN d
            ELSE IF tsn = d.cum_tsn + 1 THEN CumulativeTo(d, tsn, d.blocks)
            ELSE [d EXCEPT !.blocks = Add(@, tsn)]
      at_once == tsn <= d.cum_tsn \/ d1.blocks /= {} \/ immediate_ack \/ ~d.seen
  IN [d1 EXCEPT !.seen = TRUE, !.ack = IF at_once THEN "Immediate" ELSE MoreDelayed(@)]

\* HandleForwardTsn, and whether it has any effect.
MovesForward(d, tsn) == tsn > d.cum_tsn
HandleForwardTsn(d, tsn) ==
  IF ~MovesForward(d, tsn) THEN [d EXCEPT !.ack = "Immediate"]
  ELSE [CumulativeTo(d, tsn, EraseTo(d.blocks, tsn)) EXCEPT !.ack = MoreDelayed(@)]

ObservePacketEnd(d) ==
  [d EXCEPT !.ack = IF @ = "BecomingDelayed" THEN "Delayed" ELSE @]

HandleDelayedAckTimerExpiry(d) == [d EXCEPT !.ack = "Immediate"]

\* ShouldSendAck, when nothing else is sent.
ShouldSendAck(d) == d.ack = "Immediate"
AckSent(d) == [d EXCEPT !.ack = "Idle"]
----
\* The tracker knows exactly which of the TSNs arrived or were given up, `got`,
\* and keeps the blocks apart from each other and from the cumulative TSN, so
\* that a SACK has one block per gap and never denies a TSN that arrived.
TracksExactly(d, got, tsns) ==
  /\ \A tsn \in tsns : tsn \in got <=> (tsn <= d.cum_tsn \/ \E b \in d.blocks : Covers(b, tsn))
  /\ \A b \in d.blocks : d.cum_tsn + 1 < b.first /\ b.first <= b.last
  /\ \A b, c \in d.blocks : b = c \/ b.last + 1 < c.first \/ c.last + 1 < b.first
====
