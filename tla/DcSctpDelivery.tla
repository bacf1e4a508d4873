---- MODULE DcSctpDelivery ----
(***************************************************************************)
(* What the messages of one direction of an association are promised, from *)
(* the documentation of DcSctpSocketInterface::Send, ResetStreams and the  *)
(* lifecycle callbacks, with none of the machinery that keeps it.          *)
(***************************************************************************)
EXTENDS Integers, Sequences, SequencesExt

CONSTANTS
  Messages,     \* a sequence of records with stream, unordered, max_rtx, lifetime
  NoLimit       \* max_rtx of a message without a limit

VARIABLES
  status,       \* the lifecycle of every message
  resets,       \* the streams that were asked to be reset
  delivered     \* the messages delivered, in order

vars == <<status, resets, delivered>>

MsgIds == DOMAIN Messages
IsLimited(m) == Messages[m].max_rtx < NoLimit \/ Messages[m].lifetime
Follows(m, k) == Messages[m].stream = Messages[k].stream /\ k < m
                 /\ ~Messages[m].unordered /\ ~Messages[k].unordered

Init ==
  /\ status = [m \in MsgIds |-> "None"]
  /\ resets = {}
  /\ delivered = <<>>

\* Messages are accepted in the order of their numbers.  One that is neither limited
\* nor on a stream that is reset ends when it is delivered, and one that expired was
\* not delivered.
MayBecome(m, s) ==
  \/ /\ status[m] = "None" /\ s = "Pending"
     /\ \A k \in MsgIds : k > m => status[k] = "None"
  \/ /\ status[m] = "Pending"
     /\ \/ s = "Delivered" /\ m \in ToSet(delivered)
        \/ s = "MaybeDelivered" /\ IsLimited(m)
        \/ s = "Expired" /\ m \notin ToSet(delivered)
           /\ (IsLimited(m) \/ Messages[m].stream \in resets')

SenderStep ==
  /\ \A m \in MsgIds : status'[m] = status[m] \/ MayBecome(m, status'[m])
  /\ resets \subseteq resets'
  /\ DOMAIN status' = MsgIds
  /\ UNCHANGED delivered

\* Messages are delivered once and, when ordered, in order; one is only passed over
\* when it is limited or was thrown away.
MayDeliver(m, before) ==
  /\ m \notin ToSet(before)
  /\ status[m] \in {"Pending", "MaybeDelivered", "Delivered"}
  /\ \A k \in MsgIds : Follows(m, k) =>
       k \in ToSet(before) \/ IsLimited(k) \/ status[k] \in {"None", "Expired"}
  /\ \A k \in ToSet(before) : ~Follows(k, m)

ReceiverStep ==
  /\ IsPrefix(delivered, delivered')
  /\ \A i \in Len(delivered) + 1 .. Len(delivered') :
       delivered'[i] \in MsgIds /\ MayDeliver(delivered'[i], SubSeq(delivered', 1, i - 1))
  /\ UNCHANGED <<status, resets>>

Next == SenderStep \/ ReceiverStep

Spec == Init /\ [][Next]_vars
====
