---- MODULE DcSctpTransfer ----
(***************************************************************************)
(* One direction of an established association: a DcSctpSender and a       *)
(* DcSctpReceiver, with a network that reorders, delays and loses packets. *)
(*                                                                         *)
(* A step is a call of the application, a packet received or a timer that  *)
(* expires, on the one side or the other.                                  *)
(***************************************************************************)
EXTENDS DcSctpSender

CONSTANTS
  Workloads,     \* what the application does: messages to send, streams to reset
  MaxLosses,     \* how many packets the network loses
  MaxReqs        \* how many stream reset requests are numbered

R == INSTANCE DcSctpReceiver
T == INSTANCE DataTracker

VARIABLES
  snd, rcv,
  net,           \* the chunks under way
  expired,       \* the messages whose lifetime is over
  todo,          \* the part of its workload the application has not done
  resets,        \* the streams it reset
  losses,
  got            \* the TSNs that reached the receiver, or were given up

vars == <<snd, rcv, net, expired, todo, resets, losses, got>>

ASSUME TransferAssumption ==
  \A w \in Workloads :
    /\ \A i, j \in DOMAIN w.send : w.send[i] \in MsgIds /\ (i < j => w.send[i] < w.send[j])
    /\ w.reset \subseteq Streams

Init ==
  /\ snd = NewSender /\ rcv = R!NewReceiver
  /\ todo \in Workloads
  /\ net = {} /\ expired = {} /\ resets = {} /\ losses = 0 /\ got = {}

IsOpen == ~snd.aborted

\* What the sender or the receiver has put in `out` is under way.
SenderBecomes(s, rest) ==
  /\ snd' = [s EXCEPT !.out = {}]
  /\ net' = rest \cup s.out
  /\ UNCHANGED <<rcv, got, losses>>

ReceiverBecomes(r, rest) ==
  /\ rcv' = [r EXCEPT !.out = {}]
  /\ net' = rest \cup r.out
  /\ UNCHANGED <<snd, expired, todo, resets, losses>>

(***************************************************************************)
(* The application                                                         *)
(***************************************************************************)
Send ==
  /\ IsOpen
  /\ todo.send /= <<>>
  /\ todo' = [todo EXCEPT !.send = Tail(@)]
  /\ LET m == Head(todo.send)
         queued == [snd EXCEPT !.lifecycle[m] = "Pending", !.queue[StreamOf(m)] = Append(@, m)]
     IN \E s \in SendBufferedPackets(queued, expired) : SenderBecomes(s, net)
  /\ UNCHANGED <<expired, resets>>

ResetStream(st) ==
  /\ IsOpen
  /\ st \in todo.reset
  /\ todo' = [todo EXCEPT !.reset = @ \ {st}]
  /\ resets' = resets \cup {st}
  /\ SenderBecomes(MakeStreamResetRequest(Pause(snd, st)), net)
  /\ UNCHANGED expired

Expire(m) ==
  /\ IsOpen
  /\ Messages[m].lifetime
  /\ snd.lifecycle[m] = "Pending"
  /\ m \notin expired
  /\ expired' = expired \cup {m}
  /\ UNCHANGED <<snd, rcv, net, todo, resets, losses, got>>

(***************************************************************************)
(* The sender                                                              *)
(***************************************************************************)
ReceiveSack(c) ==
  /\ c.type = "SACK"
  /\ \E s \in IF IsSackValid(snd, c.cum)
              THEN SendBufferedPackets(
                     MaybeSendFastRetransmit(HandleSack(snd, c.cum, c.blocks)), expired)
              ELSE {snd} :
       SenderBecomes(s, net \ {c})
  /\ UNCHANGED <<expired, todo, resets>>

ReceiveResponse(c) ==
  /\ c.type = "RESPONSE"
  /\ \E s \in SendBufferedPackets(
                MakeStreamResetRequest(HandleResponse(snd, c.nbr, c.result)), expired) :
       SenderBecomes(s, net \ {c})
  /\ UNCHANGED <<expired, todo, resets>>

T3RtxExpires ==
  /\ IsOpen
  /\ snd.t3_rtx
  /\ \E s \in OnRtxTimerExpiry(snd, expired) : SenderBecomes(s, net)
  /\ UNCHANGED <<expired, todo, resets>>

ReconfigTimerExpires ==
  /\ IsOpen
  /\ snd.reconfig
  /\ snd.next_req <= MaxReqs
  /\ SenderBecomes(OnReconfigTimerExpiry(snd), net)
  /\ UNCHANGED <<expired, todo, resets>>

\* limit_forward_tsn_until_ is reached.
ForwardTsnLimitPasses ==
  /\ IsOpen
  /\ snd.forward_limited
  /\ SenderBecomes([snd EXCEPT !.forward_limited = FALSE], net)
  /\ UNCHANGED <<expired, todo, resets>>

(***************************************************************************)
(* The receiver                                                            *)
(***************************************************************************)
Receive(c) ==
  /\ c.type \in {"DATA", "FORWARD_TSN", "RECONFIG"}
  /\ ReceiverBecomes(R!ReceiveChunk(rcv, c), net \ {c})
  /\ got' = CASE c.type = "DATA" -> got \cup {c.tsn}
              [] c.type = "FORWARD_TSN" -> got \cup 1 .. c.tsn
              [] OTHER -> got

DelayedAckTimerExpires ==
  /\ IsOpen
  /\ rcv.tracker.ack = "Delayed"
  /\ ReceiverBecomes(R!OnDelayedAckTimerExpiry(rcv), net)
  /\ UNCHANGED got

(***************************************************************************)
(* The network                                                             *)
(***************************************************************************)
ReceivePacket(c) == IsOpen /\ (ReceiveSack(c) \/ ReceiveResponse(c) \/ Receive(c))

Lose(c) ==
  /\ IsOpen
  /\ losses < MaxLosses
  /\ losses' = losses + 1
  /\ net' = net \ {c}
  /\ UNCHANGED <<snd, rcv, expired, todo, resets, got>>

Next ==
  \/ Send
  \/ \E m \in MsgIds : Expire(m)
  \/ \E st \in Streams : ResetStream(st)
  \/ \E c \in net : ReceivePacket(c) \/ Lose(c)
  \/ T3RtxExpires \/ ReconfigTimerExpires \/ ForwardTsnLimitPasses
  \/ DelayedAckTimerExpires

\* Timers expire, and what the network does not lose arrives.  The first three are
\* weak fairness too, of actions with many outcomes, with the condition that enables
\* each written out.
Fairness ==
  /\ []<>(~IsOpen \/ net = {}) \/ []<><<\E c \in net : ReceivePacket(c)>>_vars
  /\ []<>(~IsOpen \/ ~snd.t3_rtx) \/ []<><<T3RtxExpires>>_vars
  /\ []<>(~IsOpen \/ ~snd.reconfig \/ snd.next_req > MaxReqs) \/ []<><<ReconfigTimerExpires>>_vars
  /\ WF_vars(ForwardTsnLimitPasses)
  /\ WF_vars(DelayedAckTimerExpires)

Spec == Init /\ [][Next]_vars
FairSpec == Spec /\ Fairness
----
\* DataTracker knows exactly the TSNs that came in or that a FORWARD-TSN gave up,
\* whatever their order and their number, so that a SACK never acknowledges one that
\* is missing and never denies one that came.
TsnsTracked == T!TracksExactly(rcv.tracker, got, 1 .. NextTsn(snd))

\* The message put together from the fragments d; 0 when they are no message.
MessageOf(d) ==
  IF \E m \in MsgIds : d = R!Whole(m) THEN CHOOSE m \in MsgIds : d = R!Whole(m) ELSE 0

Delivery == INSTANCE DcSctpDelivery
              WITH status <- snd.lifecycle,
                   delivered <- [i \in DOMAIN rcv.delivered |-> MessageOf(rcv.delivered[i])]

\* Fragments, retransmissions, FORWARD-TSNs and stream resets together keep what
\* DcSctpDelivery promises: whole messages, once, in order on their stream, with
\* only limited ones passed over, and lifecycle events that tell the truth.
DeliversAsPromised == Delivery!Spec

\* OnLifecycleMessageDelivered is only called for a message the peer's application
\* has.
AckedIsDelivered ==
  \A m \in MsgIds :
    snd.lifecycle[m] = "Delivered" => R!Whole(m) \in ToSet(rcv.delivered)

\* OnLifecycleEnd is called for every message, as long as the association lives:
\* with packets lost and messages given up, T3-rtx, the delayed SACK and the next
\* FORWARD-TSN get the sender to its end.  Behaviours that reach MaxReqs are left out.
LifecycleEnds ==
  []<>((\A m \in MsgIds : snd.lifecycle[m] /= "Pending") \/ ~IsOpen \/ snd.next_req > MaxReqs)
====
