---- MODULE DcSctpSocket ----
(***************************************************************************)
(* The association between two DcSctpSockets: connecting, simultaneously   *)
(* or not, shutting down, closing, aborting, heartbeats, restart of a peer *)
(* and handover of a socket, over a network that loses, delays and         *)
(* reorders packets.                                                       *)
(*                                                                         *)
(* A socket is a record; an operation is an operator from a socket to the  *)
(* socket after it, which holds in `out` the packets sent on the way.  The *)
(* data path is kept to one message in flight in each direction: enough    *)
(* for SHUTDOWN to have something to wait for, and for packets of an old   *)
(* association to carry data into a new one.  DcSctpTransfer has the rest. *)
(***************************************************************************)
EXTENDS Integers, FiniteSets, Sequences

CONSTANTS
  NoTcb, NoCookie, NoData, NoMsg, NoInfo,
  MaxInitRetransmits,   \* options.max_init_retransmits
  MaxRetransmissions,   \* options.max_retransmissions
  Heartbeats,           \* whether options.heartbeat_interval is not zero
  TsnJump,              \* the jump of the initial TSN when a peer restarted
  MaxMessages,          \* bound: messages an application sends
  MaxDraws,             \* bound: draws of random numbers by a socket
  MaxNet,               \* bound: packets on their way; more are lost
  MaxCalls,             \* bound: Connect, Shutdown, Close, handover, restart
  Callers,              \* the peers whose application calls Connect
  Senders               \* the peers whose application sends messages

Peers == {0, 1}
Other(p) == 1 - p

ASSUME SocketAssumption ==
  /\ {MaxInitRetransmits, MaxRetransmissions, MaxMessages} \subseteq Nat
  /\ {MaxDraws, MaxNet, MaxCalls} \subseteq Nat
  /\ Heartbeats \in BOOLEAN /\ TsnJump \in Nat \ {0}
  /\ Callers \subseteq Peers /\ Senders \subseteq Peers

Msgs == Nat \cup {NoMsg}
Cookies == [my_tag : Int, my_tsn : Int, peer_tag : Int, peer_tsn : Int, tie : Int]
Tcbs == [my_tag : Int, my_tsn : Int, peer_tag : Int, peer_tsn : Int, tie : Int,
         cookie : Cookies \cup {NoCookie}, next_tsn : Int, flight : Msgs, cum_tsn : Int,
         errors : Nat, heartbeat : BOOLEAN]

ASSUME NoneAssumption == NoTcb \notin Tcbs /\ NoCookie \notin Cookies

VARIABLES
  sock,        \* the two sockets
  net,         \* the packets on their way
  sent,        \* messages each application has handed over
  delivered,   \* messages each application has received, in order
  calls        \* how many calls of MaxCalls there were

vars == <<sock, net, sent, delivered, calls>>

States == {"Closed", "CookieWait", "CookieEchoed", "Established",
           "ShutdownPending", "ShutdownSent", "ShutdownReceived", "ShutdownAckSent"}
Shutdowns == {"ShutdownPending", "ShutdownSent", "ShutdownReceived", "ShutdownAckSent"}

(***************************************************************************)
(* A timer is 0 when stopped, and one more than its expirations when it    *)
(* runs.                                                                   *)
(***************************************************************************)
Stopped == 0
Started == 1
Running(timer) == timer /= Stopped
\* Timer::Trigger: it runs on unless it has been restarted often enough.
Expired(timer, max_restarts) == IF timer <= max_restarts THEN timer + 1 ELSE Stopped

NewSocket(p, draws) ==
  [id |-> p, state |-> "Closed", t1_init |-> Stopped, t1_cookie |-> Stopped,
   t2_shutdown |-> Stopped, tag |-> 0, tsn |-> 0, queue |-> NoMsg, tcb |-> NoTcb,
   draws |-> draws, acked |-> {}, out |-> {}]

HasTcb(w) == w.tcb /= NoTcb

\* GetRandomInt of DcSctpTransport: no number is drawn twice.  Verification tags, TSNs
\* and tie tags are spaces of their own, so that one number serves for all.
Draw(w) == (2 * w.draws + w.id + 1) * 10
Drawn(w) == [w EXCEPT !.draws = @ + 1]

Packet(w, tag, type, info, data) ==
  [dst |-> Other(w.id), tag |-> tag, type |-> type, info |-> info, data |-> data]
Send(w, packet) == [w EXCEPT !.out = @ \cup {packet}]
\* A packet with one chunk, from PacketBuilder.
SendChunk(w, type, info) == Send(w, Packet(w, w.tcb.peer_tag, type, info, NoData))

CreateTcb(my_tag, my_tsn, peer_tag, peer_tsn, tie) ==
  [my_tag |-> my_tag, my_tsn |-> my_tsn, peer_tag |-> peer_tag, peer_tsn |-> peer_tsn,
   tie |-> tie, cookie |-> NoCookie, next_tsn |-> my_tsn, flight |-> NoMsg,
   cum_tsn |-> peer_tsn - 1, errors |-> 0, heartbeat |-> FALSE]

\* Mutant of InternalClose: with T2-shutdown left running.
InternalCloseKeepT2(w) ==
  [w EXCEPT !.state = "Closed", !.t1_init = Stopped, !.t1_cookie = Stopped, !.tcb = NoTcb]

InternalClose(w) ==
  [w EXCEPT !.state = "Closed", !.t1_init = Stopped, !.t1_cookie = Stopped,
            !.t2_shutdown = Stopped, !.tcb = NoTcb]

(***************************************************************************)
(* TransmissionControlBlock                                                *)
(***************************************************************************)
\* SendBufferedPackets with control chunk `first`, or NoInfo: the COOKIE ECHO
\* comes first while there is one, and a waiting message goes with it.
SendBufferedPackets(w, first) ==
  LET has_cookie == w.tcb.cookie /= NoCookie
      produce == w.queue /= NoMsg /\ w.tcb.flight = NoMsg
      type == IF has_cookie THEN "COOKIE_ECHO" ELSE IF first /= NoInfo THEN first ELSE "DATA"
      data == IF produce THEN [tsn |-> w.tcb.next_tsn, msg |-> w.queue] ELSE NoData
      w1 == IF produce
            THEN [w EXCEPT !.queue = NoMsg, !.tcb.flight = w.queue, !.tcb.next_tsn = @ + 1]
            ELSE w
  IN IF has_cookie \/ first /= NoInfo \/ produce
     THEN Send(w1, Packet(w, w.tcb.peer_tag, type, w.tcb.cookie, data))
     ELSE w

SendInit(w) == Send(w, Packet(w, 0, "INIT", [tag |-> w.tag, tsn |-> w.tsn], NoData))
SendShutdown(w) == SendChunk(w, "SHUTDOWN", NoInfo)
SendShutdownAck(w) == [SendChunk(w, "SHUTDOWN_ACK", NoInfo) EXCEPT !.t2_shutdown = Started]

MaybeSendShutdownOrAck(w) ==
  IF w.tcb.flight /= NoMsg THEN w
  ELSE IF w.state = "ShutdownPending"
       THEN [SendShutdown(w) EXCEPT !.t2_shutdown = Started, !.state = "ShutdownSent"]
  ELSE IF w.state = "ShutdownReceived"
       THEN [SendShutdownAck(w) EXCEPT !.state = "ShutdownAckSent"]
  ELSE w

\* HandleTimeout, after a timer of the TCB: tear down when there were too many errors.
CloseIfTooManyErrors(w) ==
  IF HasTcb(w) /\ w.tcb.errors > MaxRetransmissions
  THEN InternalClose(SendChunk(w, "ABORT", NoInfo))
  ELSE w

(***************************************************************************)
(* Calls of the application                                                *)
(***************************************************************************)
DoConnect(w) ==
  Drawn([SendInit([w EXCEPT !.tag = Draw(w), !.tsn = Draw(w)])
           EXCEPT !.t1_init = Started, !.state = "CookieWait"])

DoShutdown(w) ==
  IF ~HasTcb(w) THEN InternalClose(w)
  ELSE IF w.state \in {"ShutdownSent", "ShutdownAckSent"} THEN w
  ELSE MaybeSendShutdownOrAck(
         [w EXCEPT !.state = "ShutdownPending", !.t1_init = Stopped, !.t1_cookie = Stopped])

DoClose(w) ==
  InternalClose(IF HasTcb(w) THEN SendChunk(w, "ABORT", NoInfo) ELSE w)

DoSend(w, msg) ==
  LET w1 == [w EXCEPT !.queue = msg]
  IN IF HasTcb(w) THEN SendBufferedPackets(w1, NoInfo) ELSE w1

\* GetHandoverStateAndClose, and RestoreFromState of a new socket.
DoHandover(w) ==
  [NewSocket(w.id, w.draws) EXCEPT
     !.state = "Established", !.tag = w.tcb.my_tag, !.acked = w.acked,
     !.tcb = [w.tcb EXCEPT !.errors = 0, !.heartbeat = FALSE]]

(***************************************************************************)
(* Chunk handlers                                                          *)
(***************************************************************************)
\* Mutant of HandleInit: with a new initial TSN while it is connecting itself.
HandleInitNewTsn(w, packet) ==
  LET drawn == w.state \notin {"CookieWait", "CookieEchoed"}
      cookie == [my_tag |-> IF drawn THEN Draw(w) ELSE w.tag, my_tsn |-> Draw(w),
                 peer_tag |-> packet.info.tag, peer_tsn |-> packet.info.tsn,
                 tie |-> IF drawn /\ w.state /= "Closed" THEN w.tcb.tie ELSE 0]
  IN Send(Drawn(w), Packet(w, packet.info.tag, "INIT_ACK", cookie, NoData))

\* The tag, the initial TSN and the tie tag that answer an INIT.
HandleInit(w, packet) ==
  LET drawn == w.state \notin {"CookieWait", "CookieEchoed"}
      my_tag == IF drawn THEN Draw(w) ELSE w.tag
      my_tsn == IF ~drawn THEN w.tsn
                ELSE IF w.state = "Closed" THEN Draw(w) ELSE w.tcb.next_tsn + TsnJump
      tie == IF drawn /\ w.state /= "Closed" THEN w.tcb.tie ELSE 0
      cookie == [my_tag |-> my_tag, my_tsn |-> my_tsn, peer_tag |-> packet.info.tag,
                 peer_tsn |-> packet.info.tsn, tie |-> tie]
  IN IF w.state = "ShutdownAckSent" THEN SendShutdownAck(w)
     ELSE Send(IF drawn THEN Drawn(w) ELSE w,
               Packet(w, packet.info.tag, "INIT_ACK", cookie, NoData))

HandleInitAck(w, packet) ==
  LET tcb == CreateTcb(w.tag, w.tsn, packet.info.my_tag, packet.info.my_tsn, Draw(w))
      w1 == [Drawn(w) EXCEPT !.t1_init = Stopped, !.state = "CookieEchoed",
                             !.t1_cookie = Started,
                             !.tcb = [tcb EXCEPT !.cookie = packet.info]]
  IN IF w.state /= "CookieWait" THEN w ELSE SendBufferedPackets(w1, NoInfo)

\* HandleCookieEcho, when it goes on: `keep` tells whether the TCB survives.
AcceptCookie(w, cookie, keep) ==
  LET tcb == IF ~keep
             THEN CreateTcb(cookie.my_tag, cookie.my_tsn, cookie.peer_tag, cookie.peer_tsn,
                            Draw(w))
             ELSE IF w.state /= "Established" THEN [w.tcb EXCEPT !.cookie = NoCookie]
             ELSE w.tcb
      w1 == [(IF keep THEN w ELSE Drawn(w))
               EXCEPT !.t1_init = Stopped, !.t1_cookie = Stopped,
                      !.state = "Established", !.tcb = tcb]
  IN SendBufferedPackets(w1, "COOKIE_ACK")

\* The cases of RFC 4960, section 5.2.4; a cookie of none of them is accepted.
HandleCookieEchoWithTCB(w, packet) ==
  LET cookie == packet.info
      mine == packet.tag = w.tcb.my_tag
      peers == w.tcb.peer_tag = cookie.peer_tag
      restarted == ~mine /\ ~peers /\ cookie.tie = w.tcb.tie   \* case A
      simultaneous == mine /\ ~peers                           \* case B
      late == ~mine /\ peers /\ cookie.tie = 0                 \* case C
  IN IF restarted /\ w.state = "ShutdownAckSent"
     THEN Send(w, Packet(w, cookie.peer_tag, "SHUTDOWN_ACK", NoInfo, NoData))
     ELSE IF late THEN w
     ELSE AcceptCookie(w, cookie, ~(restarted \/ simultaneous))

HandleCookieEcho(w, packet) ==
  IF HasTcb(w) THEN HandleCookieEchoWithTCB(w, packet)
  ELSE IF packet.tag /= packet.info.my_tag THEN w
  ELSE AcceptCookie(w, packet.info, FALSE)

HandleCookieAck(w, packet) ==
  IF w.state /= "CookieEchoed" THEN w
  ELSE SendBufferedPackets([w EXCEPT !.t1_cookie = Stopped, !.tcb.cookie = NoCookie,
                                     !.state = "Established"], NoInfo)

\* RetransmissionQueue::HandleSack refuses a SACK that is older than one it has
\* seen, or of TSNs never sent.
HandleSack(w, packet) ==
  LET cum_ack == packet.info.cum_tsn
      last == IF w.tcb.flight = NoMsg THEN w.tcb.next_tsn - 1 ELSE w.tcb.next_tsn - 2
      w1 == IF cum_ack > last
            THEN [w EXCEPT !.acked = @ \cup {w.tcb.flight}, !.tcb.flight = NoMsg,
                           !.tcb.errors = 0]
            ELSE w
  IN IF ~HasTcb(w) \/ cum_ack < last \/ cum_ack >= w.tcb.next_tsn THEN w
     ELSE SendBufferedPackets(MaybeSendShutdownOrAck(w1), NoInfo)

HandleHeartbeatRequest(w, packet) ==
  IF HasTcb(w) THEN SendChunk(w, "HEARTBEAT_ACK", NoInfo) ELSE w

HandleHeartbeatAck(w, packet) ==
  IF HasTcb(w) THEN [w EXCEPT !.tcb.heartbeat = FALSE, !.tcb.errors = 0] ELSE w

HandleAbort(w, packet) == IF HasTcb(w) THEN InternalClose(w) ELSE w

HandleShutdown(w, packet) ==
  IF w.state \in {"Closed", "CookieWait", "CookieEchoed", "ShutdownAckSent",
                  "ShutdownReceived"} THEN w
  ELSE IF w.state = "ShutdownSent"
       THEN [SendShutdownAck(w) EXCEPT !.state = "ShutdownAckSent"]
  ELSE MaybeSendShutdownOrAck([w EXCEPT !.state = "ShutdownReceived"])

HandleShutdownAck(w, packet) ==
  IF w.state \in {"ShutdownSent", "ShutdownAckSent"}
  THEN InternalClose(SendChunk(w, "SHUTDOWN_COMPLETE", [t_bit |-> FALSE]))
  ELSE Send(w, Packet(w, packet.tag, "SHUTDOWN_COMPLETE", [t_bit |-> TRUE], NoData))

HandleShutdownComplete(w, packet) ==
  IF w.state = "ShutdownAckSent" THEN InternalClose(w) ELSE w

Dispatch(w, packet) ==
  CASE packet.type = "INIT" -> HandleInit(w, packet)
    [] packet.type = "INIT_ACK" -> HandleInitAck(w, packet)
    [] packet.type = "COOKIE_ECHO" -> HandleCookieEcho(w, packet)
    [] packet.type = "COOKIE_ACK" -> HandleCookieAck(w, packet)
    [] packet.type = "SACK" -> HandleSack(w, packet)
    [] packet.type = "HEARTBEAT" -> HandleHeartbeatRequest(w, packet)
    [] packet.type = "HEARTBEAT_ACK" -> HandleHeartbeatAck(w, packet)
    [] packet.type = "ABORT" -> HandleAbort(w, packet)
    [] packet.type = "SHUTDOWN" -> HandleShutdown(w, packet)
    [] packet.type = "SHUTDOWN_ACK" -> HandleShutdownAck(w, packet)
    [] packet.type = "SHUTDOWN_COMPLETE" -> HandleShutdownComplete(w, packet)
    [] packet.type = "DATA" -> w

\* The verification tag of a packet, by the type of its first chunk.
ValidatePacket(w, packet) ==
  LET my_tag == IF HasTcb(w) THEN w.tcb.my_tag ELSE 0
      t_bit == packet.info.t_bit
  IN CASE packet.tag = 0 -> packet.type = "INIT"
       [] packet.type = "INIT_ACK" -> packet.tag = w.tag
       [] packet.type = "COOKIE_ECHO" -> TRUE
       [] packet.type = "SHUTDOWN_COMPLETE" ->
            \/ t_bit /\ (~HasTcb(w) \/ packet.tag = w.tcb.peer_tag)
            \/ ~t_bit /\ packet.tag = my_tag
       [] OTHER -> packet.tag = my_tag

MaybeSendShutdownOnPacketReceived(w, packet) ==
  IF w.state = "ShutdownSent" /\ packet.data /= NoData
  THEN [SendShutdown(w) EXCEPT !.t2_shutdown = Started]
  ELSE w

\* DataTracker::IsTSNValid and Observe: whether a TSN is near the others, and new.
\* With one message in flight no TSN leaves a gap.
Valid(w, tsn) == tsn \in w.tcb.cum_tsn - MaxMessages .. w.tcb.cum_tsn + 1
Fresh(w, packet) ==
  /\ packet.data /= NoData
  /\ HasTcb(w)
  /\ packet.data.tsn = w.tcb.cum_tsn + 1

\* HandleDataCommon, then the SACK that ends the packet.
HandleData(w, packet) ==
  LET w1 == IF Fresh(w, packet) THEN [w EXCEPT !.tcb.cum_tsn = @ + 1] ELSE w
  IN IF packet.data = NoData \/ ~HasTcb(w) THEN w
     ELSE IF ~Valid(w, packet.data.tsn) THEN w
     ELSE SendChunk(w1, "SACK", [cum_tsn |-> w1.tcb.cum_tsn])

(***************************************************************************)
(* Actions.  A packet is lost or kept when it is sent; one that is kept    *)
(* may arrive late, after others, or never.                                *)
(***************************************************************************)
Step(p, w) ==
  /\ w.draws <= MaxDraws
  /\ sock' = [sock EXCEPT ![p] = [w EXCEPT !.out = {}]]

Transmit(rest, w) ==
  \E kept \in SUBSET w.out :
    /\ net' = rest \cup kept
    /\ Cardinality(net') <= MaxNet

Local(p, w) == Step(p, w) /\ Transmit(net, w) /\ UNCHANGED delivered

Called == calls < MaxCalls /\ calls' = calls + 1

ApiCall(p, w) == Called /\ UNCHANGED sent /\ Local(p, w)
Expire(p, w) == UNCHANGED <<sent, calls>> /\ Local(p, w)

Init ==
  /\ sock = [p \in Peers |-> NewSocket(p, 0)]
  /\ net = {}
  /\ sent = [p \in Peers |-> 0]
  /\ delivered = [p \in Peers |-> <<>>]
  /\ calls = 0

Connect(p) ==
  /\ p \in Callers /\ sock[p].state = "Closed"
  /\ ApiCall(p, DoConnect(sock[p]))

Shutdown(p) ==
  /\ sock[p].state /= "Closed"
  /\ ApiCall(p, DoShutdown(sock[p]))

Close(p) ==
  /\ sock[p].state /= "Closed"
  /\ ApiCall(p, DoClose(sock[p]))

\* A message is accepted when the socket is not shutting down; one at a time.
SendMessage(p) ==
  /\ p \in Senders /\ sock[p].state \notin Shutdowns
  /\ sent[p] < MaxMessages
  /\ sock[p].queue = NoMsg
  /\ HasTcb(sock[p]) => sock[p].tcb.flight = NoMsg
  /\ sent' = [sent EXCEPT ![p] = @ + 1]
  /\ UNCHANGED calls
  /\ Local(p, DoSend(sock[p], sent'[p]))

Handover(p) ==
  /\ sock[p].state = "Established"
  /\ sock[p].queue = NoMsg /\ sock[p].tcb.flight = NoMsg
  /\ ApiCall(p, DoHandover(sock[p]))

ReceivePacket(p) ==
  \E packet \in {q \in net : q.dst = p} :
    LET w == sock[p]
        w1 == Dispatch(MaybeSendShutdownOnPacketReceived(w, packet), packet)
    IN /\ IF ~ValidatePacket(w, packet)
          THEN UNCHANGED <<sock, delivered>> /\ net' = net \ {packet}
          ELSE /\ Step(p, HandleData(w1, packet))
               /\ Transmit(net \ {packet}, HandleData(w1, packet))
               /\ delivered' = IF Fresh(w1, packet)
                               THEN [delivered EXCEPT ![p] = Append(@, packet.data.msg)]
                               ELSE delivered
       /\ UNCHANGED <<sent, calls>>

OnInitTimerExpiry(p) ==
  LET timer == Expired(sock[p].t1_init, MaxInitRetransmits)
      w == [sock[p] EXCEPT !.t1_init = timer]
  IN /\ Running(sock[p].t1_init)
     /\ Expire(p, IF Running(timer) THEN SendInit(w) ELSE InternalClose(w))

OnCookieTimerExpiry(p) ==
  LET timer == Expired(sock[p].t1_cookie, MaxInitRetransmits)
      w == [sock[p] EXCEPT !.t1_cookie = timer]
  IN /\ Running(sock[p].t1_cookie)
     /\ Expire(p, IF Running(timer) THEN SendBufferedPackets(w, NoInfo) ELSE InternalClose(w))

OnShutdownTimerExpiry(p) ==
  LET timer == Expired(sock[p].t2_shutdown, MaxRetransmissions)
      w == [sock[p] EXCEPT !.t2_shutdown = timer]
  IN /\ Running(sock[p].t2_shutdown)
     /\ Expire(p, IF Running(timer) THEN SendShutdown(w)
                 ELSE InternalClose(SendChunk(w, "ABORT", NoInfo)))

\* T3-rtx does nothing while the TCB still has a COOKIE ECHO to send.
OnRtxTimerExpiry(p) ==
  LET w == [sock[p] EXCEPT !.tcb.errors = @ + 1]
      again == Packet(w, w.tcb.peer_tag, "DATA", NoCookie,
                      [tsn |-> w.tcb.next_tsn - 1, msg |-> w.tcb.flight])
  IN /\ HasTcb(sock[p]) /\ sock[p].tcb.flight /= NoMsg /\ sock[p].tcb.cookie = NoCookie
     /\ Expire(p, IF w.tcb.errors > MaxRetransmissions THEN CloseIfTooManyErrors(w)
                 ELSE Send(w, again))

HeartbeatIntervalExpiry(p) ==
  /\ Heartbeats /\ sock[p].state = "Established" /\ ~sock[p].tcb.heartbeat
  /\ Expire(p, [SendChunk(sock[p], "HEARTBEAT", NoInfo) EXCEPT !.tcb.heartbeat = TRUE])

\* Mutant of HeartbeatTimeoutExpiry: with no error counted.
HeartbeatTimeoutExpiryNoError(p) ==
  /\ HasTcb(sock[p]) /\ sock[p].tcb.heartbeat
  /\ Expire(p, [sock[p] EXCEPT !.tcb.heartbeat = FALSE])

HeartbeatTimeoutExpiry(p) ==
  /\ HasTcb(sock[p]) /\ sock[p].tcb.heartbeat
  /\ Expire(p, CloseIfTooManyErrors([sock[p] EXCEPT !.tcb.heartbeat = FALSE,
                                                   !.tcb.errors = @ + 1]))

\* The process of p restarts: the socket is new, and so are its random numbers.
Crash(p) ==
  /\ HasTcb(sock[p])
  /\ sock' = [sock EXCEPT ![p] =
                [NewSocket(p, sock[p].draws) EXCEPT !.acked = sock[p].acked]]
  /\ Called
  /\ UNCHANGED <<net, sent, delivered>>

TimerExpiry(p) ==
  \/ OnInitTimerExpiry(p) \/ OnCookieTimerExpiry(p) \/ OnShutdownTimerExpiry(p)
  \/ OnRtxTimerExpiry(p) \/ HeartbeatIntervalExpiry(p) \/ HeartbeatTimeoutExpiry(p)

Call(p) == Connect(p) \/ Shutdown(p) \/ Close(p) \/ SendMessage(p) \/ Handover(p)

Next == \E p \in Peers : Call(p) \/ ReceivePacket(p) \/ TimerExpiry(p) \/ Crash(p)

Spec == Init /\ [][Next]_vars

\* Of the timers of a socket that run, one expires: weak fairness of TimerExpiry(p),
\* with the condition that enables it written out.  It is told from the other steps
\* by its effect: only a timer changes p with no packet taken and no call made.
TimerRuns(p) ==
  LET w == sock[p]
  IN \/ Running(w.t1_init) \/ Running(w.t1_cookie) \/ Running(w.t2_shutdown)
     \/ HasTcb(w) /\ w.tcb.flight /= NoMsg /\ w.tcb.cookie = NoCookie
     \/ HasTcb(w) /\ w.tcb.heartbeat
     \/ Heartbeats /\ w.state = "Established"
TimerStep(p) == net \subseteq net' /\ UNCHANGED <<sent, calls>> /\ sock'[p] /= sock[p]
Fairness == \A p \in Peers : []<>~TimerRuns(p) \/ []<><<TimerStep(p)>>_vars
FairSpec == Spec /\ Fairness
----
(***************************************************************************)
(* Properties                                                              *)
(***************************************************************************)
\* p's association has its other end at the peer.
Answered(p) ==
  HasTcb(sock[p]) /\ HasTcb(sock[Other(p)]) /\ sock[p].tcb.peer_tag = sock[Other(p)].tcb.my_tag

\* The socket is told to shut down while its COOKIE ECHO is unanswered: the
\* T1-cookie timer is stopped, the COOKIE ECHO stays, and it stops T3-rtx.
LeftWithCookie(p) == sock[p].state \in Shutdowns /\ sock[p].tcb.cookie /= NoCookie

\* The state of a socket tells whether it has a TCB and which of its timers run,
\* which DcSctpSocket asserts after every call, but for T2-shutdown: a COOKIE
\* ECHO brings a socket back to Established, and a SHUTDOWN or Shutdown() on from
\* there, while that timer runs.
TimersMatchState ==
  \A p \in Peers :
    LET w == sock[p]
    IN /\ HasTcb(w) <=> w.state \notin {"Closed", "CookieWait"}
       /\ Running(w.t1_init) <=> w.state = "CookieWait"
       /\ Running(w.t1_cookie) <=> w.state = "CookieEchoed"
       /\ w.state = "CookieEchoed" => w.tcb.cookie /= NoCookie
       /\ w.state \in {"ShutdownSent", "ShutdownAckSent"} => Running(w.t2_shutdown)
       /\ Running(w.t2_shutdown) => w.state \notin {"Closed", "CookieWait", "CookieEchoed"}

\* All that DcSctpSocket::IsConsistent asserts: T2-shutdown, too, runs only in
\* the states of a shutdown that await an answer.
IsConsistent ==
  /\ TimersMatchState
  /\ \A p \in Peers :
       Running(sock[p].t2_shutdown) => sock[p].state \in {"ShutdownSent", "ShutdownAckSent"}

\* Two sockets whose verification tags belong together also agree on both
\* initial TSNs, whichever of the INITs, INIT ACKs and cookies of simultaneous,
\* repeated and restarted attempts to connect each of them took its own from.
TagsAgreeOnTsns ==
  (\A p \in Peers : Answered(p)) => \A p \in Peers : sock[p].tcb.peer_tsn = sock[Other(p)].tcb.my_tsn

\* OnLifecycleMessageDelivered: a message that the peer has acknowledged, the
\* peer's application has received.
AckedIsDelivered ==
  \A p \in Peers : \A m \in sock[p].acked :
    \E i \in DOMAIN delivered[Other(p)] : delivered[Other(p)][i] = m

\* A socket does not stay in an association whose other end is gone, because
\* the peer restarted, closed or never got there: retransmission limits,
\* heartbeats or a new handshake end it, in every state but that of a socket
\* left with a COOKIE ECHO.
HalfOpenEnds ==
  \A p \in Peers : []<>(~HasTcb(sock[p]) \/ Answered(p) \/ LeftWithCookie(p))
====
