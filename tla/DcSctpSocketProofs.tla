---- MODULE DcSctpSocketProofs ----
(***************************************************************************)
(* Proofs about DcSctpSocket: the state of a socket tells which timers     *)
(* run, and sockets whose tags belong together agree on their TSNs, for    *)
(* any number of calls, packets on their way, messages and restarts.       *)
(*                                                                         *)
(* R is a set of pairs of a verification tag and the initial TSN that goes *)
(* with it.  Whatever a socket or a packet says of an association comes    *)
(* from R; a tag enters R once, when it is drawn.                          *)
(***************************************************************************)
EXTENDS DcSctpSocket, TLAPS

ChunkTypes ==
  {"INIT", "INIT_ACK", "COOKIE_ECHO", "COOKIE_ACK", "SACK", "HEARTBEAT", "HEARTBEAT_ACK",
   "ABORT", "SHUTDOWN", "SHUTDOWN_ACK", "SHUTDOWN_COMPLETE", "DATA"}

Inits == [tag : Int, tsn : Int]
Sacks == [cum_tsn : Int]
TBits == [t_bit : BOOLEAN]
Infos == Inits \cup Cookies \cup Sacks \cup TBits \cup {NoInfo, NoCookie}
Datas == [tsn : Int, msg : Msgs] \cup {NoData}

\* Cookies, packets and TCBs whose tags and TSNs come from R.
CookiesOf(R) ==
  {c \in Cookies : <<c.my_tag, c.my_tsn>> \in R /\ <<c.peer_tag, c.peer_tsn>> \in R}

PacketsOf(R) ==
  {q \in [dst : Peers, tag : Int, type : ChunkTypes, info : Infos, data : Datas] :
     /\ q.type = "INIT" => q.info \in Inits /\ <<q.info.tag, q.info.tsn>> \in R
     /\ q.type \in {"INIT_ACK", "COOKIE_ECHO"} => q.info \in CookiesOf(R)
     /\ q.type = "SACK" => q.info \in Sacks}

TcbsOf(R) ==
  {t \in Tcbs : /\ <<t.my_tag, t.my_tsn>> \in R
                /\ <<t.peer_tag, t.peer_tsn>> \in R
                /\ t.cookie \in CookiesOf(R) \cup {NoCookie}}

SocketsOf(R) ==
  [id : Peers, state : States, t1_init : Nat, t1_cookie : Nat, t2_shutdown : Nat,
   tag : Int, tsn : Int, queue : Msgs, tcb : TcbsOf(R) \cup {NoTcb}, draws : Nat,
   acked : SUBSET Msgs, out : SUBSET PacketsOf(R)]

\* TimersMatchState for one socket.
TimersOK(w) ==
  /\ HasTcb(w) <=> w.state \notin {"Closed", "CookieWait"}
  /\ Running(w.t1_init) <=> w.state = "CookieWait"
  /\ Running(w.t1_cookie) <=> w.state = "CookieEchoed"
  /\ w.state = "CookieEchoed" => w.tcb.cookie /= NoCookie
  /\ w.state \in {"ShutdownSent", "ShutdownAckSent"} => Running(w.t2_shutdown)
  /\ Running(w.t2_shutdown) => w.state \notin {"Closed", "CookieWait", "CookieEchoed"}

\* A socket that connects uses the tag and TSN it drew.
Good(w, R) ==
  /\ w \in SocketsOf(R)
  /\ TimersOK(w)
  /\ w.state \in {"CookieWait", "CookieEchoed"} => <<w.tag, w.tsn>> \in R

\* The tags of R were drawn by one of the sockets, and go with one TSN each.
Issued(tag, draws) == \E d \in Nat, p \in Peers : d < draws[p] /\ tag = (2 * d + p + 1) * 10

RegisterOK(R, draws) ==
  /\ R \subseteq Int \X Int
  /\ \A x \in R : Issued(x[1], draws)
  /\ \A x, y \in R : x[1] = y[1] => x[2] = y[2]

\* The sockets, the packets on their way and the counts of messages, from R.
AssociationOK(R, socks, packets, counts) ==
  /\ RegisterOK(R, [p \in Peers |-> socks[p].draws])
  /\ DOMAIN socks = Peers
  /\ \A p \in Peers : Good(socks[p], R) /\ socks[p].id = p /\ socks[p].out = {}
  /\ packets \subseteq PacketsOf(R)
  /\ counts \in [Peers -> Nat]

\* The inductive invariant.
SocketInv == \E R : AssociationOK(R, sock, net, sent)

----
(***************************************************************************)
(* Building blocks                                                         *)
(***************************************************************************)
\* What a larger register allows.
LEMMA Larger ==
  ASSUME NEW R, NEW R2, R \subseteq R2
  PROVE  /\ CookiesOf(R) \subseteq CookiesOf(R2)
         /\ PacketsOf(R) \subseteq PacketsOf(R2)
         /\ TcbsOf(R) \subseteq TcbsOf(R2)
         /\ SocketsOf(R) \subseteq SocketsOf(R2)
         /\ \A w : Good(w, R) => Good(w, R2)
<1>1. CookiesOf(R) \subseteq CookiesOf(R2)
  BY DEF CookiesOf
<1>2. PacketsOf(R) \subseteq PacketsOf(R2)
  BY <1>1 DEF PacketsOf
<1>3. TcbsOf(R) \subseteq TcbsOf(R2)
  BY <1>1 DEF TcbsOf
<1>4. SocketsOf(R) \subseteq SocketsOf(R2)
  BY <1>2, <1>3 DEF SocketsOf
<1>5. \A w : Good(w, R) => Good(w, R2)
  BY <1>4 DEF Good
<1>6. QED
  BY <1>1, <1>2, <1>3, <1>4, <1>5

\* w1 differs from w in its queue, its messages and what it sends only.
Frame(w, w1) ==
  /\ w1.id = w.id /\ w1.draws = w.draws /\ w1.state = w.state
  /\ w1.t1_init = w.t1_init /\ w1.t1_cookie = w.t1_cookie /\ w1.t2_shutdown = w.t2_shutdown
  /\ w1.tag = w.tag /\ w1.tsn = w.tsn
  /\ HasTcb(w1) <=> HasTcb(w)
  /\ HasTcb(w) => w1.tcb.cookie = w.tcb.cookie

\* w1 is a socket that an operation may leave of w.
After(w, w1, R) == Good(w1, R) /\ w1.id = w.id /\ w1.draws \in Nat /\ w1.draws >= w.draws

\* Such a difference leaves a good socket good.
LEMMA FrameGood ==
  ASSUME NEW R, NEW w, NEW w1, Good(w, R), w1 \in SocketsOf(R), Frame(w, w1)
  PROVE  After(w, w1, R)
<1>1. w.draws \in Nat /\ w1.draws \in Nat
  BY DEF Good, SocketsOf
<1>2. TimersOK(w1)
  BY DEF Good, Frame, TimersOK
<1>3. QED
  BY <1>1, <1>2 DEF After, Good, Frame

\* The TCB of a socket that has one.
LEMMA TcbOf ==
  ASSUME NEW R, NEW w \in SocketsOf(R), HasTcb(w)
  PROVE  /\ w.tcb \in TcbsOf(R) /\ w.tcb \in Tcbs
         /\ w.tcb.cookie \in CookiesOf(R) \cup {NoCookie}
         /\ w.tcb.peer_tag \in Int /\ w.tcb.my_tag \in Int /\ w.tcb.next_tsn \in Int
         /\ w.tcb.flight \in Msgs /\ w.tcb.cum_tsn \in Int /\ w.tcb.tie \in Int
         /\ w.tcb.errors \in Nat
<1>1. w.tcb \in TcbsOf(R)
  BY DEF HasTcb, SocketsOf
<1>2. w.tcb \in Tcbs /\ w.tcb.cookie \in CookiesOf(R) \cup {NoCookie}
  BY <1>1 DEF TcbsOf
<1>3. QED
  BY <1>1, <1>2 DEF Tcbs

\* The fields of a socket.
LEMMA FieldsOf ==
  ASSUME NEW R, NEW w \in SocketsOf(R)
  PROVE  /\ w.id \in Peers /\ w.state \in States /\ w.t1_init \in Nat /\ w.t1_cookie \in Nat
         /\ w.t2_shutdown \in Nat /\ w.tag \in Int /\ w.tsn \in Int /\ w.queue \in Msgs
         /\ w.tcb \in TcbsOf(R) \cup {NoTcb} /\ w.draws \in Nat /\ w.acked \subseteq Msgs
         /\ w.out \subseteq PacketsOf(R)
         /\ Draw(w) \in Int
<1>1. /\ w.id \in Peers /\ w.state \in States /\ w.t1_init \in Nat /\ w.t1_cookie \in Nat
      /\ w.t2_shutdown \in Nat /\ w.tag \in Int /\ w.tsn \in Int /\ w.queue \in Msgs
      /\ w.tcb \in TcbsOf(R) \cup {NoTcb} /\ w.draws \in Nat /\ w.acked \subseteq Msgs
      /\ w.out \subseteq PacketsOf(R)
  BY DEF SocketsOf
<1>2. (2 * w.draws + w.id + 1) * 10 \in Int
  BY <1>1 DEF Peers
<1>3. QED
  BY <1>1, <1>2 DEF Draw

\* A packet with a chunk that says nothing of tags and TSNs.
Plain(type, info) ==
  /\ type \in ChunkTypes \ {"INIT", "INIT_ACK", "COOKIE_ECHO"}
  /\ info \in Infos
  /\ type = "SACK" => info \in Sacks

\* The packets a socket makes.
LEMMA PacketOf ==
  ASSUME NEW R, NEW w \in SocketsOf(R), NEW tag \in Int, NEW type \in ChunkTypes,
         NEW info \in Infos, NEW data \in Datas,
         \/ type = "INIT" /\ info \in Inits /\ <<info.tag, info.tsn>> \in R
         \/ type \in {"INIT_ACK", "COOKIE_ECHO"} /\ info \in CookiesOf(R)
         \/ Plain(type, info)
  PROVE  Packet(w, tag, type, info, data) \in PacketsOf(R)
<1>1. Other(w.id) \in Peers
  BY FieldsOf DEF Other, Peers
<1> DEFINE q == Packet(w, tag, type, info, data)
<1>2. /\ q \in [dst : Peers, tag : Int, type : ChunkTypes, info : Infos, data : Datas]
      /\ q.type = type /\ q.info = info
  BY <1>1 DEF Packet
<1> HIDE DEF q
<1>3. q \in PacketsOf(R)
  BY <1>2 DEF PacketsOf, Plain
<1>4. QED
  BY <1>3 DEF q

\* Sending changes what is sent only.
LEMMA SendOf ==
  ASSUME NEW R, NEW w \in SocketsOf(R), NEW q \in PacketsOf(R)
  PROVE  /\ Send(w, q) \in SocketsOf(R) /\ Frame(w, Send(w, q))
         /\ Send(w, q).tcb = w.tcb /\ Send(w, q).queue = w.queue
<1>1. w.out \cup {q} \in SUBSET PacketsOf(R)
  BY FieldsOf
<1>2. /\ Send(w, q) \in SocketsOf(R)
      /\ Send(w, q).tcb = w.tcb /\ Send(w, q).queue = w.queue
      /\ Send(w, q).id = w.id /\ Send(w, q).draws = w.draws /\ Send(w, q).state = w.state
      /\ Send(w, q).t1_init = w.t1_init /\ Send(w, q).t1_cookie = w.t1_cookie
      /\ Send(w, q).t2_shutdown = w.t2_shutdown
      /\ Send(w, q).tag = w.tag /\ Send(w, q).tsn = w.tsn
  BY <1>1 DEF Send, SocketsOf
<1>3. QED
  BY <1>2 DEF Frame, HasTcb

\* A chunk to the peer of an association.
LEMMA SendChunkOf ==
  ASSUME NEW R, NEW w \in SocketsOf(R), HasTcb(w), NEW type, NEW info, Plain(type, info)
  PROVE  /\ SendChunk(w, type, info) \in SocketsOf(R) /\ Frame(w, SendChunk(w, type, info))
         /\ SendChunk(w, type, info).tcb = w.tcb /\ SendChunk(w, type, info).queue = w.queue
<1>1. NoData \in Datas
  BY DEF Datas
<1>2. Packet(w, w.tcb.peer_tag, type, info, NoData) \in PacketsOf(R)
  BY <1>1, TcbOf, PacketOf DEF Plain
<1>3. QED
  BY <1>2, SendOf DEF SendChunk

\* Closing leaves no timer running, whatever ran before.
LEMMA InternalCloseOf ==
  ASSUME NEW R, NEW w \in SocketsOf(R)
  PROVE  After(w, InternalClose(w), R)
<1> DEFINE c == InternalClose(w)
<1>1. /\ c \in SocketsOf(R) /\ c.id = w.id /\ c.draws = w.draws
      /\ c.state = "Closed" /\ c.tcb = NoTcb
      /\ c.t1_init = 0 /\ c.t1_cookie = 0 /\ c.t2_shutdown = 0
  BY DEF InternalClose, SocketsOf, States, Stopped
<1>2. w.draws \in Nat
  BY FieldsOf
<1> HIDE DEF c
<1>3. TimersOK(c)
  BY <1>1 DEF TimersOK, HasTcb, Running, Stopped
<1>4. After(w, c, R)
  BY <1>1, <1>2, <1>3 DEF After, Good
<1>5. QED
  BY <1>4 DEF c

\* A TCB keeps its tags, TSNs and cookie when messages and errors come and go.
LEMMA TcbUpdates ==
  ASSUME NEW R, NEW t \in TcbsOf(R)
  PROVE  /\ t /= NoTcb
         /\ \A m \in Msgs, n \in Int :
              [t EXCEPT !.flight = m, !.next_tsn = n] \in TcbsOf(R)
         /\ \A m \in Msgs : [t EXCEPT !.flight = m, !.errors = 0] \in TcbsOf(R)
         /\ \A n \in Int : [t EXCEPT !.cum_tsn = n] \in TcbsOf(R)
         /\ \A b \in BOOLEAN, n \in Nat : [t EXCEPT !.heartbeat = b, !.errors = n] \in TcbsOf(R)
         /\ \A b \in BOOLEAN : [t EXCEPT !.heartbeat = b] \in TcbsOf(R)
         /\ \A n \in Nat : [t EXCEPT !.errors = n] \in TcbsOf(R)
         /\ \A c \in CookiesOf(R) \cup {NoCookie} : [t EXCEPT !.cookie = c] \in TcbsOf(R)
<1>1. t \in Tcbs
  BY DEF TcbsOf
<1>2. t /= NoTcb
  BY <1>1, NoneAssumption
<1>3. \A m \in Msgs, n \in Int : [t EXCEPT !.flight = m, !.next_tsn = n] \in TcbsOf(R)
  BY <1>1 DEF TcbsOf, Tcbs
<1>4. \A m \in Msgs : [t EXCEPT !.flight = m, !.errors = 0] \in TcbsOf(R)
  BY <1>1 DEF TcbsOf, Tcbs
<1>5. \A n \in Int : [t EXCEPT !.cum_tsn = n] \in TcbsOf(R)
  BY <1>1 DEF TcbsOf, Tcbs
<1>6. \A b \in BOOLEAN, n \in Nat : [t EXCEPT !.heartbeat = b, !.errors = n] \in TcbsOf(R)
  BY <1>1 DEF TcbsOf, Tcbs
<1>7. \A b \in BOOLEAN : [t EXCEPT !.heartbeat = b] \in TcbsOf(R)
  BY <1>1 DEF TcbsOf, Tcbs
<1>8. \A n \in Nat : [t EXCEPT !.errors = n] \in TcbsOf(R)
  BY <1>1 DEF TcbsOf, Tcbs
<1>9. \A c \in CookiesOf(R) \cup {NoCookie} : [t EXCEPT !.cookie = c] \in TcbsOf(R)
  <2>1. CookiesOf(R) \subseteq Cookies
    BY DEF CookiesOf
  <2>2. QED
    BY <1>1, <2>1 DEF TcbsOf, Tcbs
<1>10. QED
  BY <1>2, <1>3, <1>4, <1>5, <1>6, <1>7, <1>8, <1>9

\* A socket with another TCB with the same cookie, and perhaps another queue.
LEMMA WithTcb ==
  ASSUME NEW R, NEW w \in SocketsOf(R), HasTcb(w), NEW t \in TcbsOf(R), NEW m \in Msgs,
         t.cookie = w.tcb.cookie
  PROVE  /\ [w EXCEPT !.tcb = t] \in SocketsOf(R) /\ Frame(w, [w EXCEPT !.tcb = t])
         /\ [w EXCEPT !.tcb = t].tcb = t
         /\ [w EXCEPT !.queue = m, !.tcb = t] \in SocketsOf(R)
         /\ Frame(w, [w EXCEPT !.queue = m, !.tcb = t])
         /\ [w EXCEPT !.queue = m, !.tcb = t].tcb = t
<1>1. t /= NoTcb
  BY TcbUpdates
<1> DEFINE a == [w EXCEPT !.tcb = t]
           b == [w EXCEPT !.queue = m, !.tcb = t]
<1>2. /\ a \in SocketsOf(R) /\ a.id = w.id /\ a.draws = w.draws /\ a.state = w.state
      /\ a.t1_init = w.t1_init /\ a.t1_cookie = w.t1_cookie /\ a.t2_shutdown = w.t2_shutdown
      /\ a.tag = w.tag /\ a.tsn = w.tsn /\ a.tcb = t
  BY DEF SocketsOf
<1>3. /\ b \in SocketsOf(R) /\ b.id = w.id /\ b.draws = w.draws /\ b.state = w.state
      /\ b.t1_init = w.t1_init /\ b.t1_cookie = w.t1_cookie /\ b.t2_shutdown = w.t2_shutdown
      /\ b.tag = w.tag /\ b.tsn = w.tsn /\ b.tcb = t
  BY DEF SocketsOf
<1> HIDE DEF a, b
<1>4. Frame(w, a) /\ Frame(w, b)
  BY <1>1, <1>2, <1>3 DEF Frame, HasTcb
<1>5. QED
  BY <1>2, <1>3, <1>4 DEF a, b

\* Frames compose.
LEMMA FrameTrans ==
  ASSUME NEW w, NEW w1, NEW w2, Frame(w, w1), Frame(w1, w2)
  PROVE  Frame(w, w2)
  BY DEF Frame

\* Drawing a number counts it, and changes nothing else.
LEMMA DrawnOf ==
  ASSUME NEW R, NEW w \in SocketsOf(R)
  PROVE  /\ Drawn(w) \in SocketsOf(R) /\ Drawn(w).draws = w.draws + 1
         /\ Drawn(w).id = w.id /\ Drawn(w).state = w.state /\ Drawn(w).tcb = w.tcb
         /\ Drawn(w).tag = w.tag /\ Drawn(w).tsn = w.tsn
         /\ Drawn(w).t1_init = w.t1_init /\ Drawn(w).t1_cookie = w.t1_cookie
         /\ Drawn(w).t2_shutdown = w.t2_shutdown
  BY DEF SocketsOf, Drawn

\* SendBufferedPackets moves the waiting message, if any, into flight.
LEMMA SendBufferedPacketsOf ==
  ASSUME NEW R, NEW w \in SocketsOf(R), HasTcb(w), NEW first \in {NoInfo, "COOKIE_ACK"}
  PROVE  /\ SendBufferedPackets(w, first) \in SocketsOf(R)
         /\ Frame(w, SendBufferedPackets(w, first))
<1> DEFINE has_cookie == w.tcb.cookie /= NoCookie
           produce == w.queue /= NoMsg /\ w.tcb.flight = NoMsg
           type == IF has_cookie THEN "COOKIE_ECHO" ELSE IF first /= NoInfo THEN first ELSE "DATA"
           data == IF produce THEN [tsn |-> w.tcb.next_tsn, msg |-> w.queue] ELSE NoData
           t == [w.tcb EXCEPT !.flight = w.queue, !.next_tsn = @ + 1]
           moved == [w EXCEPT !.queue = NoMsg, !.tcb = t]
           w1 == IF produce THEN moved ELSE w
           q == Packet(w, w.tcb.peer_tag, type, w.tcb.cookie, data)
<1>1. /\ w.tcb \in TcbsOf(R) /\ w.tcb \in Tcbs /\ w.tcb.cookie \in CookiesOf(R) \cup {NoCookie}
      /\ w.tcb.peer_tag \in Int /\ w.tcb.next_tsn \in Int
  BY TcbOf
<1>2. w.queue \in Msgs /\ NoMsg \in Msgs
  BY FieldsOf DEF Msgs
<1>3. data \in Datas
  BY <1>1, <1>2 DEF Datas
<1>4. w.tcb.cookie \in Infos
  BY <1>1 DEF Infos, CookiesOf
<1>5. type \in ChunkTypes /\ (has_cookie \/ Plain(type, w.tcb.cookie))
  BY <1>4 DEF ChunkTypes, Plain
<1>6. has_cookie => type = "COOKIE_ECHO" /\ w.tcb.cookie \in CookiesOf(R)
  BY <1>1
<1>7. q \in PacketsOf(R)
  <2> HIDE DEF type, data, has_cookie
  <2>1. QED
    BY <1>1, <1>3, <1>4, <1>5, <1>6, PacketOf
<1>8. t \in TcbsOf(R) /\ t.cookie = w.tcb.cookie
  <2>1. \A m \in Msgs, n \in Int : [w.tcb EXCEPT !.flight = m, !.next_tsn = n] \in TcbsOf(R)
    BY <1>1, TcbUpdates, Zenon
  <2>2. w.tcb.next_tsn + 1 \in Int
    BY <1>1
  <2>3. t \in TcbsOf(R)
    BY <1>2, <2>1, <2>2, Zenon
  <2>4. t.cookie = w.tcb.cookie
    BY <1>1 DEF Tcbs
  <2>5. QED
    BY <2>3, <2>4
<1>9. w1 \in SocketsOf(R) /\ Frame(w, w1)
  <2> HIDE DEF t, produce
  <2>1. moved \in SocketsOf(R) /\ Frame(w, moved)
    BY <1>2, <1>8, WithTcb
  <2>2. Frame(w, w)
    BY DEF Frame
  <2> HIDE DEF moved
  <2>3. QED
    BY <2>1, <2>2
<1>10. Send(w1, q) \in SocketsOf(R) /\ Frame(w, Send(w1, q))
  <2> HIDE DEF w1, q
  <2>1. QED
    BY <1>7, <1>9, SendOf, FrameTrans
<1>11. SendBufferedPackets(w, first) \in {w, Send(w1, q)}
  <2>1. moved = [w EXCEPT !.queue = NoMsg, !.tcb.flight = w.queue, !.tcb.next_tsn = @ + 1]
    BY <1>1 DEF SocketsOf, Tcbs
  <2>2. QED
    BY <2>1 DEF SendBufferedPackets
<1>12. Frame(w, w)
  BY DEF Frame
<1> HIDE DEF w1, q
<1>13. QED
  BY <1>10, <1>11, <1>12

\* Chunks without information.
LEMMA PlainChunks ==
  /\ \A type \in {"HEARTBEAT", "HEARTBEAT_ACK", "ABORT", "SHUTDOWN", "SHUTDOWN_ACK"} :
       Plain(type, NoInfo)
  /\ \A b \in BOOLEAN : Plain("SHUTDOWN_COMPLETE", [t_bit |-> b])
  /\ \A n \in Int : Plain("SACK", [cum_tsn |-> n])
  BY DEF Plain, ChunkTypes, Infos, TBits, Sacks

\* A good socket is one, and has a TCB but when it is closed or waits for a cookie.
LEMMA GoodFacts ==
  ASSUME NEW R, NEW w, Good(w, R)
  PROVE  /\ w \in SocketsOf(R) /\ TimersOK(w) /\ w.draws \in Nat
         /\ HasTcb(w) <=> w.state \notin {"Closed", "CookieWait"}
         /\ After(w, w, R)
<1>1. w \in SocketsOf(R) /\ TimersOK(w)
  BY DEF Good
<1>2. w.draws \in Nat
  BY <1>1, FieldsOf
<1>3. HasTcb(w) <=> w.state \notin {"Closed", "CookieWait"}
  BY <1>1 DEF TimersOK
<1>4. QED
  BY <1>1, <1>2, <1>3 DEF After

\* Operations compose.
LEMMA AfterTrans ==
  ASSUME NEW R, NEW w, NEW w1, NEW w2, w.draws \in Nat, After(w, w1, R), After(w1, w2, R)
  PROVE  After(w, w2, R)
  BY DEF After

\* A socket that has an association enters one of the later states, with T2-shutdown
\* running if that state needs it.
LEMMA EnterOf ==
  ASSUME NEW R, NEW w \in SocketsOf(R), HasTcb(w), NEW state \in Shutdowns \cup {"Established"},
         NEW t2 \in Nat, state \in {"ShutdownSent", "ShutdownAckSent"} => t2 /= 0,
         NEW w1, w1 \in SocketsOf(R), w1.id = w.id, w1.draws \in Nat, w1.draws >= w.draws,
         HasTcb(w1), w1.state = state, w1.t1_init = 0, w1.t1_cookie = 0, w1.t2_shutdown = t2
  PROVE  After(w, w1, R)
<1>1. state \notin {"Closed", "CookieWait", "CookieEchoed"}
  BY DEF Shutdowns
<1>2. TimersOK(w1)
  BY <1>1 DEF TimersOK, Running, Stopped
<1>3. QED
  BY <1>1, <1>2 DEF After, Good

\* The timers of a socket in one of the later states.
LEMMA LaterTimers ==
  ASSUME NEW w, TimersOK(w), w.state \in Shutdowns \cup {"Established"}
  PROVE  /\ w.t1_init = 0 /\ w.t1_cookie = 0 /\ HasTcb(w)
         /\ w.state \in {"ShutdownSent", "ShutdownAckSent"} => w.t2_shutdown /= 0
  BY DEF TimersOK, Running, Stopped, Shutdowns

\* SendShutdown and SendShutdownAck.
LEMMA SendShutdownOf ==
  ASSUME NEW R, NEW w \in SocketsOf(R), HasTcb(w)
  PROVE  /\ SendShutdown(w) \in SocketsOf(R) /\ Frame(w, SendShutdown(w))
         /\ SendShutdown(w).tcb = w.tcb
  BY SendChunkOf, PlainChunks DEF SendShutdown

\* w1 is w with another state and another T2-shutdown timer, but for what it sends.
Moved(w, w1, state, t2) ==
  /\ w1.id = w.id /\ w1.draws = w.draws /\ w1.tcb = w.tcb /\ w1.state = state
  /\ w1.t1_init = w.t1_init /\ w1.t1_cookie = w.t1_cookie /\ w1.t2_shutdown = t2
  /\ w1.tag = w.tag /\ w1.tsn = w.tsn

\* SHUTDOWN and SHUTDOWN ACK are sent with T2-shutdown started.
LEMMA ShutdownSentOf ==
  ASSUME NEW R, NEW w \in SocketsOf(R), HasTcb(w)
  PROVE  /\ \A state \in States :
              LET w1 == [SendShutdown(w) EXCEPT !.t2_shutdown = Started, !.state = state]
              IN w1 \in SocketsOf(R) /\ Moved(w, w1, state, 1)
         /\ LET w1 == [SendShutdown(w) EXCEPT !.t2_shutdown = Started]
            IN w1 \in SocketsOf(R) /\ Moved(w, w1, w.state, 1)
         /\ SendShutdownAck(w) \in SocketsOf(R) /\ Moved(w, SendShutdownAck(w), w.state, 1)
         /\ \A state \in States :
              LET w1 == [SendShutdownAck(w) EXCEPT !.state = state]
              IN w1 \in SocketsOf(R) /\ Moved(w, w1, state, 1)
<1>1. \A v \in SocketsOf(R), state \in States :
        v.tcb = w.tcb /\ Frame(w, v) =>
          /\ LET w1 == [v EXCEPT !.t2_shutdown = Started, !.state = state]
             IN w1 \in SocketsOf(R) /\ Moved(w, w1, state, 1)
          /\ LET w1 == [v EXCEPT !.t2_shutdown = Started]
             IN w1 \in SocketsOf(R) /\ Moved(w, w1, w.state, 1)
  <2> SUFFICES ASSUME NEW v \in SocketsOf(R), NEW state \in States,
                      v.tcb = w.tcb, Frame(w, v)
               PROVE  /\ LET w1 == [v EXCEPT !.t2_shutdown = Started, !.state = state]
                         IN w1 \in SocketsOf(R) /\ Moved(w, w1, state, 1)
                      /\ LET w1 == [v EXCEPT !.t2_shutdown = Started]
                         IN w1 \in SocketsOf(R) /\ Moved(w, w1, w.state, 1)
    BY Zenon
  <2> DEFINE started == [v EXCEPT !.t2_shutdown = Started]
             moved   == [v EXCEPT !.t2_shutdown = Started, !.state = state]
  <2>1. started \in SocketsOf(R) /\ moved \in SocketsOf(R)
    BY DEF SocketsOf, Started
  <2>2. Moved(w, started, w.state, 1)
    BY DEF SocketsOf, Moved, Frame, Started
  <2>3. Moved(w, moved, state, 1)
    BY DEF SocketsOf, Moved, Frame, Started
  <2>4. QED
    BY <2>1, <2>2, <2>3, Zenon
<1>2. \A v \in SocketsOf(R), state \in States :
        Moved(w, v, w.state, 1) =>
             LET w1 == [v EXCEPT !.state = state]
             IN w1 \in SocketsOf(R) /\ Moved(w, w1, state, 1)
  BY DEF SocketsOf, Moved
<1>3. /\ SendShutdown(w) \in SocketsOf(R) /\ Frame(w, SendShutdown(w))
      /\ SendShutdown(w).tcb = w.tcb
  BY SendShutdownOf
<1> DEFINE ack == SendChunk(w, "SHUTDOWN_ACK", NoInfo)
<1>4. ack \in SocketsOf(R) /\ Frame(w, ack) /\ ack.tcb = w.tcb
  BY SendChunkOf, PlainChunks
<1>5. w.state \in States
  BY FieldsOf
<1>6. SendShutdownAck(w) = [ack EXCEPT !.t2_shutdown = Started]
  BY DEF SendShutdownAck
<1> HIDE DEF ack
<1>7. SendShutdownAck(w) \in SocketsOf(R) /\ Moved(w, SendShutdownAck(w), w.state, 1)
  BY <1>1, <1>4, <1>5, <1>6
<1>8. QED
  BY <1>1, <1>2, <1>3, <1>5, <1>7

\* MaybeSendShutdownOrAck goes on with the shutdown when nothing is in flight.
LEMMA MaybeSendShutdownOrAckOf ==
  ASSUME NEW R, NEW w, Good(w, R), HasTcb(w)
  PROVE  After(w, MaybeSendShutdownOrAck(w), R) /\ HasTcb(MaybeSendShutdownOrAck(w))
<1>1. w \in SocketsOf(R) /\ TimersOK(w) /\ w.draws \in Nat /\ After(w, w, R)
  BY GoodFacts
<1>2. CASE w.tcb.flight = NoMsg /\ w.state = "ShutdownPending"
  <2> DEFINE w1 == [SendShutdown(w) EXCEPT !.t2_shutdown = Started, !.state = "ShutdownSent"]
  <2>1. MaybeSendShutdownOrAck(w) = w1
    BY <1>2 DEF MaybeSendShutdownOrAck
  <2>2. "ShutdownSent" \in States /\ "ShutdownSent" \in Shutdowns
    BY DEF States, Shutdowns
  <2>3. w1 \in SocketsOf(R) /\ Moved(w, w1, "ShutdownSent", 1)
    BY <1>1, <2>2, ShutdownSentOf
  <2> HIDE DEF w1
  <2>4. w.t1_init = 0 /\ w.t1_cookie = 0
    BY <1>1, <1>2, LaterTimers DEF Shutdowns
  <2>5. /\ w1.id = w.id /\ w1.draws \in Nat /\ w1.draws >= w.draws /\ HasTcb(w1)
        /\ w1.state = "ShutdownSent" /\ w1.t1_init = 0 /\ w1.t1_cookie = 0
        /\ w1.t2_shutdown = 1
    BY <1>1, <2>3, <2>4 DEF Moved, HasTcb
  <2>6. After(w, w1, R)
    BY <1>1, <2>2, <2>3, <2>5, EnterOf
  <2>7. QED
    BY <2>1, <2>5, <2>6
<1>3. CASE w.tcb.flight = NoMsg /\ w.state = "ShutdownReceived"
  <2> DEFINE w1 == [SendShutdownAck(w) EXCEPT !.state = "ShutdownAckSent"]
  <2>1. MaybeSendShutdownOrAck(w) = w1
    BY <1>3 DEF MaybeSendShutdownOrAck
  <2>2. "ShutdownAckSent" \in States /\ "ShutdownAckSent" \in Shutdowns
    BY DEF States, Shutdowns
  <2>3. w1 \in SocketsOf(R) /\ Moved(w, w1, "ShutdownAckSent", 1)
    BY <1>1, <2>2, ShutdownSentOf
  <2> HIDE DEF w1
  <2>4. w.t1_init = 0 /\ w.t1_cookie = 0
    BY <1>1, <1>3, LaterTimers DEF Shutdowns
  <2>5. /\ w1.id = w.id /\ w1.draws \in Nat /\ w1.draws >= w.draws /\ HasTcb(w1)
        /\ w1.state = "ShutdownAckSent" /\ w1.t1_init = 0 /\ w1.t1_cookie = 0
        /\ w1.t2_shutdown = 1
    BY <1>1, <2>3, <2>4 DEF Moved, HasTcb
  <2>6. After(w, w1, R)
    BY <1>1, <2>2, <2>3, <2>5, EnterOf
  <2>7. QED
    BY <2>1, <2>5, <2>6
<1>4. CASE ~(w.tcb.flight = NoMsg /\ w.state \in {"ShutdownPending", "ShutdownReceived"})
  BY <1>1, <1>4 DEF MaybeSendShutdownOrAck
<1>5. QED
  BY <1>2, <1>3, <1>4

\* HandleTimeout closes the socket or leaves it.
LEMMA CloseIfTooManyErrorsOf ==
  ASSUME NEW R, NEW w, Good(w, R)
  PROVE  After(w, CloseIfTooManyErrors(w), R)
<1>1. w \in SocketsOf(R) /\ w.draws \in Nat /\ After(w, w, R)
  BY GoodFacts
<1>2. CASE HasTcb(w) /\ w.tcb.errors > MaxRetransmissions
  <2> DEFINE a == SendChunk(w, "ABORT", NoInfo)
  <2>1. a \in SocketsOf(R) /\ Frame(w, a)
    BY <1>1, <1>2, SendChunkOf, PlainChunks
  <2>2. After(a, InternalClose(a), R)
    BY <2>1, InternalCloseOf
  <2>3. After(w, a, R)
    BY <1>1, <2>1, FrameGood
  <2>4. CloseIfTooManyErrors(w) = InternalClose(a)
    BY <1>2 DEF CloseIfTooManyErrors
  <2>5. QED
    BY <1>1, <2>2, <2>3, <2>4, AfterTrans
<1>3. CASE ~(HasTcb(w) /\ w.tcb.errors > MaxRetransmissions)
  BY <1>1, <1>3 DEF CloseIfTooManyErrors
<1>4. QED
  BY <1>2, <1>3

----
(***************************************************************************)
(* Calls of the application                                                *)
(***************************************************************************)
\* An operation that draws a tag adds it to the register, with a TSN.
Outcome(w, w1, R) ==
  \/ After(w, w1, R)
  \/ \E n \in Int : After(w, w1, R \cup {<<Draw(w), n>>}) /\ w1.draws > w.draws

\* Connect() draws the tag and the TSN of the INIT it sends.
LEMMA DoConnectOf ==
  ASSUME NEW R, NEW w, Good(w, R), w.state = "Closed"
  PROVE  Outcome(w, DoConnect(w), R)
<1> DEFINE n == Draw(w)
           R2 == R \cup {<<n, n>>}
           v == [w EXCEPT !.tag = n, !.tsn = n]
           q == Packet(v, 0, "INIT", [tag |-> n, tsn |-> n], NoData)
           s == Send(v, q)
           c == [s EXCEPT !.t1_init = Started, !.state = "CookieWait"]
<1>1. w \in SocketsOf(R) /\ TimersOK(w) /\ w.draws \in Nat
  BY GoodFacts
<1>2. n \in Int
  BY <1>1, FieldsOf
<1>3. w \in SocketsOf(R2)
  BY <1>1, Larger
<1>4. ~HasTcb(w) /\ w.t1_cookie = 0 /\ w.t2_shutdown = 0
  BY <1>1 DEF TimersOK, Running, Stopped
<1> HIDE DEF n, R2
<1>5. /\ v \in SocketsOf(R2) /\ v.tag = n /\ v.tsn = n /\ v.id = w.id /\ v.draws = w.draws
      /\ v.tcb = w.tcb /\ v.t1_cookie = w.t1_cookie /\ v.t2_shutdown = w.t2_shutdown
  BY <1>2, <1>3 DEF SocketsOf
<1> HIDE DEF v
<1>6. q \in PacketsOf(R2)
  <2> DEFINE info == [tag |-> n, tsn |-> n]
  <2>1. info \in Inits /\ info.tag = n /\ info.tsn = n
    BY <1>2 DEF Inits
  <2> HIDE DEF info
  <2>2. info \in Infos /\ "INIT" \in ChunkTypes /\ NoData \in Datas /\ 0 \in Int
    BY <2>1 DEF Infos, ChunkTypes, Datas
  <2>3. <<n, n>> \in R2
    BY DEF R2
  <2>4. Packet(v, 0, "INIT", info, NoData) \in PacketsOf(R2)
    BY <1>5, <2>1, <2>2, <2>3, PacketOf
  <2>5. QED
    BY <2>4 DEF info
<1> HIDE DEF q
<1>7. s \in SocketsOf(R2) /\ Frame(v, s) /\ s.tcb = v.tcb
  BY <1>5, <1>6, SendOf
<1> HIDE DEF s
<1>8. /\ Drawn(c) \in SocketsOf(R2) /\ Drawn(c).id = s.id /\ Drawn(c).draws = s.draws + 1
      /\ Drawn(c).tcb = s.tcb /\ Drawn(c).tag = s.tag /\ Drawn(c).tsn = s.tsn
      /\ Drawn(c).t1_init = 1 /\ Drawn(c).t1_cookie = s.t1_cookie
      /\ Drawn(c).t2_shutdown = s.t2_shutdown /\ Drawn(c).state = "CookieWait"
  <2>1. /\ c \in SocketsOf(R2) /\ c.id = s.id /\ c.draws = s.draws /\ c.tcb = s.tcb
        /\ c.tag = s.tag /\ c.tsn = s.tsn /\ c.t1_init = 1 /\ c.t1_cookie = s.t1_cookie
        /\ c.t2_shutdown = s.t2_shutdown /\ c.state = "CookieWait"
    BY <1>7 DEF SocketsOf, Started, States
  <2> HIDE DEF c
  <2>2. QED
    BY <2>1, DrawnOf
<1>9. DoConnect(w) = Drawn(c)
  BY <1>5 DEF DoConnect, SendInit, s, q, v, n
<1> DEFINE d == DoConnect(w)
<1>10. /\ d \in SocketsOf(R2) /\ d.id = w.id /\ d.draws = w.draws + 1 /\ d.tcb = NoTcb
       /\ d.tag = n /\ d.tsn = n /\ d.t1_init = 1 /\ d.t1_cookie = 0 /\ d.t2_shutdown = 0
       /\ d.state = "CookieWait"
  BY <1>4, <1>5, <1>7, <1>8, <1>9 DEF Frame, HasTcb
<1> HIDE DEF d
<1>11. TimersOK(d)
  BY <1>10 DEF TimersOK, HasTcb, Running, Stopped
<1>12. Good(d, R2)
  BY <1>10, <1>11 DEF Good, R2
<1>13. After(w, d, R \cup {<<Draw(w), n>>}) /\ d.draws > w.draws
  BY <1>1, <1>10, <1>12 DEF After, R2, n
<1>14. QED
  BY <1>2, <1>13 DEF Outcome, d

\* Shutdown() stops the T1 timers of a socket it does not close.
LEMMA DoShutdownOf ==
  ASSUME NEW R, NEW w, Good(w, R)
  PROVE  After(w, DoShutdown(w), R)
<1>1. w \in SocketsOf(R) /\ TimersOK(w) /\ w.draws \in Nat /\ After(w, w, R)
  BY GoodFacts
<1>2. CASE ~HasTcb(w)
  BY <1>1, <1>2, InternalCloseOf DEF DoShutdown
<1>3. CASE HasTcb(w) /\ w.state \in {"ShutdownSent", "ShutdownAckSent"}
  BY <1>1, <1>3 DEF DoShutdown
<1>4. CASE HasTcb(w) /\ w.state \notin {"ShutdownSent", "ShutdownAckSent"}
  <2> DEFINE v == [w EXCEPT !.state = "ShutdownPending", !.t1_init = Stopped,
                            !.t1_cookie = Stopped]
  <2>1. /\ v \in SocketsOf(R) /\ v.id = w.id /\ v.draws = w.draws /\ v.tcb = w.tcb
        /\ v.state = "ShutdownPending" /\ v.t1_init = 0 /\ v.t1_cookie = 0
        /\ v.t2_shutdown = w.t2_shutdown
    BY <1>1 DEF SocketsOf, Stopped, States
  <2>2. w.t2_shutdown \in Nat
    BY <1>1, FieldsOf
  <2>3. DoShutdown(w) = MaybeSendShutdownOrAck(v)
    BY <1>4 DEF DoShutdown
  <2> HIDE DEF v
  <2>4. HasTcb(v)
    BY <1>4, <2>1 DEF HasTcb
  <2>5. "ShutdownPending" \in Shutdowns \cup {"Established"}
    BY DEF Shutdowns
  <2>6. v.draws \in Nat /\ v.draws >= w.draws
    BY <1>1, <2>1
  <2>7. After(w, v, R)
    BY <1>1, <1>4, <2>1, <2>2, <2>4, <2>5, <2>6, EnterOf
  <2>8. After(v, MaybeSendShutdownOrAck(v), R)
    BY <2>4, <2>7, MaybeSendShutdownOrAckOf DEF After
  <2>9. QED
    BY <1>1, <2>3, <2>7, <2>8, AfterTrans
<1>5. QED
  BY <1>2, <1>3, <1>4

\* Close() aborts the association, if there is one.
LEMMA DoCloseOf ==
  ASSUME NEW R, NEW w, Good(w, R)
  PROVE  After(w, DoClose(w), R)
<1>1. w \in SocketsOf(R) /\ w.draws \in Nat
  BY GoodFacts
<1> DEFINE a == IF HasTcb(w) THEN SendChunk(w, "ABORT", NoInfo) ELSE w
<1>2. a \in SocketsOf(R) /\ a.id = w.id /\ a.draws = w.draws
  BY <1>1, SendChunkOf, PlainChunks DEF Frame
<1> HIDE DEF a
<1>3. After(a, InternalClose(a), R)
  BY <1>2, InternalCloseOf
<1>4. After(w, InternalClose(a), R)
  BY <1>1, <1>2, <1>3 DEF After
<1>5. QED
  BY <1>4 DEF DoClose, a

\* Send() queues the message and sends what it may.
LEMMA DoSendOf ==
  ASSUME NEW R, NEW w, Good(w, R), NEW msg \in Nat
  PROVE  After(w, DoSend(w, msg), R)
<1> DEFINE w1 == [w EXCEPT !.queue = msg]
<1>1. w \in SocketsOf(R) /\ w.draws \in Nat
  BY GoodFacts
<1>2. msg \in Msgs
  BY DEF Msgs
<1>3. w1 \in SocketsOf(R) /\ Frame(w, w1)
  <2>1. /\ w1 \in SocketsOf(R) /\ w1.id = w.id /\ w1.draws = w.draws /\ w1.state = w.state
        /\ w1.t1_init = w.t1_init /\ w1.t1_cookie = w.t1_cookie
        /\ w1.t2_shutdown = w.t2_shutdown
        /\ w1.tag = w.tag /\ w1.tsn = w.tsn /\ w1.tcb = w.tcb
    BY <1>1, <1>2 DEF SocketsOf
  <2> HIDE DEF w1
  <2>2. QED
    BY <2>1 DEF Frame, HasTcb
<1>4. DoSend(w, msg) = IF HasTcb(w) THEN SendBufferedPackets(w1, NoInfo) ELSE w1
  BY DEF DoSend
<1> HIDE DEF w1
<1>5. CASE HasTcb(w)
  <2>1. HasTcb(w1)
    BY <1>3, <1>5 DEF Frame
  <2>2. /\ SendBufferedPackets(w1, NoInfo) \in SocketsOf(R)
        /\ Frame(w1, SendBufferedPackets(w1, NoInfo))
    BY <1>3, <2>1, SendBufferedPacketsOf
  <2>3. QED
    BY <1>3, <1>4, <1>5, <2>2, FrameTrans, FrameGood
<1>6. CASE ~HasTcb(w)
  BY <1>3, <1>4, <1>6, FrameGood
<1>7. QED
  BY <1>5, <1>6

\* A new socket, as it is made and after a restart.
LEMMA NewSocketOf ==
  ASSUME NEW R, NEW p \in Peers, NEW draws \in Nat, NEW acked \in SUBSET Msgs
  PROVE  LET w == [NewSocket(p, draws) EXCEPT !.acked = acked]
         IN Good(w, R) /\ w.id = p /\ w.draws = draws /\ w.out = {}
<1> DEFINE w == [NewSocket(p, draws) EXCEPT !.acked = acked]
<1>1. NoMsg \in Msgs
  BY DEF Msgs
<1>2. /\ w \in SocketsOf(R) /\ w.state = "Closed" /\ w.tcb = NoTcb
      /\ w.t1_init = 0 /\ w.t1_cookie = 0 /\ w.t2_shutdown = 0
      /\ w.id = p /\ w.draws = draws /\ w.out = {}
  BY <1>1 DEF NewSocket, SocketsOf, States, Stopped
<1> HIDE DEF w
<1>3. TimersOK(w)
  BY <1>2 DEF TimersOK, HasTcb, Running, Stopped
<1>4. Good(w, R) /\ w.id = p /\ w.draws = draws /\ w.out = {}
  BY <1>2, <1>3 DEF Good
<1>5. QED
  BY <1>4 DEF w

\* A socket made from a handover state has the TCB of the old one and no timer.
LEMMA DoHandoverOf ==
  ASSUME NEW R, NEW w, Good(w, R), w.state = "Established"
  PROVE  After(w, DoHandover(w), R)
<1>1. w \in SocketsOf(R) /\ TimersOK(w) /\ w.draws \in Nat /\ HasTcb(w)
  BY GoodFacts
<1> DEFINE t == [w.tcb EXCEPT !.errors = 0, !.heartbeat = FALSE]
           d == DoHandover(w)
<1>2. w.tcb \in TcbsOf(R) /\ w.tcb \in Tcbs /\ w.tcb.my_tag \in Int
  BY <1>1, TcbOf
<1>3. t \in TcbsOf(R)
  BY <1>2 DEF TcbsOf, Tcbs
<1>4. t /= NoTcb
  BY <1>3, TcbUpdates
<1>5. w.id \in Peers /\ w.acked \subseteq Msgs
  BY <1>1, FieldsOf
<1>6. d = [NewSocket(w.id, w.draws) EXCEPT !.state = "Established", !.tag = w.tcb.my_tag,
                                           !.acked = w.acked, !.tcb = t]
  BY DEF DoHandover
<1> HIDE DEF t, d
<1>7. NoMsg \in Msgs
  BY DEF Msgs
<1>8. /\ d \in SocketsOf(R) /\ d.state = "Established" /\ d.tcb = t
      /\ d.t1_init = 0 /\ d.t1_cookie = 0 /\ d.t2_shutdown = 0
      /\ d.id = w.id /\ d.draws = w.draws
  <2> DEFINE new == NewSocket(w.id, w.draws)
  <2>1. /\ new \in SocketsOf(R) /\ new.id = w.id /\ new.draws = w.draws
        /\ new.t1_init = 0 /\ new.t1_cookie = 0 /\ new.t2_shutdown = 0
    BY <1>1, <1>5, <1>7 DEF NewSocket, SocketsOf, States, Stopped
  <2> HIDE DEF new
  <2>2. "Established" \in States
    BY DEF States
  <2>3. QED
    BY <1>2, <1>3, <1>5, <1>6, <2>1, <2>2 DEF new, SocketsOf
<1>9. After(w, d, R)
  BY <1>1, <1>4, <1>8, EnterOf DEF HasTcb
<1>10. QED
  BY <1>9 DEF d

----
(***************************************************************************)
(* Chunk handlers                                                          *)
(***************************************************************************)
\* A socket that stays the same and sends a packet.
LEMMA AnswerOf ==
  ASSUME NEW R, NEW w, Good(w, R), NEW q \in PacketsOf(R)
  PROVE  After(w, Send(w, q), R)
  BY GoodFacts, SendOf, FrameGood

\* HandleInit answers with the tag and TSN of its own INIT, or with a new tag.
LEMMA HandleInitOf ==
  ASSUME NEW R, NEW w, Good(w, R), NEW packet \in PacketsOf(R), packet.type = "INIT"
  PROVE  Outcome(w, HandleInit(w, packet), R)
<1> DEFINE drawn == w.state \notin {"CookieWait", "CookieEchoed"}
           my_tag == IF drawn THEN Draw(w) ELSE w.tag
           my_tsn == IF ~drawn THEN w.tsn
                     ELSE IF w.state = "Closed" THEN Draw(w) ELSE w.tcb.next_tsn + TsnJump
           tie == IF drawn /\ w.state /= "Closed" THEN w.tcb.tie ELSE 0
           cookie == [my_tag |-> my_tag, my_tsn |-> my_tsn, peer_tag |-> packet.info.tag,
                      peer_tsn |-> packet.info.tsn, tie |-> tie]
           v == IF drawn THEN Drawn(w) ELSE w
           R2 == IF drawn THEN R \cup {<<Draw(w), my_tsn>>} ELSE R
           q == Packet(w, packet.info.tag, "INIT_ACK", cookie, NoData)
<1>1. /\ w \in SocketsOf(R) /\ TimersOK(w) /\ w.draws \in Nat
      /\ HasTcb(w) <=> w.state \notin {"Closed", "CookieWait"}
  BY GoodFacts
<1>2. CASE w.state = "ShutdownAckSent"
  <2>1. HasTcb(w)
    BY <1>1, <1>2
  <2>2. HandleInit(w, packet) = SendShutdownAck(w)
    BY <1>2 DEF HandleInit
  <2>3. SendShutdownAck(w) \in SocketsOf(R) /\ Moved(w, SendShutdownAck(w), w.state, 1)
    BY <1>1, <2>1, ShutdownSentOf
  <2>4. w.t1_init = 0 /\ w.t1_cookie = 0 /\ w.state \in Shutdowns
    BY <1>1, <1>2, LaterTimers DEF Shutdowns
  <2>5. HasTcb(SendShutdownAck(w))
    BY <2>1, <2>3 DEF Moved, HasTcb
  <2>6. After(w, SendShutdownAck(w), R)
    BY <1>1, <2>1, <2>3, <2>4, <2>5, EnterOf DEF Moved
  <2>7. QED
    BY <2>2, <2>6 DEF Outcome
<1>3. CASE w.state /= "ShutdownAckSent"
  <2>1. packet.info \in Inits /\ <<packet.info.tag, packet.info.tsn>> \in R
    BY DEF PacketsOf
  <2>2. packet.info.tag \in Int /\ packet.info.tsn \in Int
    BY <2>1 DEF Inits
  <2>3. w.tag \in Int /\ w.tsn \in Int /\ Draw(w) \in Int
    BY <1>1, FieldsOf
  <2>4. HasTcb(w) => w.tcb.tie \in Int /\ w.tcb.next_tsn \in Int
    BY <1>1, TcbOf
  <2>5. w.tcb.next_tsn \in Int => w.tcb.next_tsn + TsnJump \in Int
    BY SocketAssumption
  <2>6. my_tag \in Int /\ my_tsn \in Int /\ tie \in Int
    BY <1>1, <2>3, <2>4, <2>5
  <2>7. <<my_tag, my_tsn>> \in R2 /\ R \subseteq R2
    <3>1. ~drawn => <<w.tag, w.tsn>> \in R
      BY DEF Good
    <3>2. QED
      BY <3>1
  <2>8. HandleInit(w, packet) = Send(v, q)
    BY <1>3 DEF HandleInit
  <2>9. drawn => R2 = R \cup {<<Draw(w), my_tsn>>} /\ v = Drawn(w)
    OBVIOUS
  <2>10. ~drawn => R2 = R /\ v = w
    OBVIOUS
  <2> HIDE DEF my_tag, my_tsn, tie, R2, v, drawn
  <2>11. cookie \in CookiesOf(R2)
    <3>1. /\ cookie \in Cookies /\ cookie.my_tag = my_tag /\ cookie.my_tsn = my_tsn
          /\ cookie.peer_tag = packet.info.tag /\ cookie.peer_tsn = packet.info.tsn
      BY <2>2, <2>6 DEF Cookies
    <3> HIDE DEF cookie
    <3>2. QED
      BY <2>1, <2>7, <3>1 DEF CookiesOf
  <2> HIDE DEF cookie
  <2>12. w \in SocketsOf(R2) /\ Good(w, R2)
    BY <1>1, <2>7, Larger
  <2>13. cookie \in Infos /\ "INIT_ACK" \in ChunkTypes /\ NoData \in Datas
    BY <2>11 DEF CookiesOf, Infos, ChunkTypes, Datas
  <2>14. q \in PacketsOf(R2)
    BY <2>2, <2>11, <2>12, <2>13, PacketOf
  <2> HIDE DEF q
  <2>15. CASE drawn
    <3>1. /\ v \in SocketsOf(R2) /\ v.draws = w.draws + 1
          /\ v.id = w.id /\ v.state = w.state /\ v.tcb = w.tcb
          /\ v.tag = w.tag /\ v.tsn = w.tsn
          /\ v.t1_init = w.t1_init /\ v.t1_cookie = w.t1_cookie
          /\ v.t2_shutdown = w.t2_shutdown
      BY <2>9, <2>12, <2>15, DrawnOf
    <3>2. TimersOK(v)
      BY <1>1, <3>1 DEF TimersOK, HasTcb
    <3>3. Good(v, R2)
      BY <2>12, <3>1, <3>2 DEF Good
    <3>4. After(v, Send(v, q), R2)
      BY <2>14, <3>3, AnswerOf
    <3>5. After(w, Send(v, q), R2) /\ Send(v, q).draws > w.draws
      BY <1>1, <3>1, <3>4 DEF After
    <3>6. QED
      BY <2>6, <2>8, <2>9, <2>15, <3>5 DEF Outcome
  <2>16. CASE ~drawn
    <3>1. After(w, Send(w, q), R)
      BY <2>10, <2>14, <2>16, AnswerOf
    <3>2. QED
      BY <2>8, <2>10, <2>16, <3>1 DEF Outcome
  <2>17. QED
    BY <2>15, <2>16
<1>4. QED
  BY <1>2, <1>3

\* SendBufferedPackets leaves a good socket good.
LEMMA BufferedAfter ==
  ASSUME NEW R, NEW w, Good(w, R), HasTcb(w), NEW first \in {NoInfo, "COOKIE_ACK"}
  PROVE  After(w, SendBufferedPackets(w, first), R)
  BY GoodFacts, SendBufferedPacketsOf, FrameGood

\* A new TCB, from two entries of the register.
LEMMA CreateTcbOf ==
  ASSUME NEW R, R \subseteq Int \X Int, NEW a, NEW b, NEW c, NEW d, <<a, b>> \in R,
         <<c, d>> \in R, NEW tie \in Int
  PROVE  CreateTcb(a, b, c, d, tie) \in TcbsOf(R)
<1> DEFINE t == CreateTcb(a, b, c, d, tie)
<1>1. a \in Int /\ b \in Int /\ c \in Int /\ d \in Int
  OBVIOUS
<1>2. NoMsg \in Msgs
  BY DEF Msgs
<1>3. /\ t \in Tcbs /\ t.my_tag = a /\ t.my_tsn = b /\ t.peer_tag = c /\ t.peer_tsn = d
      /\ t.cookie = NoCookie
  BY <1>1, <1>2 DEF CreateTcb, Tcbs
<1> HIDE DEF t
<1>4. t \in TcbsOf(R)
  BY <1>3 DEF TcbsOf
<1>5. QED
  BY <1>4 DEF t

\* HandleInitAck makes the TCB from its own INIT and the peer's answer.
LEMMA HandleInitAckOf ==
  ASSUME NEW R, R \subseteq Int \X Int, NEW w, Good(w, R),
         NEW packet \in PacketsOf(R), packet.type = "INIT_ACK"
  PROVE  After(w, HandleInitAck(w, packet), R)
<1>1. w \in SocketsOf(R) /\ TimersOK(w) /\ w.draws \in Nat /\ After(w, w, R)
  BY GoodFacts
<1>2. CASE w.state = "CookieWait"
  <2> DEFINE tcb == CreateTcb(w.tag, w.tsn, packet.info.my_tag, packet.info.my_tsn, Draw(w))
             t == [tcb EXCEPT !.cookie = packet.info]
             v == Drawn(w)
             w1 == [v EXCEPT !.t1_init = Stopped, !.state = "CookieEchoed",
                             !.t1_cookie = Started, !.tcb = t]
  <2>1. packet.info \in CookiesOf(R)
    BY DEF PacketsOf
  <2>2. <<packet.info.my_tag, packet.info.my_tsn>> \in R /\ packet.info /= NoCookie
    BY <2>1, NoneAssumption DEF CookiesOf
  <2>3. <<w.tag, w.tsn>> \in R /\ w.t2_shutdown = 0
    BY <1>1, <1>2 DEF Good, TimersOK, Running, Stopped
  <2>4. tcb \in TcbsOf(R)
    BY <1>1, <2>2, <2>3, FieldsOf, CreateTcbOf
  <2>5. HandleInitAck(w, packet) = SendBufferedPackets(w1, NoInfo)
    BY <1>2 DEF HandleInitAck
  <2>6. /\ v \in SocketsOf(R) /\ v.draws = w.draws + 1 /\ v.id = w.id
        /\ v.tag = w.tag /\ v.tsn = w.tsn /\ v.t2_shutdown = w.t2_shutdown
    BY <1>1, DrawnOf
  <2> HIDE DEF tcb, v
  <2>7. t \in TcbsOf(R) /\ t /= NoTcb
    BY <2>1, <2>4, TcbUpdates
  <2>8. t.cookie = packet.info
    BY <2>4 DEF TcbsOf, Tcbs
  <2> HIDE DEF t
  <2>9. /\ w1 \in SocketsOf(R) /\ w1.draws = v.draws /\ w1.id = v.id /\ w1.tag = v.tag
        /\ w1.tsn = v.tsn /\ w1.t2_shutdown = v.t2_shutdown /\ w1.t1_init = 0
        /\ w1.t1_cookie = 1 /\ w1.state = "CookieEchoed" /\ w1.tcb = t
    BY <2>6, <2>7 DEF SocketsOf, States, Stopped, Started
  <2> HIDE DEF w1
  <2>10. HasTcb(w1)
    BY <2>7, <2>9 DEF HasTcb
  <2>11. TimersOK(w1)
    BY <2>2, <2>3, <2>6, <2>8, <2>9, <2>10 DEF TimersOK, Running, Stopped
  <2>12. After(w, w1, R)
    BY <1>1, <2>3, <2>6, <2>9, <2>11 DEF After, Good
  <2>13. After(w1, SendBufferedPackets(w1, NoInfo), R)
    BY <2>10, <2>12, BufferedAfter DEF After
  <2>14. QED
    BY <1>1, <2>5, <2>12, <2>13, AfterTrans
<1>3. CASE w.state /= "CookieWait"
  BY <1>1, <1>3 DEF HandleInitAck
<1>4. QED
  BY <1>2, <1>3

\* An accepted cookie establishes the association, with a new TCB or the one there was.
LEMMA AcceptCookieOf ==
  ASSUME NEW R, R \subseteq Int \X Int, NEW w, Good(w, R), NEW cookie \in CookiesOf(R),
         NEW keep \in BOOLEAN, keep => HasTcb(w)
  PROVE  After(w, AcceptCookie(w, cookie, keep), R)
<1> DEFINE tcb == IF ~keep
                  THEN CreateTcb(cookie.my_tag, cookie.my_tsn, cookie.peer_tag,
                                 cookie.peer_tsn, Draw(w))
                  ELSE IF w.state /= "Established" THEN [w.tcb EXCEPT !.cookie = NoCookie]
                  ELSE w.tcb
           v == IF keep THEN w ELSE Drawn(w)
           w1 == [v EXCEPT !.t1_init = Stopped, !.t1_cookie = Stopped,
                           !.state = "Established", !.tcb = tcb]
<1>1. w \in SocketsOf(R) /\ TimersOK(w) /\ w.draws \in Nat
  BY GoodFacts
<1>2. AcceptCookie(w, cookie, keep) = SendBufferedPackets(w1, "COOKIE_ACK")
  BY DEF AcceptCookie
<1>3. tcb \in TcbsOf(R)
  <2>1. CASE ~keep
    BY <1>1, <2>1, FieldsOf, CreateTcbOf DEF CookiesOf
  <2>2. CASE keep
    BY <1>1, <2>2, TcbOf, TcbUpdates
  <2>3. QED
    BY <2>1, <2>2
<1>4. tcb /= NoTcb
  BY <1>3, TcbUpdates
<1>5. v \in SocketsOf(R) /\ v.id = w.id /\ v.draws \in Nat /\ v.draws >= w.draws
  BY <1>1, DrawnOf
<1> HIDE DEF tcb, v
<1>6. /\ w1 \in SocketsOf(R) /\ w1.id = v.id /\ w1.draws = v.draws /\ w1.tcb = tcb
      /\ w1.state = "Established" /\ w1.t1_init = 0 /\ w1.t1_cookie = 0
      /\ w1.t2_shutdown = v.t2_shutdown
  BY <1>3, <1>5 DEF SocketsOf, States, Stopped
<1> HIDE DEF w1
<1>7. HasTcb(w1)
  BY <1>4, <1>6 DEF HasTcb
<1>8. TimersOK(w1)
  BY <1>6, <1>7 DEF TimersOK, Running, Stopped
<1>9. After(w, w1, R)
  BY <1>5, <1>6, <1>8 DEF After, Good
<1>10. After(w1, SendBufferedPackets(w1, "COOKIE_ACK"), R)
  BY <1>7, <1>9, BufferedAfter DEF After
<1>11. QED
  BY <1>1, <1>2, <1>9, <1>10, AfterTrans

\* HandleCookieEcho accepts the cookie, or keeps what it has.
LEMMA HandleCookieEchoOf ==
  ASSUME NEW R, R \subseteq Int \X Int, NEW w, Good(w, R),
         NEW packet \in PacketsOf(R), packet.type = "COOKIE_ECHO"
  PROVE  After(w, HandleCookieEcho(w, packet), R)
<1> DEFINE cookie == packet.info
           mine == packet.tag = w.tcb.my_tag
           peers == w.tcb.peer_tag = cookie.peer_tag
           restarted == ~mine /\ ~peers /\ cookie.tie = w.tcb.tie
           simultaneous == mine /\ ~peers
           late == ~mine /\ peers /\ cookie.tie = 0
           q == Packet(w, cookie.peer_tag, "SHUTDOWN_ACK", NoInfo, NoData)
<1>1. w \in SocketsOf(R) /\ After(w, w, R)
  BY GoodFacts
<1>2. cookie \in CookiesOf(R)
  BY DEF PacketsOf
<1>3. \A keep \in BOOLEAN : (keep => HasTcb(w)) => After(w, AcceptCookie(w, cookie, keep), R)
  BY <1>2, AcceptCookieOf
<1>4. After(w, Send(w, q), R)
  <2>1. cookie.peer_tag \in Int /\ NoData \in Datas
    BY <1>2 DEF CookiesOf, Datas
  <2>2. Plain("SHUTDOWN_ACK", NoInfo)
    BY PlainChunks
  <2>3. q \in PacketsOf(R)
    BY <1>1, <2>1, <2>2, PacketOf DEF Plain
  <2>4. QED
    BY <2>3, AnswerOf
<1>5. CASE ~HasTcb(w)
  BY <1>1, <1>3, <1>5 DEF HandleCookieEcho
<1>6. CASE HasTcb(w)
  <2>1. HandleCookieEcho(w, packet) =
          IF restarted /\ w.state = "ShutdownAckSent" THEN Send(w, q)
          ELSE IF late THEN w
          ELSE AcceptCookie(w, cookie, ~(restarted \/ simultaneous))
    BY <1>6 DEF HandleCookieEcho, HandleCookieEchoWithTCB
  <2>2. After(w, AcceptCookie(w, cookie, ~(restarted \/ simultaneous)), R)
    BY <1>3, <1>6
  <2> HIDE DEF restarted, late, simultaneous, cookie, q
  <2>3. QED
    BY <1>1, <1>4, <2>1, <2>2
<1>7. QED
  BY <1>5, <1>6

\* HandleCookieAck stops T1-cookie and drops the COOKIE ECHO with it.
LEMMA HandleCookieAckOf ==
  ASSUME NEW R, NEW w, Good(w, R), NEW packet
  PROVE  After(w, HandleCookieAck(w, packet), R)
<1>1. w \in SocketsOf(R) /\ TimersOK(w) /\ w.draws \in Nat /\ After(w, w, R)
  BY GoodFacts
<1>2. CASE w.state = "CookieEchoed"
  <2> DEFINE t == [w.tcb EXCEPT !.cookie = NoCookie]
             w1 == [w EXCEPT !.t1_cookie = Stopped, !.tcb = t, !.state = "Established"]
  <2>1. HasTcb(w) /\ w.t1_init = 0
    BY <1>1, <1>2 DEF TimersOK, Running, Stopped
  <2>2. t \in TcbsOf(R) /\ t /= NoTcb
    BY <1>1, <2>1, TcbOf, TcbUpdates
  <2>3. HandleCookieAck(w, packet) = SendBufferedPackets(w1, NoInfo)
    BY <1>1, <1>2 DEF HandleCookieAck, SocketsOf
  <2> HIDE DEF t
  <2>4. /\ w1 \in SocketsOf(R) /\ w1.id = w.id /\ w1.draws = w.draws /\ w1.tcb = t
        /\ w1.state = "Established" /\ w1.t1_init = w.t1_init /\ w1.t1_cookie = 0
    BY <1>1, <2>2 DEF SocketsOf, States, Stopped
  <2> HIDE DEF w1
  <2>5. HasTcb(w1)
    BY <2>2, <2>4 DEF HasTcb
  <2>6. TimersOK(w1)
    BY <2>1, <2>4, <2>5 DEF TimersOK, Running, Stopped
  <2>7. After(w, w1, R)
    BY <1>1, <2>4, <2>6 DEF After, Good
  <2>8. After(w1, SendBufferedPackets(w1, NoInfo), R)
    BY <2>5, <2>7, BufferedAfter DEF After
  <2>9. QED
    BY <1>1, <2>3, <2>7, <2>8, AfterTrans
<1>3. CASE w.state /= "CookieEchoed"
  BY <1>1, <1>3 DEF HandleCookieAck
<1>4. QED
  BY <1>2, <1>3

\* HandleSack may end the wait of a shutdown for data in flight.
LEMMA HandleSackOf ==
  ASSUME NEW R, NEW w, Good(w, R), NEW packet
  PROVE  After(w, HandleSack(w, packet), R)
<1> DEFINE cum_ack == packet.info.cum_tsn
           last == IF w.tcb.flight = NoMsg THEN w.tcb.next_tsn - 1 ELSE w.tcb.next_tsn - 2
           t == [w.tcb EXCEPT !.flight = NoMsg, !.errors = 0]
           a == [w EXCEPT !.acked = @ \cup {w.tcb.flight}, !.tcb = t]
           w1 == IF cum_ack > last THEN a ELSE w
<1>1. w \in SocketsOf(R) /\ w.draws \in Nat /\ After(w, w, R)
  BY GoodFacts
<1>2. CASE ~HasTcb(w) \/ cum_ack < last \/ cum_ack >= w.tcb.next_tsn
  BY <1>1, <1>2 DEF HandleSack
<1>3. CASE ~(~HasTcb(w) \/ cum_ack < last \/ cum_ack >= w.tcb.next_tsn)
  <2>1. HasTcb(w)
    BY <1>3
  <2>2. w.tcb \in TcbsOf(R) /\ w.tcb \in Tcbs /\ w.tcb.flight \in Msgs /\ NoMsg \in Msgs
    BY <1>1, <2>1, TcbOf DEF Msgs
  <2>3. t \in TcbsOf(R) /\ t /= NoTcb
    BY <2>2, TcbUpdates
  <2>4. t.cookie = w.tcb.cookie
    BY <2>2 DEF Tcbs
  <2>5. HandleSack(w, packet) = SendBufferedPackets(MaybeSendShutdownOrAck(w1), NoInfo)
    BY <1>1, <1>3, <2>2 DEF HandleSack, SocketsOf, Tcbs
  <2> HIDE DEF t
  <2>6. a \in SocketsOf(R) /\ Frame(w, a) /\ HasTcb(a)
    <3>1. w.acked \cup {w.tcb.flight} \in SUBSET Msgs
      BY <1>1, <2>2, FieldsOf
    <3>2. /\ a \in SocketsOf(R) /\ a.id = w.id /\ a.draws = w.draws /\ a.state = w.state
          /\ a.t1_init = w.t1_init /\ a.t1_cookie = w.t1_cookie
          /\ a.t2_shutdown = w.t2_shutdown
          /\ a.tag = w.tag /\ a.tsn = w.tsn /\ a.tcb = t
      BY <1>1, <2>3, <3>1 DEF SocketsOf
    <3> HIDE DEF a
    <3>3. QED
      BY <2>1, <2>3, <2>4, <3>2 DEF Frame, HasTcb
  <2> HIDE DEF a, last, cum_ack
  <2>7. After(w, w1, R) /\ HasTcb(w1)
    BY <1>1, <2>1, <2>6, FrameGood
  <2> HIDE DEF w1
  <2> DEFINE m == MaybeSendShutdownOrAck(w1)
  <2>8. After(w1, m, R) /\ HasTcb(m)
    BY <2>7, MaybeSendShutdownOrAckOf DEF After
  <2> HIDE DEF m
  <2>9. After(m, SendBufferedPackets(m, NoInfo), R)
    BY <2>8, BufferedAfter DEF After
  <2>10. After(w, m, R)
    BY <1>1, <2>7, <2>8, AfterTrans
  <2>11. QED
    BY <1>1, <2>5, <2>9, <2>10, AfterTrans DEF m
<1>4. QED
  BY <1>2, <1>3

\* Heartbeats are answered, and their answers clear the errors.
LEMMA HandleHeartbeatOf ==
  ASSUME NEW R, NEW w, Good(w, R), NEW packet
  PROVE  /\ After(w, HandleHeartbeatRequest(w, packet), R)
         /\ After(w, HandleHeartbeatAck(w, packet), R)
<1>1. w \in SocketsOf(R) /\ w.draws \in Nat /\ After(w, w, R)
  BY GoodFacts
<1>2. CASE ~HasTcb(w)
  BY <1>1, <1>2 DEF HandleHeartbeatRequest, HandleHeartbeatAck
<1>3. CASE HasTcb(w)
  <2>1. After(w, HandleHeartbeatRequest(w, packet), R)
    BY <1>1, <1>3, SendChunkOf, PlainChunks, FrameGood DEF HandleHeartbeatRequest
  <2> DEFINE t == [w.tcb EXCEPT !.heartbeat = FALSE, !.errors = 0]
  <2>2. w.tcb \in TcbsOf(R) /\ w.tcb \in Tcbs /\ NoMsg \in Msgs
    BY <1>1, <1>3, TcbOf DEF Msgs
  <2>3. t \in TcbsOf(R)
    BY <2>2, TcbUpdates
  <2>4. t.cookie = w.tcb.cookie
    BY <2>2 DEF Tcbs
  <2>5. HandleHeartbeatAck(w, packet) = [w EXCEPT !.tcb = t]
    BY <1>1, <1>3, <2>2 DEF HandleHeartbeatAck, SocketsOf, Tcbs
  <2> HIDE DEF t
  <2>6. [w EXCEPT !.tcb = t] \in SocketsOf(R) /\ Frame(w, [w EXCEPT !.tcb = t])
    BY <1>1, <1>3, <2>2, <2>3, <2>4, WithTcb
  <2>7. QED
    BY <2>1, <2>5, <2>6, FrameGood
<1>4. QED
  BY <1>2, <1>3

\* ABORT and SHUTDOWN COMPLETE close the socket or are ignored.
LEMMA HandleAbortOf ==
  ASSUME NEW R, NEW w, Good(w, R), NEW packet
  PROVE  /\ After(w, HandleAbort(w, packet), R)
         /\ After(w, HandleShutdownComplete(w, packet), R)
  BY GoodFacts, InternalCloseOf DEF HandleAbort, HandleShutdownComplete

\* HandleShutdown moves on to an acknowledged shutdown.
LEMMA HandleShutdownOf ==
  ASSUME NEW R, NEW w, Good(w, R), NEW packet
  PROVE  After(w, HandleShutdown(w, packet), R)
<1>1. /\ w \in SocketsOf(R) /\ TimersOK(w) /\ w.draws \in Nat /\ After(w, w, R)
      /\ HasTcb(w) <=> w.state \notin {"Closed", "CookieWait"}
  BY GoodFacts
<1>2. w.state \in States /\ w.t2_shutdown \in Nat
  BY <1>1, FieldsOf
<1>3. CASE w.state \in {"Closed", "CookieWait", "CookieEchoed", "ShutdownAckSent",
                        "ShutdownReceived"}
  BY <1>1, <1>3 DEF HandleShutdown
<1>4. CASE w.state \in {"Established", "ShutdownPending", "ShutdownSent"}
  <2>1. HasTcb(w) /\ w.t1_init = 0 /\ w.t1_cookie = 0
    BY <1>1, <1>4, LaterTimers DEF Shutdowns
  <2>2. CASE w.state = "ShutdownSent"
    <3> DEFINE w1 == [SendShutdownAck(w) EXCEPT !.state = "ShutdownAckSent"]
    <3>1. HandleShutdown(w, packet) = w1
      BY <2>2 DEF HandleShutdown
    <3>2. "ShutdownAckSent" \in States /\ "ShutdownAckSent" \in Shutdowns
      BY DEF States, Shutdowns
    <3>3. w1 \in SocketsOf(R) /\ Moved(w, w1, "ShutdownAckSent", 1)
      BY <1>1, <2>1, <3>2, ShutdownSentOf
    <3> HIDE DEF w1
    <3>4. /\ w1.id = w.id /\ w1.draws \in Nat /\ w1.draws >= w.draws /\ HasTcb(w1)
          /\ w1.state = "ShutdownAckSent" /\ w1.t1_init = 0 /\ w1.t1_cookie = 0
          /\ w1.t2_shutdown = 1
      BY <1>1, <2>1, <3>3 DEF Moved, HasTcb
    <3>5. After(w, w1, R)
      BY <1>1, <2>1, <3>2, <3>3, <3>4, EnterOf
    <3>6. QED
      BY <3>1, <3>5
  <2>3. CASE w.state \in {"Established", "ShutdownPending"}
    <3> DEFINE v == [w EXCEPT !.state = "ShutdownReceived"]
    <3>1. HandleShutdown(w, packet) = MaybeSendShutdownOrAck(v)
      BY <2>3 DEF HandleShutdown
    <3>2. /\ v \in SocketsOf(R) /\ v.id = w.id /\ v.draws = w.draws /\ v.tcb = w.tcb
          /\ v.state = "ShutdownReceived" /\ v.t1_init = w.t1_init
          /\ v.t1_cookie = w.t1_cookie /\ v.t2_shutdown = w.t2_shutdown
      BY <1>1 DEF SocketsOf, States
    <3> HIDE DEF v
    <3>3. HasTcb(v) /\ "ShutdownReceived" \in Shutdowns /\ v.draws \in Nat /\ v.draws >= w.draws
      BY <1>1, <2>1, <3>2 DEF HasTcb, Shutdowns
    <3>4. After(w, v, R)
      BY <1>1, <1>2, <2>1, <3>2, <3>3, EnterOf
    <3>5. After(v, MaybeSendShutdownOrAck(v), R)
      BY <3>3, <3>4, MaybeSendShutdownOrAckOf DEF After
    <3>6. QED
      BY <1>1, <3>1, <3>4, <3>5, AfterTrans
  <2>4. QED
    BY <1>4, <2>2, <2>3
<1>5. QED
  BY <1>2, <1>3, <1>4 DEF States

\* HandleShutdownAck closes the socket, or answers out of the blue.
LEMMA HandleShutdownAckOf ==
  ASSUME NEW R, NEW w, Good(w, R), NEW packet \in PacketsOf(R)
  PROVE  After(w, HandleShutdownAck(w, packet), R)
<1>1. /\ w \in SocketsOf(R) /\ w.draws \in Nat
      /\ HasTcb(w) <=> w.state \notin {"Closed", "CookieWait"}
  BY GoodFacts
<1>2. CASE w.state \in {"ShutdownSent", "ShutdownAckSent"}
  <2> DEFINE a == SendChunk(w, "SHUTDOWN_COMPLETE", [t_bit |-> FALSE])
  <2>1. HasTcb(w) /\ Plain("SHUTDOWN_COMPLETE", [t_bit |-> FALSE])
    BY <1>1, <1>2, PlainChunks
  <2>2. a \in SocketsOf(R) /\ Frame(w, a)
    BY <1>1, <2>1, SendChunkOf
  <2>3. HandleShutdownAck(w, packet) = InternalClose(a)
    BY <1>2 DEF HandleShutdownAck
  <2> HIDE DEF a
  <2>4. After(w, a, R) /\ After(a, InternalClose(a), R)
    BY <2>2, FrameGood, InternalCloseOf
  <2>5. QED
    BY <1>1, <2>3, <2>4, AfterTrans
<1>3. CASE w.state \notin {"ShutdownSent", "ShutdownAckSent"}
  <2> DEFINE info == [t_bit |-> TRUE]
             q == Packet(w, packet.tag, "SHUTDOWN_COMPLETE", info, NoData)
  <2>1. Plain("SHUTDOWN_COMPLETE", info)
    BY PlainChunks
  <2>2. packet.tag \in Int /\ NoData \in Datas
    BY DEF PacketsOf, Datas
  <2> HIDE DEF info
  <2>3. q \in PacketsOf(R)
    BY <1>1, <2>1, <2>2, PacketOf DEF Plain
  <2>4. HandleShutdownAck(w, packet) = Send(w, q)
    BY <1>3 DEF HandleShutdownAck, info
  <2>5. QED
    BY <2>3, <2>4, AnswerOf
<1>4. QED
  BY <1>2, <1>3

\* Whatever chunk arrives, the socket stays good.
LEMMA DispatchOf ==
  ASSUME NEW R, R \subseteq Int \X Int, NEW w, Good(w, R), NEW packet \in PacketsOf(R)
  PROVE  Outcome(w, Dispatch(w, packet), R)
<1>0. packet.type \in ChunkTypes
  BY DEF PacketsOf
<1>1. CASE packet.type = "INIT"
  BY <1>1, HandleInitOf DEF Dispatch
<1>2. CASE packet.type = "INIT_ACK"
  BY <1>2, HandleInitAckOf DEF Dispatch, Outcome
<1>3. CASE packet.type = "COOKIE_ECHO"
  BY <1>3, HandleCookieEchoOf DEF Dispatch, Outcome
<1>4. CASE packet.type = "COOKIE_ACK"
  BY <1>4, HandleCookieAckOf DEF Dispatch, Outcome
<1>5. CASE packet.type = "SACK"
  BY <1>5, HandleSackOf DEF Dispatch, Outcome
<1>6. CASE packet.type = "HEARTBEAT"
  BY <1>6, HandleHeartbeatOf DEF Dispatch, Outcome
<1>7. CASE packet.type = "HEARTBEAT_ACK"
  BY <1>7, HandleHeartbeatOf DEF Dispatch, Outcome
<1>8. CASE packet.type = "ABORT"
  BY <1>8, HandleAbortOf DEF Dispatch, Outcome
<1>9. CASE packet.type = "SHUTDOWN"
  BY <1>9, HandleShutdownOf DEF Dispatch, Outcome
<1>10. CASE packet.type = "SHUTDOWN_ACK"
  BY <1>10, HandleShutdownAckOf DEF Dispatch, Outcome
<1>11. CASE packet.type = "SHUTDOWN_COMPLETE"
  BY <1>11, HandleAbortOf DEF Dispatch, Outcome
<1>12. CASE packet.type = "DATA"
  BY <1>12, GoodFacts DEF Dispatch, Outcome
<1>13. QED
  BY <1>0, <1>1, <1>2, <1>3, <1>4, <1>5, <1>6, <1>7, <1>8, <1>9, <1>10, <1>11, <1>12
     DEF ChunkTypes

\* A SHUTDOWN is sent again while the peer still sends data.
LEMMA MaybeSendShutdownOnPacketReceivedOf ==
  ASSUME NEW R, NEW w, Good(w, R), NEW packet
  PROVE  LET w1 == MaybeSendShutdownOnPacketReceived(w, packet)
         IN After(w, w1, R) /\ w1.draws = w.draws /\ w1.id = w.id
<1>1. /\ w \in SocketsOf(R) /\ TimersOK(w) /\ w.draws \in Nat /\ After(w, w, R)
      /\ HasTcb(w) <=> w.state \notin {"Closed", "CookieWait"}
  BY GoodFacts
<1>2. CASE w.state = "ShutdownSent" /\ packet.data /= NoData
  <2> DEFINE w1 == [SendShutdown(w) EXCEPT !.t2_shutdown = Started]
  <2>1. MaybeSendShutdownOnPacketReceived(w, packet) = w1
    BY <1>2 DEF MaybeSendShutdownOnPacketReceived
  <2>2. HasTcb(w) /\ w.t1_init = 0 /\ w.t1_cookie = 0 /\ w.state \in Shutdowns
    BY <1>1, <1>2, LaterTimers DEF Shutdowns
  <2>3. w1 \in SocketsOf(R) /\ Moved(w, w1, w.state, 1)
    BY <1>1, <2>2, ShutdownSentOf
  <2> HIDE DEF w1
  <2>4. /\ w1.id = w.id /\ w1.draws = w.draws /\ w1.draws \in Nat /\ w1.draws >= w.draws
        /\ HasTcb(w1) /\ w1.state = w.state /\ w1.t1_init = 0 /\ w1.t1_cookie = 0
        /\ w1.t2_shutdown = 1
    BY <1>1, <2>2, <2>3 DEF Moved, HasTcb
  <2>5. After(w, w1, R)
    BY <1>1, <2>2, <2>3, <2>4, EnterOf
  <2>6. QED
    BY <2>1, <2>4, <2>5
<1>3. CASE ~(w.state = "ShutdownSent" /\ packet.data /= NoData)
  BY <1>1, <1>3 DEF MaybeSendShutdownOnPacketReceived
<1>4. QED
  BY <1>2, <1>3

\* Data moves the cumulative TSN at most, and is acknowledged.
LEMMA HandleDataOf ==
  ASSUME NEW R, NEW w, Good(w, R), NEW packet
  PROVE  After(w, HandleData(w, packet), R)
<1> DEFINE t == [w.tcb EXCEPT !.cum_tsn = @ + 1]
           a == [w EXCEPT !.tcb = t]
           w1 == IF Fresh(w, packet) THEN a ELSE w
<1>1. w \in SocketsOf(R) /\ w.draws \in Nat /\ After(w, w, R)
  BY GoodFacts
<1>2. CASE packet.data = NoData \/ ~HasTcb(w) \/ ~Valid(w, packet.data.tsn)
  BY <1>1, <1>2 DEF HandleData
<1>3. CASE ~(packet.data = NoData \/ ~HasTcb(w) \/ ~Valid(w, packet.data.tsn))
  <2>1. w.tcb \in TcbsOf(R) /\ w.tcb \in Tcbs /\ w.tcb.cum_tsn \in Int /\ HasTcb(w)
    BY <1>1, <1>3, TcbOf
  <2>2. t \in TcbsOf(R)
    <3>1. t = [w.tcb EXCEPT !.cum_tsn = w.tcb.cum_tsn + 1]
      OBVIOUS
    <3>2. w.tcb.cum_tsn + 1 \in Int
      BY <2>1
    <3> HIDE DEF t
    <3>3. QED
      BY <2>1, <3>1, <3>2, TcbUpdates
  <2>3. t.cookie = w.tcb.cookie
    BY <2>1 DEF Tcbs
  <2>4. HandleData(w, packet) = SendChunk(w1, "SACK", [cum_tsn |-> w1.tcb.cum_tsn])
    BY <1>1, <1>3, <2>1 DEF HandleData, SocketsOf, Tcbs
  <2> HIDE DEF t
  <2>5. a \in SocketsOf(R) /\ Frame(w, a) /\ NoMsg \in Msgs
    BY <1>1, <2>1, <2>2, <2>3, WithTcb DEF Msgs
  <2> HIDE DEF a
  <2>6. w1 \in SocketsOf(R) /\ After(w, w1, R) /\ HasTcb(w1)
    BY <1>1, <2>1, <2>5, FrameGood DEF Frame
  <2> HIDE DEF w1
  <2>7. Plain("SACK", [cum_tsn |-> w1.tcb.cum_tsn])
    BY <2>6, TcbOf, PlainChunks
  <2>8. After(w1, SendChunk(w1, "SACK", [cum_tsn |-> w1.tcb.cum_tsn]), R)
    BY <2>6, <2>7, SendChunkOf, FrameGood DEF After
  <2>9. QED
    BY <1>1, <2>4, <2>6, <2>8, AfterTrans
<1>4. QED
  BY <1>2, <1>3

----
(***************************************************************************)
(* Steps                                                                   *)
(***************************************************************************)
\* A number that is drawn was not drawn before, so that a register stays one.
LEMMA RegisterGrows ==
  ASSUME NEW R, NEW draws \in [Peers -> Nat], NEW draws2 \in [Peers -> Nat], RegisterOK(R, draws),
         NEW p \in Peers, NEW n \in Int, \A q \in Peers : draws2[q] >= draws[q]
  PROVE  /\ RegisterOK(R, draws2)
         /\ draws2[p] > draws[p] =>
              RegisterOK(R \cup {<<(2 * draws[p] + p + 1) * 10, n>>}, draws2)
<1> DEFINE tag == (2 * draws[p] + p + 1) * 10
           R2 == R \cup {<<tag, n>>}
<1>1. /\ R \subseteq Int \X Int /\ \A x \in R : Issued(x[1], draws)
      /\ \A x, y \in R : x[1] = y[1] => x[2] = y[2]
  BY DEF RegisterOK
<1>2. \A x \in R : Issued(x[1], draws2)
  <2>1. ASSUME NEW d \in Nat, NEW q \in Peers, d < draws[q]
        PROVE  d < draws2[q]
    <3>1. draws[q] \in Nat /\ draws2[q] \in Nat /\ draws2[q] >= draws[q]
      OBVIOUS
    <3>2. QED
      BY <2>1, <3>1
  <2>2. QED
    BY <1>1, <2>1 DEF Issued
<1>3. RegisterOK(R, draws2)
  BY <1>1, <1>2 DEF RegisterOK
<1>4. ASSUME draws2[p] > draws[p]
      PROVE  RegisterOK(R2, draws2)
  <2>1. draws[p] \in Nat /\ draws2[p] \in Nat
    OBVIOUS
  <2>2. tag \in Int
    BY <2>1 DEF Peers
  <2>3. Issued(tag, draws2)
    BY <1>4, <2>1 DEF Issued
  <2>4. ~Issued(tag, draws)
    <3>1. ASSUME NEW d \in Nat, NEW q \in Peers, d < draws[q], tag = (2 * d + q + 1) * 10
          PROVE  FALSE
      <4>1. q = p /\ d = draws[p]
        BY <2>1, <3>1 DEF Peers
      <4>2. QED
        BY <2>1, <3>1, <4>1
    <3>2. QED
      BY <3>1 DEF Issued
  <2> HIDE DEF tag
  <2>5. \A x \in R : x[1] /= tag
    BY <1>1, <2>4
  <2>6. R2 \subseteq Int \X Int
    BY <1>1, <2>2
  <2>7. \A x \in R2 : Issued(x[1], draws2)
    BY <1>2, <2>3
  <2>8. \A x, y \in R2 : x[1] = y[1] => x[2] = y[2]
    <3>1. <<tag, n>>[1] = tag
      OBVIOUS
    <3>2. QED
      BY <1>1, <2>5, <3>1
  <2>9. QED
    BY <2>6, <2>7, <2>8 DEF RegisterOK
<1>5. QED
  BY <1>3, <1>4

\* One socket takes a step and some of what it sends is kept.
LEMMA SocketSteps ==
  ASSUME NEW R, NEW socks, NEW packets, NEW counts, AssociationOK(R, socks, packets, counts),
         NEW p \in Peers, NEW w1, Outcome(socks[p], w1, R), NEW rest, rest \subseteq packets,
         NEW kept, kept \subseteq w1.out, NEW counts2 \in [Peers -> Nat]
  PROVE  \E R2 : AssociationOK(R2, [socks EXCEPT ![p] = [w1 EXCEPT !.out = {}]],
                               rest \cup kept, counts2)
<1> DEFINE w == socks[p]
           v == [w1 EXCEPT !.out = {}]
           socks2 == [socks EXCEPT ![p] = v]
           draws == [q \in Peers |-> socks[q].draws]
           draws2 == [q \in Peers |-> socks2[q].draws]
<1>1. /\ RegisterOK(R, draws) /\ DOMAIN socks = Peers /\ packets \subseteq PacketsOf(R)
      /\ \A q \in Peers : Good(socks[q], R) /\ socks[q].id = q /\ socks[q].out = {}
  BY DEF AssociationOK
<1>2. PICK n, R2 :
        /\ n \in Int
        /\ After(w, w1, R2)
        /\ \/ R2 = R
           \/ R2 = R \cup {<<Draw(w), n>>} /\ w1.draws > w.draws
  <2>1. CASE After(w, w1, R)
    BY <2>1
  <2>2. CASE \E n \in Int : After(w, w1, R \cup {<<Draw(w), n>>}) /\ w1.draws > w.draws
    BY <2>2
  <2>3. QED
    BY <2>1, <2>2 DEF Outcome
<1>3. R \subseteq R2
  BY <1>2
<1>4. Good(w1, R2) /\ w1 \in SocketsOf(R2) /\ TimersOK(w1) /\ w1.id = p /\ w1.draws \in Nat
  BY <1>1, <1>2 DEF After, Good
<1>5. /\ v \in SocketsOf(R2) /\ v.id = w1.id /\ v.draws = w1.draws /\ v.state = w1.state
      /\ v.tag = w1.tag /\ v.tsn = w1.tsn /\ v.tcb = w1.tcb /\ v.t1_init = w1.t1_init
      /\ v.t1_cookie = w1.t1_cookie /\ v.t2_shutdown = w1.t2_shutdown /\ v.out = {}
  BY <1>4 DEF SocketsOf
<1> HIDE DEF v
<1>6. Good(v, R2)
  <2>1. TimersOK(v)
    BY <1>4, <1>5 DEF TimersOK, HasTcb
  <2>2. QED
    BY <1>4, <1>5, <2>1 DEF Good
<1>7. DOMAIN socks2 = Peers /\ socks2[p] = v /\ \A q \in Peers : q /= p => socks2[q] = socks[q]
  BY <1>1
<1> HIDE DEF socks2
<1>8. \A q \in Peers : Good(socks2[q], R2) /\ socks2[q].id = q /\ socks2[q].out = {}
  BY <1>1, <1>3, <1>4, <1>5, <1>6, <1>7, Larger
<1>9. /\ draws \in [Peers -> Nat] /\ draws2 \in [Peers -> Nat]
      /\ \A q \in Peers : draws2[q] >= draws[q]
  <2>1. \A q \in Peers : socks[q].draws \in Nat
    BY <1>1, GoodFacts
  <2>2. \A q \in Peers : socks2[q].draws \in Nat
    BY <1>8, GoodFacts
  <2>3. w1.draws >= w.draws
    BY <1>2 DEF After
  <2>4. ASSUME NEW q \in Peers
        PROVE  socks2[q].draws >= socks[q].draws
    <3>1. CASE q = p
      BY <1>5, <1>7, <2>3, <3>1
    <3>2. CASE q /= p
      BY <1>7, <2>1, <3>2
    <3>3. QED
      BY <3>1, <3>2
  <2>5. QED
    BY <2>1, <2>2, <2>4
<1>10. draws[p] = w.draws /\ draws2[p] = w1.draws /\ w.id = p
  BY <1>1, <1>5, <1>7
<1>11. Draw(w) = (2 * draws[p] + p + 1) * 10
  BY <1>10 DEF Draw
<1> HIDE DEF draws, draws2
<1>12. RegisterOK(R2, draws2)
  <2>1. RegisterOK(R, draws) /\ n \in Int
    BY <1>1, <1>2
  <2>2. /\ RegisterOK(R, draws2)
        /\ draws2[p] > draws[p] =>
             RegisterOK(R \cup {<<(2 * draws[p] + p + 1) * 10, n>>}, draws2)
    BY <1>9, <2>1, RegisterGrows
  <2>3. CASE R2 = R
    BY <2>2, <2>3
  <2>4. CASE R2 = R \cup {<<Draw(w), n>>} /\ w1.draws > w.draws
    BY <1>10, <1>11, <2>2, <2>4
  <2>5. QED
    BY <1>2, <2>3, <2>4
<1>13. rest \cup kept \subseteq PacketsOf(R2)
  <2>1. w1.out \subseteq PacketsOf(R2)
    BY <1>4, FieldsOf
  <2>2. packets \subseteq PacketsOf(R2)
    BY <1>1, <1>3, Larger
  <2>3. QED
    BY <2>1, <2>2
<1>14. AssociationOK(R2, socks2, rest \cup kept, counts2)
  BY <1>7, <1>8, <1>12, <1>13 DEF AssociationOK, draws2
<1>15. QED
  BY <1>14 DEF socks2, v

\* A timer that expires counts on or stops.
LEMMA ExpiredOf ==
  ASSUME NEW timer \in Nat, NEW max \in Nat
  PROVE  Expired(timer, max) \in Nat
  BY DEF Expired, Stopped

\* T1-init sends the INIT again or gives up.
LEMMA InitTimerOf ==
  ASSUME NEW R, NEW w, Good(w, R), Running(w.t1_init), NEW timer \in Nat, NEW v,
         v = [w EXCEPT !.t1_init = timer]
  PROVE  After(w, IF Running(timer) THEN SendInit(v) ELSE InternalClose(v), R)
<1>1. /\ w \in SocketsOf(R) /\ TimersOK(w) /\ w.draws \in Nat
  BY GoodFacts
<1>2. /\ w.state = "CookieWait" /\ ~HasTcb(w) /\ w.t1_cookie = 0 /\ w.t2_shutdown = 0
      /\ <<w.tag, w.tsn>> \in R
  BY <1>1 DEF TimersOK, Running, Stopped, Good
<1>3. /\ v \in SocketsOf(R) /\ v.id = w.id /\ v.draws = w.draws /\ v.tcb = w.tcb
      /\ v.state = w.state /\ v.tag = w.tag /\ v.tsn = w.tsn /\ v.t1_init = timer
      /\ v.t1_cookie = w.t1_cookie /\ v.t2_shutdown = w.t2_shutdown
  BY <1>1 DEF SocketsOf
<1>4. CASE Running(timer)
  <2>1. TimersOK(v)
    BY <1>2, <1>3, <1>4 DEF TimersOK, HasTcb, Running, Stopped
  <2>2. Good(v, R)
    BY <1>2, <1>3, <2>1 DEF Good
  <2> DEFINE info == [tag |-> v.tag, tsn |-> v.tsn]
             q == Packet(v, 0, "INIT", info, NoData)
  <2>3. v.tag \in Int /\ v.tsn \in Int
    BY <1>3, FieldsOf
  <2>4. info \in Inits /\ <<info.tag, info.tsn>> \in R
    BY <1>2, <1>3, <2>3 DEF Inits
  <2> HIDE DEF info
  <2>5. info \in Infos /\ "INIT" \in ChunkTypes /\ NoData \in Datas /\ 0 \in Int
    BY <2>4 DEF Infos, ChunkTypes, Datas
  <2>6. q \in PacketsOf(R)
    BY <1>3, <2>4, <2>5, PacketOf
  <2>7. After(v, SendInit(v), R)
    BY <2>2, <2>6, AnswerOf DEF SendInit, info
  <2>8. QED
    BY <1>1, <1>3, <1>4, <2>7 DEF After
<1>5. CASE ~Running(timer)
  <2>1. After(v, InternalClose(v), R)
    BY <1>3, InternalCloseOf
  <2>2. QED
    BY <1>1, <1>3, <1>5, <2>1 DEF After
<1>6. QED
  BY <1>4, <1>5

\* T1-cookie sends the COOKIE ECHO again or gives up.
LEMMA CookieTimerOf ==
  ASSUME NEW R, NEW w, Good(w, R), Running(w.t1_cookie), NEW timer \in Nat, NEW v,
         v = [w EXCEPT !.t1_cookie = timer]
  PROVE  After(w, IF Running(timer) THEN SendBufferedPackets(v, NoInfo) ELSE InternalClose(v), R)
<1>1. /\ w \in SocketsOf(R) /\ TimersOK(w) /\ w.draws \in Nat
  BY GoodFacts
<1>2. /\ w.state = "CookieEchoed" /\ HasTcb(w) /\ w.t1_init = 0 /\ w.t2_shutdown = 0
      /\ w.tcb.cookie /= NoCookie /\ <<w.tag, w.tsn>> \in R
  BY <1>1 DEF TimersOK, Running, Stopped, Good
<1>3. /\ v \in SocketsOf(R) /\ v.id = w.id /\ v.draws = w.draws /\ v.tcb = w.tcb
      /\ v.state = w.state /\ v.tag = w.tag /\ v.tsn = w.tsn /\ v.t1_init = w.t1_init
      /\ v.t1_cookie = timer /\ v.t2_shutdown = w.t2_shutdown
  BY <1>1 DEF SocketsOf
<1>4. CASE Running(timer)
  <2>1. TimersOK(v) /\ HasTcb(v)
    BY <1>2, <1>3, <1>4 DEF TimersOK, HasTcb, Running, Stopped
  <2>2. Good(v, R)
    BY <1>2, <1>3, <2>1 DEF Good
  <2>3. After(v, SendBufferedPackets(v, NoInfo), R)
    BY <2>1, <2>2, BufferedAfter
  <2>4. QED
    BY <1>1, <1>3, <1>4, <2>3 DEF After
<1>5. CASE ~Running(timer)
  <2>1. After(v, InternalClose(v), R)
    BY <1>3, InternalCloseOf
  <2>2. QED
    BY <1>1, <1>3, <1>5, <2>1 DEF After
<1>6. QED
  BY <1>4, <1>5

\* T2-shutdown sends the SHUTDOWN again or aborts.
LEMMA ShutdownTimerOf ==
  ASSUME NEW R, NEW w, Good(w, R), Running(w.t2_shutdown), NEW timer \in Nat, NEW v,
         v = [w EXCEPT !.t2_shutdown = timer]
  PROVE  After(w, IF Running(timer) THEN SendShutdown(v)
                  ELSE InternalClose(SendChunk(v, "ABORT", NoInfo)), R)
<1>1. /\ w \in SocketsOf(R) /\ TimersOK(w) /\ w.draws \in Nat
  BY GoodFacts
<1>2. /\ w.state \notin {"Closed", "CookieWait", "CookieEchoed"} /\ HasTcb(w)
      /\ w.t1_init = 0 /\ w.t1_cookie = 0
  BY <1>1 DEF TimersOK, Running, Stopped
<1>3. /\ v \in SocketsOf(R) /\ v.id = w.id /\ v.draws = w.draws /\ v.tcb = w.tcb
      /\ v.state = w.state /\ v.t1_init = w.t1_init
      /\ v.t1_cookie = w.t1_cookie /\ v.t2_shutdown = timer
  BY <1>1 DEF SocketsOf
<1>4. HasTcb(v)
  BY <1>2, <1>3 DEF HasTcb
<1>5. CASE Running(timer)
  <2>1. TimersOK(v)
    BY <1>2, <1>3, <1>4, <1>5 DEF TimersOK, Running, Stopped
  <2>2. Good(v, R)
    BY <1>2, <1>3, <2>1 DEF Good
  <2>3. After(v, SendShutdown(v), R)
    BY <1>3, <1>4, <2>2, SendShutdownOf, FrameGood
  <2>4. QED
    BY <1>1, <1>3, <1>5, <2>3 DEF After
<1>6. CASE ~Running(timer)
  <2> DEFINE a == SendChunk(v, "ABORT", NoInfo)
  <2>1. a \in SocketsOf(R) /\ a.id = v.id /\ a.draws = v.draws
    <3>1. a \in SocketsOf(R) /\ Frame(v, a)
      BY <1>3, <1>4, SendChunkOf, PlainChunks
    <3> HIDE DEF a
    <3>2. QED
      BY <3>1 DEF Frame
  <2> HIDE DEF a
  <2>2. After(a, InternalClose(a), R)
    BY <2>1, InternalCloseOf
  <2>3. After(w, InternalClose(a), R)
    BY <1>1, <1>3, <2>1, <2>2 DEF After
  <2>4. QED
    BY <1>6, <2>3 DEF a
<1>7. QED
  BY <1>5, <1>6

\* T3-rtx counts an error, and sends again or closes.
LEMMA RtxTimerOf ==
  ASSUME NEW R, NEW w, Good(w, R), HasTcb(w)
  PROVE  LET v == [w EXCEPT !.tcb.errors = @ + 1]
             again == Packet(v, v.tcb.peer_tag, "DATA", NoCookie,
                             [tsn |-> v.tcb.next_tsn - 1, msg |-> v.tcb.flight])
         IN After(w, CloseIfTooManyErrors(v), R) /\ After(w, Send(v, again), R)
<1> DEFINE v == [w EXCEPT !.tcb.errors = @ + 1]
           t == [w.tcb EXCEPT !.errors = w.tcb.errors + 1]
<1>1. w \in SocketsOf(R) /\ w.draws \in Nat
  BY GoodFacts
<1>2. w.tcb \in TcbsOf(R) /\ w.tcb \in Tcbs /\ w.tcb.errors \in Nat /\ NoMsg \in Msgs
  BY <1>1, TcbOf DEF Msgs
<1>3. t \in TcbsOf(R) /\ t.cookie = w.tcb.cookie
  <2>1. w.tcb.errors + 1 \in Nat
    BY <1>2
  <2>2. \A n \in Nat : [w.tcb EXCEPT !.errors = n] \in TcbsOf(R)
    BY <1>2, TcbUpdates
  <2>3. t \in TcbsOf(R)
    BY <2>1, <2>2, Zenon
  <2>4. QED
    BY <1>2, <2>3 DEF Tcbs
<1>4. v = [w EXCEPT !.tcb = t]
  BY <1>1, <1>2 DEF SocketsOf, Tcbs
<1> HIDE DEF t, v
<1>5. v \in SocketsOf(R) /\ Frame(w, v) /\ HasTcb(v)
  <2>1. v \in SocketsOf(R) /\ Frame(w, v)
    BY <1>1, <1>2, <1>3, <1>4, WithTcb
  <2>2. QED
    BY <2>1 DEF Frame
<1>6. After(w, v, R) /\ Good(v, R)
  BY <1>5, FrameGood DEF After
<1>7. After(v, CloseIfTooManyErrors(v), R)
  BY <1>6, CloseIfTooManyErrorsOf
<1> DEFINE data == [tsn |-> v.tcb.next_tsn - 1, msg |-> v.tcb.flight]
           q == Packet(v, v.tcb.peer_tag, "DATA", NoCookie, data)
<1>8. v.tcb.peer_tag \in Int /\ v.tcb.next_tsn \in Int /\ v.tcb.flight \in Msgs
  BY <1>5, TcbOf
<1>9. data \in Datas
  BY <1>8 DEF Datas
<1>10. NoCookie \in Infos /\ "DATA" \in ChunkTypes /\ Plain("DATA", NoCookie)
  BY DEF Infos, ChunkTypes, Plain
<1> HIDE DEF data
<1>11. q \in PacketsOf(R)
  BY <1>5, <1>8, <1>9, <1>10, PacketOf
<1>12. After(v, Send(v, q), R)
  BY <1>6, <1>11, AnswerOf
<1>13. QED
  BY <1>1, <1>6, <1>7, <1>12, AfterTrans DEF data, v

\* The heartbeat timers send a HEARTBEAT, and count an error when it is unanswered.
LEMMA HeartbeatTimersOf ==
  ASSUME NEW R, NEW w, Good(w, R), HasTcb(w)
  PROVE  /\ After(w, [SendChunk(w, "HEARTBEAT", NoInfo) EXCEPT !.tcb.heartbeat = TRUE], R)
         /\ After(w, CloseIfTooManyErrors([w EXCEPT !.tcb.heartbeat = FALSE,
                                                    !.tcb.errors = @ + 1]), R)
<1>1. w \in SocketsOf(R) /\ w.draws \in Nat
  BY GoodFacts
<1>2. w.tcb \in TcbsOf(R) /\ w.tcb \in Tcbs /\ w.tcb.errors \in Nat /\ NoMsg \in Msgs
  BY <1>1, TcbOf DEF Msgs
<1>3. After(w, [SendChunk(w, "HEARTBEAT", NoInfo) EXCEPT !.tcb.heartbeat = TRUE], R)
  <2> DEFINE a == SendChunk(w, "HEARTBEAT", NoInfo)
             t == [a.tcb EXCEPT !.heartbeat = TRUE]
  <2>1. a \in SocketsOf(R) /\ Frame(w, a) /\ a.tcb = w.tcb
    BY <1>1, SendChunkOf, PlainChunks
  <2> HIDE DEF a
  <2>2. HasTcb(a)
    BY <2>1 DEF HasTcb
  <2>3. t \in TcbsOf(R) /\ t.cookie = a.tcb.cookie
    BY <1>2, <2>1, TcbUpdates DEF Tcbs
  <2>4. [a EXCEPT !.tcb.heartbeat = TRUE] = [a EXCEPT !.tcb = t]
    BY <2>1 DEF SocketsOf
  <2> HIDE DEF t
  <2>5. [a EXCEPT !.tcb = t] \in SocketsOf(R) /\ Frame(a, [a EXCEPT !.tcb = t])
    BY <1>2, <2>1, <2>2, <2>3, WithTcb
  <2>6. After(w, [a EXCEPT !.tcb.heartbeat = TRUE], R)
    BY <2>1, <2>4, <2>5, FrameTrans, FrameGood
  <2>7. QED
    BY <2>6 DEF a
<1>4. After(w, CloseIfTooManyErrors([w EXCEPT !.tcb.heartbeat = FALSE, !.tcb.errors = @ + 1]), R)
  <2> DEFINE t == [w.tcb EXCEPT !.heartbeat = FALSE, !.errors = w.tcb.errors + 1]
             v == [w EXCEPT !.tcb.heartbeat = FALSE, !.tcb.errors = @ + 1]
  <2>1. t \in TcbsOf(R) /\ t.cookie = w.tcb.cookie
    <3>1. w.tcb.errors + 1 \in Nat /\ FALSE \in BOOLEAN
      BY <1>2
    <3>2. \A b \in BOOLEAN, n \in Nat : [w.tcb EXCEPT !.heartbeat = b, !.errors = n] \in TcbsOf(R)
      BY <1>2, TcbUpdates
    <3>3. t \in TcbsOf(R)
      BY <3>1, <3>2, Zenon
    <3>4. QED
      BY <1>2, <3>3 DEF Tcbs
  <2>2. v = [w EXCEPT !.tcb = t]
    BY <1>1, <1>2 DEF SocketsOf, Tcbs
  <2> HIDE DEF t, v
  <2>3. v \in SocketsOf(R) /\ Frame(w, v)
    BY <1>1, <1>2, <2>1, <2>2, WithTcb
  <2>4. After(w, v, R) /\ Good(v, R)
    BY <2>3, FrameGood DEF After
  <2>5. After(v, CloseIfTooManyErrors(v), R)
    BY <2>4, CloseIfTooManyErrorsOf
  <2>6. After(w, CloseIfTooManyErrors(v), R)
    BY <1>1, <2>4, <2>5, AfterTrans
  <2>7. QED
    BY <2>6 DEF v
<1>5. QED
  BY <1>3, <1>4

\* A step of the specification.
LEMMA LocalKeeps ==
  ASSUME NEW R, AssociationOK(R, sock, net, sent), NEW p \in Peers, NEW w1,
         Outcome(sock[p], w1, R), NEW rest, rest \subseteq net, Step(p, w1), Transmit(rest, w1),
         sent' \in [Peers -> Nat]
  PROVE  SocketInv'
<1>1. PICK kept \in SUBSET w1.out : net' = rest \cup kept
  BY DEF Transmit
<1>2. sock' = [sock EXCEPT ![p] = [w1 EXCEPT !.out = {}]]
  BY DEF Step
<1>3. \E R2 : AssociationOK(R2, [sock EXCEPT ![p] = [w1 EXCEPT !.out = {}]],
                            rest \cup kept, sent')
  BY <1>1, SocketSteps
<1>4. QED
  BY <1>1, <1>2, <1>3 DEF SocketInv

\* A socket that takes a step with nothing received.
LEMMA LocalCallKeeps ==
  ASSUME NEW R, AssociationOK(R, sock, net, sent), NEW p \in Peers, NEW w1,
         Outcome(sock[p], w1, R), Local(p, w1), sent' \in [Peers -> Nat]
  PROVE  SocketInv'
  BY LocalKeeps DEF Local

\* The calls of the application keep the invariant.
LEMMA CallsKeep ==
  ASSUME NEW R, AssociationOK(R, sock, net, sent), NEW p \in Peers, Call(p)
  PROVE  SocketInv'
<1> DEFINE w == sock[p]
<1>1. Good(w, R) /\ sent \in [Peers -> Nat]
  BY DEF AssociationOK
<1>2. CASE Connect(p)
  <2>1. Outcome(w, DoConnect(w), R)
    BY <1>1, <1>2, DoConnectOf DEF Connect
  <2>2. Local(p, DoConnect(w)) /\ sent' = sent
    BY <1>2 DEF Connect, ApiCall
  <2>3. QED
    BY <1>1, <2>1, <2>2, LocalCallKeeps
<1>3. CASE Shutdown(p)
  <2>1. Outcome(w, DoShutdown(w), R)
    BY <1>1, DoShutdownOf DEF Outcome
  <2>2. Local(p, DoShutdown(w)) /\ sent' = sent
    BY <1>3 DEF Shutdown, ApiCall
  <2>3. QED
    BY <1>1, <2>1, <2>2, LocalCallKeeps
<1>4. CASE Close(p)
  <2>1. Outcome(w, DoClose(w), R)
    BY <1>1, DoCloseOf DEF Outcome
  <2>2. Local(p, DoClose(w)) /\ sent' = sent
    BY <1>4 DEF Close, ApiCall
  <2>3. QED
    BY <1>1, <2>1, <2>2, LocalCallKeeps
<1>5. CASE SendMessage(p)
  <2>1. sent' \in [Peers -> Nat] /\ sent'[p] \in Nat
    BY <1>1, <1>5 DEF SendMessage
  <2>2. Outcome(w, DoSend(w, sent'[p]), R)
    BY <1>1, <2>1, DoSendOf DEF Outcome
  <2>3. Local(p, DoSend(w, sent'[p]))
    BY <1>5 DEF SendMessage
  <2>4. QED
    BY <2>1, <2>2, <2>3, LocalCallKeeps
<1>6. CASE Handover(p)
  <2>1. Outcome(w, DoHandover(w), R)
    BY <1>1, <1>6, DoHandoverOf DEF Outcome, Handover
  <2>2. Local(p, DoHandover(w)) /\ sent' = sent
    BY <1>6 DEF Handover, ApiCall
  <2>3. QED
    BY <1>1, <2>1, <2>2, LocalCallKeeps
<1>7. QED
  BY <1>2, <1>3, <1>4, <1>5, <1>6 DEF Call

\* ReceivePacket keeps the invariant, whatever packet on its way it takes.
LEMMA ReceivePacketKeeps ==
  ASSUME NEW R, AssociationOK(R, sock, net, sent), NEW p \in Peers, ReceivePacket(p)
  PROVE  SocketInv'
<1> DEFINE w == sock[p]
           w0(packet) == MaybeSendShutdownOnPacketReceived(w, packet)
           w1(packet) == Dispatch(w0(packet), packet)
           w2(packet) == HandleData(w1(packet), packet)
<1>1. /\ Good(w, R) /\ sent \in [Peers -> Nat] /\ net \subseteq PacketsOf(R)
      /\ R \subseteq Int \X Int
  BY DEF AssociationOK, RegisterOK
<1>2. PICK packet \in net :
        /\ \/ UNCHANGED sock /\ net' = net \ {packet}
           \/ Step(p, w2(packet)) /\ Transmit(net \ {packet}, w2(packet))
        /\ sent' = sent
  BY DEF ReceivePacket
<1>3. CASE UNCHANGED sock /\ net' = net \ {packet}
  <2>1. AssociationOK(R, sock', net', sent')
    BY <1>2, <1>3 DEF AssociationOK
  <2>2. QED
    BY <2>1 DEF SocketInv
<1>4. CASE Step(p, w2(packet)) /\ Transmit(net \ {packet}, w2(packet))
  <2>1. packet \in PacketsOf(R)
    BY <1>1
  <2>2. /\ After(w, w0(packet), R) /\ w0(packet).draws = w.draws
        /\ w0(packet).id = w.id
    BY <1>1, MaybeSendShutdownOnPacketReceivedOf
  <2> HIDE DEF w0
  <2>3. Outcome(w0(packet), w1(packet), R)
    BY <1>1, <2>1, <2>2, DispatchOf DEF After
  <2> HIDE DEF w1
  <2>4. \A R2 : Good(w1(packet), R2) => After(w1(packet), w2(packet), R2)
    BY HandleDataOf
  <2> HIDE DEF w2
  <2>5. w.draws \in Nat /\ Draw(w0(packet)) = Draw(w)
    BY <1>1, <2>2, GoodFacts DEF Draw
  <2>6. \A R2 : After(w0(packet), w1(packet), R2) => After(w, w2(packet), R2)
    <3> SUFFICES ASSUME NEW R2, After(w0(packet), w1(packet), R2)
                 PROVE  After(w, w2(packet), R2)
      BY Zenon
    <3>1. /\ w1(packet).id = w0(packet).id /\ w1(packet).draws \in Nat
          /\ w1(packet).draws >= w0(packet).draws
          /\ After(w1(packet), w2(packet), R2)
      BY <2>4, Zenon DEF After
    <3>2. /\ Good(w2(packet), R2) /\ w2(packet).id = w1(packet).id
          /\ w2(packet).draws \in Nat /\ w2(packet).draws >= w1(packet).draws
      BY <3>1, Zenon DEF After
    <3>3. w2(packet).draws >= w.draws
      BY <2>2, <2>5, <3>1, <3>2
    <3>4. QED
      BY <2>2, <3>1, <3>2, <3>3, Zenon DEF After
  <2>7. /\ w1(packet).draws \in Nat /\ w1(packet).draws > w0(packet).draws
        /\ w2(packet).draws \in Nat /\ w2(packet).draws >= w1(packet).draws
        => w2(packet).draws > w.draws
    BY <2>2, <2>5
  <2>8. Outcome(w, w2(packet), R)
    <3>1. CASE After(w0(packet), w1(packet), R)
      BY <2>6, <3>1 DEF Outcome
    <3>2. ASSUME NEW n \in Int, After(w0(packet), w1(packet), R \cup {<<Draw(w0(packet)), n>>}),
                 w1(packet).draws > w0(packet).draws
          PROVE  Outcome(w, w2(packet), R)
      <4> DEFINE R2 == R \cup {<<Draw(w0(packet)), n>>}
      <4>1. After(w, w2(packet), R2) /\ After(w1(packet), w2(packet), R2)
        BY <2>4, <2>6, <3>2 DEF After
      <4>2. w1(packet).draws \in Nat
        BY <3>2 DEF After
      <4>3. w2(packet).draws \in Nat /\ w2(packet).draws >= w1(packet).draws
        BY <4>1 DEF After
      <4>4. w2(packet).draws > w.draws
        BY <2>7, <3>2, <4>2, <4>3
      <4>5. QED
        BY <2>5, <4>1, <4>4 DEF Outcome
    <3>3. QED
      BY <2>3, <3>1, <3>2 DEF Outcome
  <2>9. QED
    BY <1>1, <1>2, <1>4, <2>8, LocalKeeps
<1>5. QED
  BY <1>2, <1>3, <1>4

\* The timers keep the invariant.
LEMMA TimersKeep ==
  ASSUME NEW R, AssociationOK(R, sock, net, sent), NEW p \in Peers, TimerExpiry(p)
  PROVE  SocketInv'
<1> DEFINE w == sock[p]
<1>1. /\ Good(w, R) /\ sent \in [Peers -> Nat]
      /\ HasTcb(w) <=> w.state \notin {"Closed", "CookieWait"}
      /\ w.t1_init \in Nat /\ w.t1_cookie \in Nat /\ w.t2_shutdown \in Nat
  BY GoodFacts, FieldsOf DEF AssociationOK
<1>2. MaxInitRetransmits \in Nat /\ MaxRetransmissions \in Nat
  BY SocketAssumption
<1>3. ASSUME NEW w1, After(w, w1, R), Expire(p, w1)
      PROVE  SocketInv'
  <2>1. Outcome(w, w1, R)
    BY <1>3 DEF Outcome
  <2>2. Local(p, w1) /\ sent' = sent
    BY <1>3 DEF Expire
  <2>3. QED
    BY <1>1, <2>1, <2>2, LocalCallKeeps
<1>4. CASE OnInitTimerExpiry(p)
  <2> DEFINE timer == Expired(w.t1_init, MaxInitRetransmits)
             v == [w EXCEPT !.t1_init = timer]
             w1 == IF Running(timer) THEN SendInit(v) ELSE InternalClose(v)
  <2>1. timer \in Nat
    BY <1>1, <1>2, ExpiredOf
  <2>2. Running(w.t1_init) /\ Expire(p, w1)
    BY <1>4 DEF OnInitTimerExpiry
  <2> HIDE DEF timer
  <2>3. After(w, w1, R)
    BY <1>1, <2>1, <2>2, InitTimerOf
  <2> HIDE DEF w1
  <2>4. QED
    BY <1>3, <2>2, <2>3
<1>5. CASE OnCookieTimerExpiry(p)
  <2> DEFINE timer == Expired(w.t1_cookie, MaxInitRetransmits)
             v == [w EXCEPT !.t1_cookie = timer]
             w1 == IF Running(timer) THEN SendBufferedPackets(v, NoInfo) ELSE InternalClose(v)
  <2>1. timer \in Nat
    BY <1>1, <1>2, ExpiredOf
  <2>2. Running(w.t1_cookie) /\ Expire(p, w1)
    BY <1>5 DEF OnCookieTimerExpiry
  <2> HIDE DEF timer
  <2>3. After(w, w1, R)
    BY <1>1, <2>1, <2>2, CookieTimerOf
  <2> HIDE DEF w1
  <2>4. QED
    BY <1>3, <2>2, <2>3
<1>6. CASE OnShutdownTimerExpiry(p)
  <2> DEFINE timer == Expired(w.t2_shutdown, MaxRetransmissions)
             v == [w EXCEPT !.t2_shutdown = timer]
             w1 == IF Running(timer) THEN SendShutdown(v)
                   ELSE InternalClose(SendChunk(v, "ABORT", NoInfo))
  <2>1. timer \in Nat
    BY <1>1, <1>2, ExpiredOf
  <2>2. Running(w.t2_shutdown) /\ Expire(p, w1)
    BY <1>6 DEF OnShutdownTimerExpiry
  <2> HIDE DEF timer
  <2>3. After(w, w1, R)
    BY <1>1, <2>1, <2>2, ShutdownTimerOf
  <2> HIDE DEF w1
  <2>4. QED
    BY <1>3, <2>2, <2>3
<1>7. CASE OnRtxTimerExpiry(p)
  <2> DEFINE v == [w EXCEPT !.tcb.errors = @ + 1]
             again == Packet(v, v.tcb.peer_tag, "DATA", NoCookie,
                             [tsn |-> v.tcb.next_tsn - 1, msg |-> v.tcb.flight])
             w1 == IF v.tcb.errors > MaxRetransmissions THEN CloseIfTooManyErrors(v)
                   ELSE Send(v, again)
  <2>1. HasTcb(w) /\ Expire(p, w1)
    BY <1>7 DEF OnRtxTimerExpiry
  <2>2. After(w, CloseIfTooManyErrors(v), R) /\ After(w, Send(v, again), R)
    BY <1>1, <2>1, RtxTimerOf
  <2> HIDE DEF v, again
  <2>3. After(w, w1, R)
    BY <2>2
  <2> HIDE DEF w1
  <2>4. QED
    BY <1>3, <2>1, <2>3
<1>8. CASE HeartbeatIntervalExpiry(p)
  <2> DEFINE w1 == [SendChunk(w, "HEARTBEAT", NoInfo) EXCEPT !.tcb.heartbeat = TRUE]
  <2>1. HasTcb(w) /\ Expire(p, w1)
    BY <1>1, <1>8 DEF HeartbeatIntervalExpiry
  <2>2. After(w, w1, R)
    BY <1>1, <2>1, HeartbeatTimersOf
  <2> HIDE DEF w1
  <2>3. QED
    BY <1>3, <2>1, <2>2
<1>9. CASE HeartbeatTimeoutExpiry(p)
  <2> DEFINE w1 == CloseIfTooManyErrors([w EXCEPT !.tcb.heartbeat = FALSE, !.tcb.errors = @ + 1])
  <2>1. HasTcb(w) /\ Expire(p, w1)
    BY <1>9 DEF HeartbeatTimeoutExpiry
  <2>2. After(w, w1, R)
    BY <1>1, <2>1, HeartbeatTimersOf
  <2> HIDE DEF w1
  <2>3. QED
    BY <1>3, <2>1, <2>2
<1>10. QED
  BY <1>4, <1>5, <1>6, <1>7, <1>8, <1>9 DEF TimerExpiry

\* A restarted process has a new socket, and draws numbers that no one has drawn.
LEMMA CrashKeeps ==
  ASSUME NEW R, AssociationOK(R, sock, net, sent), NEW p \in Peers, Crash(p)
  PROVE  SocketInv'
<1> DEFINE v == [NewSocket(p, sock[p].draws) EXCEPT !.acked = sock[p].acked]
<1>1. /\ DOMAIN sock = Peers /\ sock' = [sock EXCEPT ![p] = v] /\ net' = net /\ sent' = sent
      /\ RegisterOK(R, [q \in Peers |-> sock[q].draws]) /\ net \subseteq PacketsOf(R)
      /\ sent \in [Peers -> Nat]
      /\ \A q \in Peers : Good(sock[q], R) /\ sock[q].id = q /\ sock[q].out = {}
  BY DEF Crash, AssociationOK
<1>2. sock[p].draws \in Nat /\ sock[p].acked \in SUBSET Msgs
  BY <1>1, GoodFacts, FieldsOf
<1>3. Good(v, R) /\ v.id = p /\ v.draws = sock[p].draws /\ v.out = {}
  BY <1>2, NewSocketOf
<1> HIDE DEF v
<1>4. /\ DOMAIN sock' = Peers
      /\ \A q \in Peers : Good(sock'[q], R) /\ sock'[q].id = q /\ sock'[q].out = {}
      /\ \A q \in Peers : sock'[q].draws = sock[q].draws
  BY <1>1, <1>3
<1>5. [q \in Peers |-> sock'[q].draws] = [q \in Peers |-> sock[q].draws]
  BY <1>4
<1>6. AssociationOK(R, sock', net', sent')
  BY <1>1, <1>4, <1>5 DEF AssociationOK
<1>7. QED
  BY <1>6 DEF SocketInv

\* Sockets that were just made have nothing in the register.
LEMMA SocketInit == Init => SocketInv
<1> SUFFICES ASSUME Init PROVE SocketInv
  OBVIOUS
<1>1. /\ sock = [p \in Peers |-> NewSocket(p, 0)] /\ net = {} /\ sent = [p \in Peers |-> 0]
  BY DEF Init
<1>2. ASSUME NEW p \in Peers
      PROVE  Good(sock[p], {}) /\ sock[p].id = p /\ sock[p].out = {}
  <2>1. [NewSocket(p, 0) EXCEPT !.acked = {}] = NewSocket(p, 0)
    BY DEF NewSocket
  <2>2. {} \in SUBSET Msgs /\ 0 \in Nat
    OBVIOUS
  <2> DEFINE v == [NewSocket(p, 0) EXCEPT !.acked = {}]
  <2>3. sock[p] = v
    BY <1>1, <2>1
  <2>4. Good(v, {}) /\ v.id = p /\ v.out = {}
    <3>1. \A R, acked : acked \in SUBSET Msgs =>
            LET s == [NewSocket(p, 0) EXCEPT !.acked = acked]
            IN Good(s, R) /\ s.id = p /\ s.draws = 0 /\ s.out = {}
      BY <2>2, NewSocketOf
    <3>2. QED
      BY <2>2, <3>1, Zenon
  <2> HIDE DEF v
  <2>5. QED
    BY <2>3, <2>4
<1>3. RegisterOK({}, [p \in Peers |-> sock[p].draws])
  BY DEF RegisterOK
<1>4. AssociationOK({}, sock, net, sent)
  BY <1>1, <1>2, <1>3 DEF AssociationOK
<1>5. QED
  BY <1>4 DEF SocketInv

\* Every step keeps the invariant.
LEMMA SocketNext == SocketInv /\ [Next]_vars => SocketInv'
<1> SUFFICES ASSUME SocketInv, [Next]_vars PROVE SocketInv'
  OBVIOUS
<1>1. PICK R : AssociationOK(R, sock, net, sent)
  BY DEF SocketInv
<1>2. CASE UNCHANGED vars
  BY <1>1, <1>2 DEF SocketInv, vars
<1>3. ASSUME NEW p \in Peers, Call(p) PROVE SocketInv'
  BY <1>1, <1>3, CallsKeep
<1>4. ASSUME NEW p \in Peers, ReceivePacket(p) PROVE SocketInv'
  BY <1>1, <1>4, ReceivePacketKeeps
<1>5. ASSUME NEW p \in Peers, TimerExpiry(p) PROVE SocketInv'
  BY <1>1, <1>5, TimersKeep
<1>6. ASSUME NEW p \in Peers, Crash(p) PROVE SocketInv'
  BY <1>1, <1>6, CrashKeeps
<1>7. QED
  BY <1>2, <1>3, <1>4, <1>5, <1>6 DEF Next

----
(***************************************************************************)
(* Theorems                                                                *)
(***************************************************************************)
\* Every tag and TSN that a socket or a packet holds comes from one register.
LEMMA SocketInvariance == Spec => []SocketInv
  BY SocketInit, SocketNext, PTL DEF Spec

\* Whatever calls, packets, timeouts and restarts come in whatever order, the
\* state of a socket tells which of its timers run: none is left running in a
\* closed socket, and no socket waits in a state whose timer has stopped.
THEOREM TimersFollowState == Spec => []TimersMatchState
<1>1. SocketInv => TimersMatchState
  BY DEF SocketInv, AssociationOK, Good, TimersOK, TimersMatchState
<1>2. QED
  BY <1>1, SocketInvariance, PTL

\* However many attempts to connect overlap, repeat or restart, two sockets
\* whose tags belong together agree on both initial TSNs.
THEOREM TagsDetermineTsns == Spec => []TagsAgreeOnTsns
<1>1. SocketInv => TagsAgreeOnTsns
  <2> SUFFICES ASSUME SocketInv, \A p \in Peers : Answered(p), NEW p \in Peers
               PROVE  sock[p].tcb.peer_tsn = sock[Other(p)].tcb.my_tsn
    BY DEF TagsAgreeOnTsns
  <2>1. PICK R : AssociationOK(R, sock, net, sent)
    BY DEF SocketInv
  <2>2. /\ Other(p) \in Peers /\ HasTcb(sock[p]) /\ HasTcb(sock[Other(p)])
        /\ sock[p].tcb.peer_tag = sock[Other(p)].tcb.my_tag
    BY DEF Answered, Other, Peers
  <2>3. sock[p] \in SocketsOf(R) /\ sock[Other(p)] \in SocketsOf(R)
    BY <2>1, <2>2 DEF AssociationOK, Good
  <2>4. sock[p].tcb \in TcbsOf(R) /\ sock[Other(p)].tcb \in TcbsOf(R)
    BY <2>2, <2>3, TcbOf
  <2> DEFINE x == <<sock[p].tcb.peer_tag, sock[p].tcb.peer_tsn>>
             y == <<sock[Other(p)].tcb.my_tag, sock[Other(p)].tcb.my_tsn>>
  <2>5. x \in R /\ y \in R
    BY <2>4 DEF TcbsOf
  <2>6. x[1] = y[1] => x[2] = y[2]
    <3> HIDE DEF x, y
    <3>1. QED
      BY <2>1, <2>5 DEF AssociationOK, RegisterOK
  <2>7. QED
    BY <2>2, <2>6
<1>2. QED
  BY <1>1, SocketInvariance, PTL
====
