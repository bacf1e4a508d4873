---- MODULE CallNetworkStateProofs ----
(***************************************************************************)
(* Proofs about CallNetworkState and RtpTransportControllerSend.           *)
(***************************************************************************)
EXTENDS CallNetworkState, TLAPS

(***************************************************************************)
(* The handler h and the observer's rate o agree: the handler has a target *)
(* rate, and both know what became of it.                                  *)
(***************************************************************************)
Synced(h, o) ==
  /\ h \in Handlers
  /\ h.last_incoming \in Rates
  /\ h.last_reported = Outgoing(h)
  /\ o = Outgoing(h)

\* A handler that has a target rate and has reported nothing, or what the
\* observer holds.
CanSync(h, o) ==
  /\ h \in Handlers
  /\ h.last_incoming \in Rates
  /\ h.last_reported \in {NoRate, o}

\* The inductive invariant of RtpTransportControllerSend: there is a controller while
\* there is a network, and its handler and the observer agree.
ControllerInv ==
  /\ ControllerTypeOK
  /\ ControllerHasHandler
  /\ PausedWithoutNetwork
  /\ controller => Synced(handler, observed)
  /\ network_available => controller
  /\ observer => pacer_paused = ~network_available

\* The inductive invariant of Call: there is an observer before there are streams, and
\* the controller has the availability that Call computed last.
CallInv ==
  /\ ControllerInv
  /\ CallTypeOK
  /\ \A m \in Media : streams[m] > 0 => observer
  /\ network_available = AggregateNetworkUp(network_state, streams)

----
(***************************************************************************)
(* CongestionControlHandler                                                *)
(***************************************************************************)
\* UpdateControlState leaves handler and observer in agreement, also when it
\* skips an update because the rate is the one reported last.
LEMMA UpdateControlStateSyncs ==
  ASSUME NEW h, NEW o, CanSync(h, o)
  PROVE  /\ Synced(UpdateControlState(h, o)[1], UpdateControlState(h, o)[2])
         /\ UpdateControlState(h, o)[1].network_available = h.network_available
         /\ UpdateControlState(h, o)[1].queue_too_long = h.queue_too_long
<1>1. Outgoing(h) \in Rates \cup {0} /\ Outgoing(h) /= NoRate
  <2>1. \A r \in Rates \cup {0} : r /= NoRate
    BY RatesAssumption
  <2>2. Outgoing(h) \in {0, h.last_incoming}
    BY DEF Outgoing
  <2>3. QED
    BY <2>1, <2>2 DEF CanSync
<1>2. CASE HasUpdate(h)
  <2> DEFINE g == [h EXCEPT !.last_reported = Outgoing(h)]
  <2>1. g \in Handlers /\ g.last_incoming = h.last_incoming
        /\ g.last_reported = Outgoing(h)
        /\ g.network_available = h.network_available /\ g.queue_too_long = h.queue_too_long
    BY <1>1 DEF CanSync, Handlers, Answers
  <2>2. Outgoing(g) = Outgoing(h)
    BY <2>1 DEF Outgoing, PauseEncoding
  <2>3. UpdateControlState(h, o) = <<g, Outgoing(h)>>
    BY <1>2 DEF UpdateControlState
  <2> HIDE DEF g
  <2>4. QED
    BY <2>1, <2>2, <2>3 DEF Synced, CanSync
<1>3. CASE ~HasUpdate(h)
  BY <1>1, <1>3, RatesAssumption DEF UpdateControlState, HasUpdate, Synced, CanSync
<1>4. QED
  BY <1>2, <1>3

\* A new target rate brings handler and observer into agreement; no new rate keeps
\* them in it.
LEMMA PostUpdatesSyncs ==
  ASSUME NEW h, NEW o, NEW rate \in Answers, h \in Handlers,
         h.last_reported \in {NoRate, o},
         rate = NoRate => Synced(h, o)
  PROVE  /\ Synced(PostUpdates(h, o, rate)[1], PostUpdates(h, o, rate)[2])
         /\ PostUpdates(h, o, rate)[1].network_available = h.network_available
<1>1. CASE rate = NoRate
  BY <1>1 DEF PostUpdates
<1>2. CASE rate /= NoRate
  <2> DEFINE g == [h EXCEPT !.last_incoming = rate]
  <2>1. g \in Handlers /\ g.last_incoming = rate /\ g.last_reported = h.last_reported
        /\ g.network_available = h.network_available
    BY DEF Handlers
  <2>2. CanSync(g, o)
    BY <1>2, <2>1 DEF CanSync, Answers
  <2>3. PostUpdates(h, o, rate) = UpdateControlState(g, o)
    BY <1>2 DEF PostUpdates
  <2> HIDE DEF g
  <2>4. QED
    BY <2>1, <2>2, <2>3, UpdateControlStateSyncs
<1>3. QED
  BY <1>1, <1>2

\* A new controller's first process interval has a target rate (MaybeCreateControllers),
\* so handler and observer agree from the start.
LEMMA NewHandlerSyncs ==
  ASSUME NEW o, NEW rate \in Rates
  PROVE  Synced(PostUpdates(NewHandler, o, rate)[1], PostUpdates(NewHandler, o, rate)[2])
<1>1. NewHandler \in Handlers /\ NewHandler.last_reported = NoRate
  BY DEF NewHandler, Handlers, Answers
<1>2. rate \in Answers /\ rate /= NoRate
  BY RatesAssumption DEF Answers
<1>3. QED
  BY <1>1, <1>2, PostUpdatesSyncs

\* Handler and observer agree after a change of the availability, which the handler
\* has then taken over.
LEMMA UpdateNetworkAvailabilitySyncs ==
  ASSUME NEW h, NEW o, NEW available \in BOOLEAN, NEW rate \in Answers, Synced(h, o)
  PROVE  LET u == UpdateNetworkAvailability(h, o, available, rate)
         IN Synced(u[1], u[2]) /\ u[1].network_available = available
<1> DEFINE g == [h EXCEPT !.network_available = available]
           p == PostUpdates(g, o, rate)
<1>1. g \in Handlers /\ g.last_incoming \in Rates /\ g.last_reported = o
      /\ g.network_available = available
  BY DEF Synced, Handlers
<1>2. UpdateNetworkAvailability(h, o, available, rate) = UpdateControlState(p[1], p[2])
  BY DEF UpdateNetworkAvailability
<1> HIDE DEF g
<1>3. CanSync(p[1], p[2]) /\ p[1].network_available = available
  <2>1. CASE rate = NoRate
    BY <1>1, <2>1 DEF PostUpdates, CanSync
  <2>2. CASE rate /= NoRate
    <3>1. Synced(p[1], p[2]) /\ p[1].network_available = available
      BY <1>1, <2>2, PostUpdatesSyncs
    <3>2. QED
      BY <3>1 DEF Synced, CanSync
  <2>3. QED
    BY <2>1, <2>2
<1> HIDE DEF p
<1>4. QED
  BY <1>2, <1>3, UpdateControlStateSyncs

----
(***************************************************************************)
(* Steps                                                                   *)
(***************************************************************************)
\* A handler and an observer in agreement are well typed, and paused without network.
LEMMA SyncedFacts ==
  ASSUME NEW h, NEW o, Synced(h, o)
  PROVE  /\ h \in Handlers /\ h.exists
         /\ o \in Answers \cup {0}
         /\ ~h.network_available => o = 0
<1>1. h \in Handlers /\ h.exists
  BY DEF Synced, Handlers
<1>2. o \in {0, h.last_incoming}
  BY DEF Synced, Outgoing
<1>3. ~h.network_available => o = 0
  BY DEF Synced, Outgoing, PauseEncoding
<1>4. QED
  BY <1>1, <1>2, <1>3 DEF Synced, Answers

\* OnNetworkAvailability preserves the invariant, with or without a controller.
LEMMA OnNetworkAvailabilityStep ==
  ASSUME ControllerInv, NEW available \in BOOLEAN, OnNetworkAvailability(available),
         observer' \in BOOLEAN, observer => observer', available => observer'
  PROVE  ControllerInv' /\ network_available' = available
<1>1. PICK rate1 \in Rates, rate2 \in Answers :
        LET creates == ~controller /\ (RegistrationCreates \/ CanCreate(available, observer'))
            h0 == IF creates THEN PostUpdates(NewHandler, observed, rate1)
                  ELSE <<handler, observed>>
            h1 == UpdateNetworkAvailability(h0[1], h0[2], available, rate2)
        IN IF controller \/ creates
           THEN /\ controller' = TRUE
                /\ handler' = h1[1]
                /\ observed' = h1[2]
                /\ queue_task' = (queue_task \/ creates)
                /\ controller_task' = (controller_task \/ creates)
           ELSE UNCHANGED <<controller, handler, observed, queue_task, controller_task>>
  BY DEF OnNetworkAvailability
<1> DEFINE creates == ~controller /\ (RegistrationCreates \/ CanCreate(available, observer'))
           h0 == IF creates THEN PostUpdates(NewHandler, observed, rate1)
                 ELSE <<handler, observed>>
           h1 == UpdateNetworkAvailability(h0[1], h0[2], available, rate2)
<1>2. network_available' = available /\ pacer_paused' = ~available
      /\ queue_too_long' = queue_too_long
  BY DEF OnNetworkAvailability
<1>3. CASE controller \/ creates
  <2>1. Synced(h0[1], h0[2])
    BY <1>3, NewHandlerSyncs DEF ControllerInv
  <2>2. Synced(h1[1], h1[2]) /\ h1[1].network_available = available
    <3> HIDE DEF h0
    <3> QED BY <2>1, UpdateNetworkAvailabilitySyncs
  <2>3. /\ controller' = TRUE /\ handler' = h1[1] /\ observed' = h1[2]
        /\ queue_task' = (queue_task \/ creates)
        /\ controller_task' = (controller_task \/ creates)
    BY <1>1, <1>3
  <2>4. creates \in BOOLEAN /\ observer'
    BY <1>3 DEF ControllerInv, ControllerHasHandler, RegistrationCreates, CanCreate
  <2> HIDE DEF h1, creates
  <2>5. Synced(handler', observed') /\ handler'.network_available = available
    BY <2>2, <2>3
  <2>6. ControllerTypeOK'
    BY <1>2, <2>3, <2>4, <2>5, SyncedFacts DEF ControllerInv, ControllerTypeOK
  <2>7. QED
    BY <1>2, <2>3, <2>4, <2>5, <2>6, SyncedFacts
       DEF ControllerInv, ControllerHasHandler, PausedWithoutNetwork
<1>4. CASE ~(controller \/ creates)
  <2>1. UNCHANGED <<controller, handler, observed, queue_task, controller_task>>
    BY <1>1, <1>4
  <2>2. ~controller /\ ~available
    BY <1>4 DEF CanCreate
  <2>3. QED
    BY <1>2, <2>1, <2>2
       DEF ControllerInv, ControllerTypeOK, ControllerHasHandler, PausedWithoutNetwork
<1>5. QED
  BY <1>3, <1>4

\* A step that leaves network, observer, pacer and controller as they are, and the
\* handler in agreement with the observer.
LEMMA HandlerStep ==
  ASSUME ControllerInv, controller, Synced(handler', observed'),
         handler'.network_available = handler.network_available,
         UNCHANGED <<network_available, observer, controller, queue_task, controller_task,
                     pacer_paused, queue_too_long>>
  PROVE  ControllerInv'
<1>1. ControllerTypeOK'
  BY SyncedFacts DEF ControllerInv, ControllerTypeOK
<1>2. QED
  BY <1>1, SyncedFacts DEF ControllerInv, ControllerHasHandler, PausedWithoutNetwork

\* ReconfigureBandwidthEstimation preserves the invariant, whether it replaces the
\* controller, drops it for lack of a network, or finds none.
LEMMA ReconfigureStep ==
  ASSUME ControllerInv, ReconfigureBandwidthEstimation
  PROVE  ControllerInv'
<1>1. UNCHANGED <<network_available, observer, queue_task, controller_task, pacer_paused,
                  queue_too_long>>
  BY DEF ReconfigureBandwidthEstimation
<1>2. CASE ~controller
  <2>1. UNCHANGED <<controller, handler, observed>>
    BY <1>2 DEF ReconfigureBandwidthEstimation
  <2>2. QED
    BY <1>1, <1>2, <2>1
       DEF ControllerInv, ControllerTypeOK, ControllerHasHandler, PausedWithoutNetwork
<1>3. CASE controller /\ ~CanCreate(network_available, observer)
  <2>1. controller' = FALSE /\ handler' = NoHandler /\ observed' = observed
    BY <1>3 DEF ReconfigureBandwidthEstimation
  <2>2. ~network_available
    BY <1>3 DEF ControllerInv, ControllerHasHandler, CanCreate
  <2>3. ~NoHandler.exists
    BY DEF NoHandler
  <2>4. QED
    BY <1>1, <2>1, <2>2, <2>3
       DEF ControllerInv, ControllerTypeOK, ControllerHasHandler, PausedWithoutNetwork
<1>4. CASE controller /\ CanCreate(network_available, observer)
  <2>1. PICK rate1 \in Rates, rate2 \in Answers, rate3 \in Answers :
          LET created     == PostUpdates(NewHandler, observed, rate1)
              constrained == PostUpdates(created[1], created[2], rate2)
              updated     == UpdateNetworkAvailability(constrained[1], constrained[2],
                                                       network_available, rate3)
          IN /\ handler' = updated[1]
             /\ observed' = updated[2]
             /\ UNCHANGED controller
    BY <1>4 DEF ReconfigureBandwidthEstimation
  <2> DEFINE created     == PostUpdates(NewHandler, observed, rate1)
             constrained == PostUpdates(created[1], created[2], rate2)
             updated     == UpdateNetworkAvailability(constrained[1], constrained[2],
                                                      network_available, rate3)
  <2>2. handler' = updated[1] /\ observed' = updated[2] /\ controller' = controller
    BY <2>1
  <2>3. Synced(created[1], created[2])
    BY NewHandlerSyncs
  <2> HIDE DEF created
  <2>4. Synced(constrained[1], constrained[2])
    BY <2>3, PostUpdatesSyncs DEF Synced
  <2> HIDE DEF constrained
  <2>5. Synced(updated[1], updated[2]) /\ updated[1].network_available = network_available
    BY <2>4, UpdateNetworkAvailabilitySyncs DEF ControllerInv, ControllerTypeOK
  <2> HIDE DEF updated
  <2>6. handler'.network_available = handler.network_available
    BY <1>4, <2>2, <2>5 DEF ControllerInv, ControllerHasHandler
  <2>7. QED
    BY <1>1, <1>4, <2>2, <2>5, <2>6, HandlerStep
<1>5. QED
  BY <1>2, <1>3, <1>4

\* The task that polls the pacer queue preserves the invariant.
LEMMA PacerQueueUpdateTaskStep ==
  ASSUME ControllerInv, PacerQueueUpdateTask
  PROVE  ControllerInv'
<1> DEFINE g == [handler EXCEPT !.queue_too_long = queue_too_long]
<1>1. controller /\ Synced(handler, observed)
  BY DEF PacerQueueUpdateTask, ControllerInv, ControllerHasHandler
<1>2. g \in Handlers /\ g.last_incoming = handler.last_incoming
      /\ g.last_reported = handler.last_reported
      /\ g.network_available = handler.network_available
  BY <1>1 DEF Synced, Handlers, ControllerInv, ControllerTypeOK
<1>3. CanSync(g, observed)
  BY <1>1, <1>2 DEF Synced, CanSync
<1>4. /\ handler' = UpdateControlState(g, observed)[1]
      /\ observed' = UpdateControlState(g, observed)[2]
      /\ UNCHANGED <<network_available, observer, controller, queue_task, controller_task,
                     pacer_paused, queue_too_long>>
  BY DEF PacerQueueUpdateTask
<1> HIDE DEF g
<1>5. QED
  BY <1>1, <1>2, <1>3, <1>4, UpdateControlStateSyncs, HandlerStep

\* A new target rate from the controller preserves the invariant.
LEMMA ControllerUpdateStep ==
  ASSUME ControllerInv, ControllerUpdate
  PROVE  ControllerInv'
<1>1. PICK rate \in Rates : /\ handler' = PostUpdates(handler, observed, rate)[1]
                            /\ observed' = PostUpdates(handler, observed, rate)[2]
  BY DEF ControllerUpdate
<1>2. controller /\ Synced(handler, observed)
  BY DEF ControllerUpdate, ControllerInv
<1>3. UNCHANGED <<network_available, observer, controller, queue_task, controller_task,
                  pacer_paused, queue_too_long>>
  BY DEF ControllerUpdate
<1>4. handler \in Handlers /\ handler.last_reported = observed /\ rate \in Answers
  BY <1>2 DEF Synced, Answers
<1>5. QED
  BY <1>1, <1>2, <1>3, <1>4, PostUpdatesSyncs, HandlerStep

\* A step of Call that changes streams or the state of a channel, and recomputes the
\* availability from what it left.
LEMMA AggregateStep ==
  ASSUME CallInv, UpdateAggregateNetworkState, observer' \in BOOLEAN, observer => observer',
         channel_up' \subseteq Media, posted' \in Seq([media : Media, up : BOOLEAN]),
         network_state' \subseteq Media, streams' \in [Media -> 0 .. MaxStreams],
         \A m \in Media : streams'[m] > 0 => observer'
  PROVE  CallInv'
<1> DEFINE available == AggregateNetworkUp(network_state', streams')
<1>1. available \in BOOLEAN /\ (available => observer')
  BY DEF AggregateNetworkUp
<1>2. OnNetworkAvailability(available) /\ ControllerInv
  BY DEF UpdateAggregateNetworkState, CallInv
<1> HIDE DEF available
<1>3. ControllerInv' /\ network_available' = available
  BY <1>1, <1>2, OnNetworkAvailabilityStep
<1>4. CallTypeOK'
  BY <1>3 DEF ControllerInv, CallTypeOK
<1>5. QED
  BY <1>3, <1>4 DEF CallInv, available

\* The closure that SignalChannelNetworkState posted preserves the invariant.
LEMMA ApplyNetworkStateStep ==
  ASSUME CallInv, ApplyNetworkState
  PROVE  CallInv'
<1>1. posted \in Seq([media : Media, up : BOOLEAN]) /\ posted /= << >>
  BY DEF CallInv, CallTypeOK, ApplyNetworkState
<1>2. Head(posted).media \in Media /\ posted' \in Seq([media : Media, up : BOOLEAN])
  <2> DEFINE States == [media : Media, up : BOOLEAN]
  <2>1. \A s \in States : s.media \in Media
    OBVIOUS
  <2>2. posted \in Seq(States)
    BY <1>1
  <2> HIDE DEF States
  <2>3. Head(posted) \in States /\ Tail(posted) \in Seq(States)
    BY <1>1, <2>2
  <2>4. Head(posted).media \in Media
    BY <2>1, <2>3
  <2>5. posted' = Tail(posted)
    BY DEF ApplyNetworkState
  <2>6. QED
    BY <2>3, <2>4, <2>5 DEF States
<1>3. network_state' \subseteq Media
  BY <1>2 DEF CallInv, CallTypeOK, ApplyNetworkState
<1>4. UNCHANGED <<channel_up, streams, observer>> /\ UpdateAggregateNetworkState
  BY DEF ApplyNetworkState
<1>5. QED
  BY <1>2, <1>3, <1>4, AggregateStep
     DEF CallInv, CallTypeOK, ControllerTypeOK

\* Creating a stream, which starts the call, and destroying one preserve the invariant.
LEMMA StreamStep ==
  ASSUME CallInv, NEW media \in Media, CreateStream(media) \/ DestroyStream(media)
  PROVE  CallInv'
<1>1. /\ UNCHANGED <<channel_up, posted, network_state>> /\ UpdateAggregateNetworkState
  BY DEF CreateStream, DestroyStream
<1>2. streams \in [Media -> 0 .. MaxStreams] /\ observer \in BOOLEAN
      /\ channel_up \subseteq Media /\ posted \in Seq([media : Media, up : BOOLEAN])
      /\ network_state \subseteq Media /\ MaxStreams \in Nat
      /\ \A m \in Media : streams[m] > 0 => observer
  BY MaxStreamsAssumption DEF CallInv, CallTypeOK, ControllerTypeOK
<1>3. CASE CreateStream(media)
  <2>1. streams' \in [Media -> 0 .. MaxStreams] /\ observer' = TRUE
    BY <1>2, <1>3 DEF CreateStream, RegisterTargetTransferRateObserver
  <2>2. QED
    BY <1>1, <1>2, <2>1, AggregateStep
<1>4. CASE DestroyStream(media)
  <2>1. /\ streams' \in [Media -> 0 .. MaxStreams] /\ observer' = observer
        /\ \A m \in Media : streams'[m] > 0 => observer'
    BY <1>2, <1>4 DEF DestroyStream
  <2>2. QED
    BY <1>1, <1>2, <2>1, AggregateStep
<1>5. QED
  BY <1>3, <1>4

\* The network thread touches nothing that the worker thread's invariant is about.
LEMMA SignalChannelNetworkStateStep ==
  ASSUME CallInv, NEW media \in Media, SignalChannelNetworkState(media)
  PROVE  CallInv'
<1>1. UNCHANGED <<network_state, streams, controllerVars>>
  BY DEF SignalChannelNetworkState
<1>2. /\ channel_up' \subseteq Media
      /\ posted' \in Seq([media : Media, up : BOOLEAN])
  BY DEF SignalChannelNetworkState, CallInv, CallTypeOK
<1>3. QED
  BY <1>1, <1>2
     DEF CallInv, CallTypeOK, ControllerInv, ControllerTypeOK, ControllerHasHandler,
         PausedWithoutNetwork, AggregateNetworkUp, controllerVars

\* A step of the controller alone.
LEMMA ControllerOnlyStep ==
  ASSUME CallInv, ControllerInv', UNCHANGED <<callVars, network_available, observer>>
  PROVE  CallInv'
<1>1. CallTypeOK'
  BY DEF CallInv, CallTypeOK, ControllerInv, callVars
<1>2. QED
  BY <1>1 DEF CallInv, AggregateNetworkUp, callVars

\* Every step preserves the invariant of Call.
LEMMA CallNextStep ==
  ASSUME CallInv, [CallNext]_allVars
  PROVE  CallInv'
<1>1. ASSUME NEW media \in Media, SignalChannelNetworkState(media)
      PROVE  CallInv'
  BY <1>1, SignalChannelNetworkStateStep
<1>2. ASSUME NEW media \in Media, CreateStream(media) \/ DestroyStream(media)
      PROVE  CallInv'
  BY <1>2, StreamStep
<1>3. CASE ApplyNetworkState
  BY <1>3, ApplyNetworkStateStep
<1>4. ControllerInv
  BY DEF CallInv
<1>5. CASE Reconfigure
  BY <1>4, <1>5, ReconfigureStep, ControllerOnlyStep
     DEF Reconfigure, ReconfigureBandwidthEstimation
<1>6. CASE PollPacerQueue
  BY <1>4, <1>6, PacerQueueUpdateTaskStep, ControllerOnlyStep
     DEF PollPacerQueue, PacerQueueUpdateTask
<1>7. CASE UpdateController
  BY <1>4, <1>7, ControllerUpdateStep, ControllerOnlyStep
     DEF UpdateController, ControllerUpdate
<1>8. CASE ChangePacerQueue
  <2>1. UNCHANGED <<network_available, observer, controller, handler, queue_task,
                    controller_task, pacer_paused, observed, callVars>>
        /\ queue_too_long' \in BOOLEAN
    BY <1>8 DEF ChangePacerQueue, PacerQueueChange
  <2>2. ControllerInv'
    BY <1>4, <2>1
       DEF ControllerInv, ControllerTypeOK, ControllerHasHandler, PausedWithoutNetwork
  <2>3. QED
    BY <2>1, <2>2, ControllerOnlyStep
<1>9. CASE UNCHANGED allVars
  <2>1. UNCHANGED controllerVars /\ UNCHANGED callVars
    BY <1>9 DEF allVars
  <2>2. ControllerInv'
    BY <1>4, <2>1
       DEF ControllerInv, ControllerTypeOK, ControllerHasHandler, PausedWithoutNetwork,
           controllerVars
  <2>3. QED
    BY <2>1, <2>2, ControllerOnlyStep DEF controllerVars
<1>10. QED
  BY <1>1, <1>2, <1>3, <1>5, <1>6, <1>7, <1>8, <1>9 DEF CallNext

\* A new Call satisfies the invariant.
LEMMA CallInitInv == CallInit => CallInv
<1> SUFFICES ASSUME CallInit PROVE CallInv
  OBVIOUS
<1>1. ControllerInv
  BY DEF CallInit, ControllerInit, ControllerInv, ControllerTypeOK, ControllerHasHandler,
         PausedWithoutNetwork, NoHandler, Answers
<1>2. CallTypeOK
  BY <1>1, MaxStreamsAssumption DEF CallInit, CallTypeOK, ControllerInv
<1>3. /\ \A m \in Media : ~ (streams[m] > 0)
      /\ network_available = FALSE /\ network_state = {}
  BY DEF CallInit, ControllerInit
<1>4. AggregateNetworkUp(network_state, streams) = FALSE
  BY <1>3 DEF AggregateNetworkUp
<1>5. QED
  BY <1>1, <1>2, <1>3, <1>4 DEF CallInv

\* The inductive invariant holds in every state of every behaviour.
LEMMA CallInvAlways == CallSpec => []CallInv
  BY CallInitInv, CallNextStep, PTL DEF CallSpec

----
(***************************************************************************)
(* Results                                                                 *)
(***************************************************************************)
\* Every variable of Call and of its transport controller keeps its type.
THEOREM CallTypeCorrect == CallSpec => []CallTypeOK
<1>1. CallInv => CallTypeOK
  BY DEF CallInv
<1>2. QED
  BY <1>1, CallInvAlways, PTL

\* The controller and its handler come and go together and only with an observer, the
\* RTC_DCHECKs of MaybeCreateControllers and UpdateControlState.
THEOREM HandlerWithController == CallSpec => []ControllerHasHandler
<1>1. CallInv => ControllerHasHandler
  BY DEF CallInv, ControllerInv
<1>2. QED
  BY <1>1, CallInvAlways, PTL

\* Without a network the observer holds no positive rate, however the controller was
\* replaced by ReconfigureBandwidthEstimation in between.
THEOREM EncodersPausedWithoutNetwork == CallSpec => []PausedWithoutNetwork
<1>1. CallInv => PausedWithoutNetwork
  BY DEF CallInv, ControllerInv
<1>2. QED
  BY <1>1, CallInvAlways, PTL

\* The updates CongestionControlHandler::GetUpdate skips are the ones the observer does
\* not need: it always holds what the handler makes of the last target rate.
THEOREM NoUpdateLost == CallSpec => []ObserverUpToDate
<1>1. CallInv => ObserverUpToDate
  BY DEF CallInv, ControllerInv, ObserverUpToDate, Synced
<1>2. QED
  BY <1>1, CallInvAlways, PTL

\* With no media that has both streams and a channel (Call::UpdateAggregateNetworkState),
\* a started call has its pacer paused and its encoders without a rate.
THEOREM CallIdleWithoutMedia == CallSpec => []IdleWithoutMedia
<1>1. CallInv => IdleWithoutMedia
  <2> SUFFICES ASSUME CallInv, observer, \A m \in network_state : streams[m] = 0
               PROVE  pacer_paused /\ observed \in {NoRate, 0}
    BY DEF IdleWithoutMedia
  <2>1. ~AggregateNetworkUp(network_state, streams)
    BY DEF AggregateNetworkUp
  <2>2. ~network_available
    BY <2>1 DEF CallInv
  <2>3. QED
    BY <2>2 DEF CallInv, ControllerInv, PausedWithoutNetwork
<1>2. QED
  BY <1>1, CallInvAlways, PTL
====
