---- MODULE RtpTransportControllerSend ----
(***************************************************************************)
(* The life of the congestion controller in                                *)
(* call/rtp_transport_controller_send.cc, and how its target rate reaches  *)
(* the observer through CongestionControlHandler                           *)
(* (modules/congestion_controller/rtp/control_handler.cc).                 *)
(*                                                                         *)
(* The controller exists only while there is an observer and a network; a  *)
(* reconfiguration replaces it.  Two repeating tasks, started with the     *)
(* first controller, poll the pacer queue and the controller.  Everything  *)
(* runs on one task queue, so each call is one step.  What the controller  *)
(* (goog_cc) answers is arbitrary: after any call it may or may not have a *)
(* new target rate, except that the first process interval always has one, *)
(* because GoogCcNetworkController starts from an infinite round trip time *)
(* that the first call sees changed.                                       *)
(***************************************************************************)
EXTENDS Integers

CONSTANTS
  Rates,   \* target rates; 0 is what a paused encoder gets
  NoRate   \* no value (std::nullopt)

ASSUME RatesAssumption == Rates \subseteq Nat \ {0} /\ NoRate \notin Nat

VARIABLES
  network_available,   \* network_available_
  observer,            \* observer_ is set
  controller,          \* controller_ is not null
  handler,             \* *control_handler_, or NoHandler
  queue_task,          \* pacer_queue_update_task_ is running
  controller_task,     \* controller_task_ is running
  pacer_paused,        \* the pacer is paused
  queue_too_long,      \* the expected queue time of the pacer is over the limit
  observed             \* the last target rate given to the observer

controllerVars ==
  <<network_available, observer, controller, handler, queue_task, controller_task,
   pacer_paused, queue_too_long, observed>>

NoHandler == [exists |-> FALSE]

NewHandler == [exists |-> TRUE, last_incoming |-> NoRate, last_reported |-> NoRate,
               network_available |-> TRUE, queue_too_long |-> FALSE]

(***************************************************************************)
(* CongestionControlHandler                                                *)
(***************************************************************************)
\* Mutant of PauseEncoding: the network state is ignored.
PauseEncodingNoNetwork(h) == h.queue_too_long

PauseEncoding(h) == ~h.network_available \/ h.queue_too_long

Outgoing(h) == IF PauseEncoding(h) THEN 0 ELSE h.last_incoming

\* Mutant of HasUpdate: the rate is compared before pausing.
HasUpdateIncoming(h) == h.last_incoming /= NoRate /\ h.last_reported /= h.last_incoming

\* GetUpdate returns a rate only if it differs from the last one reported.  (A
\* change of loss rate or round trip time at the same rate is also reported;
\* the rate is what is modelled.)
HasUpdate(h) == h.last_incoming /= NoRate /\ h.last_reported /= Outgoing(h)

\* Mutant of UpdateControlState: GetUpdate pauses last_incoming_ itself, not a copy.
UpdateControlStateInPlace(h, o) ==
  IF HasUpdate(h)
  THEN <<[h EXCEPT !.last_incoming = Outgoing(h), !.last_reported = Outgoing(h)], Outgoing(h)>>
  ELSE <<h, o>>

\* UpdateControlState for a handler h and the rate o the observer has:
\* <<handler, observed>> afterwards.
UpdateControlState(h, o) ==
  IF HasUpdate(h)
  THEN <<[h EXCEPT !.last_reported = Outgoing(h)], Outgoing(h)>>
  ELSE <<h, o>>

\* PostUpdates with a target rate, or with none.
PostUpdates(h, o, rate) ==
  IF rate = NoRate THEN <<h, o>>
  ELSE UpdateControlState([h EXCEPT !.last_incoming = rate], o)

(***************************************************************************)
(* Helpers of RtpTransportControllerSend                                   *)
(***************************************************************************)
\* Mutant of UpdateNetworkAvailability: the handler is not told.
UpdateNetworkAvailabilityForgets(h, o, available, rate) ==
  LET posted == PostUpdates(h, o, rate)
  IN UpdateControlState(posted[1], posted[2])

UpdateNetworkAvailability(h, o, available, rate) ==
  LET posted == PostUpdates([h EXCEPT !.network_available = available], o, rate)
  IN UpdateControlState(posted[1], posted[2])

\* MaybeCreateControllers creates a controller if it can, runs one process
\* interval on it and starts the repeating tasks.
CanCreate(available, has_observer) == available /\ has_observer

\* What an update of goog_cc carries: a target rate, if one of its estimates changed.
Answers == Rates \cup {NoRate}

(***************************************************************************)
(* Operations                                                              *)
(***************************************************************************)
\* RegisterTargetTransferRateObserver, called once from Call::EnsureStarted.
RegisterTargetTransferRateObserver ==
  observer' = TRUE

\* Its call of MaybeCreateControllers, before OnNetworkAvailability in the same step.
\* ControllerHasHandler shows that there is no network yet.
RegistrationCreates == ~observer /\ CanCreate(network_available, observer')

\* OnNetworkAvailability, for the observer there is when it is called.
OnNetworkAvailability(available) ==
  /\ network_available' = available
  /\ pacer_paused' = ~available
  /\ \E rate1 \in Rates, rate2 \in Answers :
       LET creates == ~controller /\ (RegistrationCreates \/ CanCreate(available, observer'))
           h0 == IF creates THEN PostUpdates(NewHandler, observed, rate1)
                 ELSE <<handler, observed>>
           h1 == UpdateNetworkAvailability(h0[1], h0[2], available, rate2)
       IN IF controller \/ creates
          THEN /\ controller' = TRUE
               /\ handler' = h1[1]
               /\ observed' = h1[2]
               /\ queue_task' = (queue_task \/ creates)
               /\ controller_task' = (controller_task \/ creates)
          ELSE UNCHANGED <<controller, handler, observed, queue_task, controller_task>>
  /\ UNCHANGED queue_too_long

\* ReconfigureBandwidthEstimation replaces the controller; without a network
\* there is none afterwards.  rate2 stands for the answers to the two calls that
\* pass on the constraints and the stream configuration, of which the last counts.
ReconfigureBandwidthEstimation ==
  /\ IF ~controller
     THEN UNCHANGED <<controller, handler, observed>>
     ELSE IF ~CanCreate(network_available, observer)
     THEN /\ controller' = FALSE
          /\ handler' = NoHandler
          /\ UNCHANGED observed
     ELSE \E rate1 \in Rates, rate2, rate3 \in Answers :
            LET created     == PostUpdates(NewHandler, observed, rate1)
                constrained == PostUpdates(created[1], created[2], rate2)
                updated     == UpdateNetworkAvailability(constrained[1], constrained[2],
                                                         network_available, rate3)
            IN /\ handler' = updated[1]
               /\ observed' = updated[2]
               /\ UNCHANGED controller
  /\ UNCHANGED <<network_available, observer, queue_task, controller_task,
                 pacer_paused, queue_too_long>>

\* Mutant of PacerQueueUpdateTask: once the queue was too long it stays so.
PacerQueueUpdateTaskSticky ==
  /\ queue_task
  /\ handler.exists
  /\ LET long == handler.queue_too_long \/ queue_too_long
         updated == UpdateControlState([handler EXCEPT !.queue_too_long = long], observed)
     IN handler' = updated[1] /\ observed' = updated[2]
  /\ UNCHANGED <<network_available, observer, controller, queue_task,
                 controller_task, pacer_paused, queue_too_long>>

\* The task started in StartProcessPeriodicTasks that polls the pacer queue.  It
\* uses the handler without looking whether there is one; the steps it takes
\* without one are not defined (TasksHaveController says when they would come).
PacerQueueUpdateTask ==
  /\ queue_task
  /\ handler.exists
  /\ LET updated == UpdateControlState([handler EXCEPT !.queue_too_long = queue_too_long],
                                       observed)
     IN handler' = updated[1] /\ observed' = updated[2]
  /\ UNCHANGED <<network_available, observer, controller, queue_task,
                 controller_task, pacer_paused, queue_too_long>>

\* UpdateControllerWithTimeInterval from controller_task_, and every other call
\* that ends in PostUpdates of what the controller answers (sent packets,
\* feedback, remote estimates, loss reports, constraints, stream configuration).
ControllerUpdate ==
  /\ controller
  /\ \E rate \in Rates :
       LET posted == PostUpdates(handler, observed, rate)
       IN handler' = posted[1] /\ observed' = posted[2]
  /\ UNCHANGED <<network_available, observer, controller, queue_task,
                 controller_task, pacer_paused, queue_too_long>>

\* ExpectedQueueTime of the pacer grows over kMaxExpectedQueueLength or falls below it.
PacerQueueChange ==
  /\ queue_too_long' = ~queue_too_long
  /\ UNCHANGED <<network_available, observer, controller, handler, queue_task,
                 controller_task, pacer_paused, observed>>

ControllerInit ==
  /\ network_available = FALSE
  /\ observer = FALSE
  /\ controller = FALSE
  /\ handler = NoHandler
  /\ queue_task = FALSE
  /\ controller_task = FALSE
  /\ pacer_paused = FALSE
  /\ queue_too_long = FALSE
  /\ observed = NoRate

(***************************************************************************)
(* Properties                                                              *)
(***************************************************************************)
Handlers == [exists : {TRUE}, last_incoming : Answers, last_reported : Answers \cup {0},
             network_available : BOOLEAN, queue_too_long : BOOLEAN]

ControllerTypeOK ==
  /\ network_available \in BOOLEAN
  /\ observer \in BOOLEAN
  /\ controller \in BOOLEAN
  /\ handler \in Handlers \cup {NoHandler}
  /\ queue_task \in BOOLEAN
  /\ controller_task \in BOOLEAN
  /\ pacer_paused \in BOOLEAN
  /\ queue_too_long \in BOOLEAN
  /\ observed \in Answers \cup {0}

\* The controller and its handler come and go together, and only with an
\* observer to report to (the RTC_DCHECKs in MaybeCreateControllers and
\* UpdateControlState), for which there is no network before there is an
\* observer; the handler knows whether there is a network.
ControllerHasHandler ==
  /\ handler.exists <=> controller
  /\ controller => observer
  /\ network_available => observer
  /\ controller => handler.network_available = network_available

\* While there is no network the observer never holds a positive rate: the
\* encoders are paused, whatever the controller computed, and however it was
\* replaced in between.
PausedWithoutNetwork == ~network_available => observed \in {NoRate, 0}

\* Once the controller has given a target rate, the observer holds exactly what
\* the handler makes of it, so skipping unchanged updates loses none, also
\* after the handler was replaced and its memory of the last report with it.
ObserverUpToDate ==
  controller /\ handler.last_incoming /= NoRate => observed = Outgoing(handler)

\* The RTC_DCHECK(controller_) in UpdateControllerWithTimeInterval: when a
\* repeating task runs there is a controller, and a handler.
TasksHaveController == queue_task \/ controller_task => controller
====
