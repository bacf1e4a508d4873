---- MODULE CallNetworkState ----
(***************************************************************************)
(* Call (call/call.cc) on top of RtpTransportControllerSend: the network   *)
(* counts as available while some kind of media has streams and its        *)
(* channel is up.  Channels go up and down on the network thread, which    *)
(* posts the change to the worker thread; streams are created, destroyed   *)
(* and everything else happens on the worker thread, in between.           *)
(***************************************************************************)
EXTENDS RtpTransportControllerSend, Sequences

CONSTANTS
  Media,        \* audio and video
  MaxStreams,   \* bound: streams of one kind of media
  MaxPosted     \* bound: closures waiting for the worker thread

ASSUME MaxStreamsAssumption == MaxStreams \in Nat
ASSUME MaxPostedAssumption == MaxPosted \in Nat

VARIABLES
  channel_up,      \* on the network thread: the kinds of media whose channel is up
  posted,          \* posted to the worker thread by SignalChannelNetworkState
  network_state,   \* audio_network_state_ and video_network_state_: kinds that are up
  streams          \* how many send and receive streams there are of each kind

callVars == <<channel_up, posted, network_state, streams>>

allVars == <<controllerVars, callVars>>

\* Mutant of AggregateNetworkUp: channels without streams count.
AggregateNetworkUpAnyChannel(up, strs) == up /= {}

AggregateNetworkUp(up, strs) == \E m \in up : strs[m] > 0

\* Call::UpdateAggregateNetworkState tells the transport controller, also when
\* nothing changed.
UpdateAggregateNetworkState ==
  OnNetworkAvailability(AggregateNetworkUp(network_state', streams'))

\* The channel of one kind of media changes state; the worker thread is told.
SignalChannelNetworkState(media) ==
  /\ Len(posted) < MaxPosted
  /\ channel_up' = IF media \in channel_up THEN channel_up \ {media}
                                           ELSE channel_up \cup {media}
  /\ posted' = Append(posted, [media |-> media, up |-> media \in channel_up'])
  /\ UNCHANGED <<network_state, streams, controllerVars>>

\* Mutant of ApplyNetworkState: the newest closure runs first.
ApplyNetworkStateNewestFirst ==
  /\ posted /= << >>
  /\ LET state == posted[Len(posted)]
     IN network_state' = IF state.up THEN network_state \cup {state.media}
                                     ELSE network_state \ {state.media}
  /\ posted' = SubSeq(posted, 1, Len(posted) - 1)
  /\ UNCHANGED <<channel_up, streams, observer>>
  /\ UpdateAggregateNetworkState

\* The closure SignalChannelNetworkState posted.
ApplyNetworkState ==
  /\ posted /= << >>
  /\ LET state == Head(posted)
     IN network_state' = IF state.up THEN network_state \cup {state.media}
                                     ELSE network_state \ {state.media}
  /\ posted' = Tail(posted)
  /\ UNCHANGED <<channel_up, streams, observer>>
  /\ UpdateAggregateNetworkState

\* CreateAudioSendStream and its three siblings; EnsureStarted comes first.
CreateStream(media) ==
  /\ streams[media] < MaxStreams
  /\ RegisterTargetTransferRateObserver
  /\ streams' = [streams EXCEPT ![media] = @ + 1]
  /\ UNCHANGED <<channel_up, posted, network_state>>
  /\ UpdateAggregateNetworkState

DestroyStream(media) ==
  /\ streams[media] > 0
  /\ streams' = [streams EXCEPT ![media] = @ - 1]
  /\ UNCHANGED <<channel_up, posted, network_state, observer>>
  /\ UpdateAggregateNetworkState

Reconfigure == ReconfigureBandwidthEstimation /\ UNCHANGED callVars

PollPacerQueue == PacerQueueUpdateTask /\ UNCHANGED callVars

UpdateController == ControllerUpdate /\ UNCHANGED callVars

ChangePacerQueue == PacerQueueChange /\ UNCHANGED callVars

CallInit ==
  /\ ControllerInit
  /\ channel_up = {}
  /\ posted = << >>
  /\ network_state = {}
  /\ streams = [m \in Media |-> 0]

CallNext ==
  \/ \E media \in Media : \/ SignalChannelNetworkState(media)
                          \/ CreateStream(media)
                          \/ DestroyStream(media)
  \/ ApplyNetworkState
  \/ Reconfigure
  \/ PollPacerQueue
  \/ UpdateController
  \/ ChangePacerQueue

\* The worker thread runs what is posted to it, and the repeating task that
\* polls the pacer queue runs every kPacerQueueUpdateInterval.
CallFairness ==
  /\ WF_allVars(ApplyNetworkState)
  /\ WF_allVars(PollPacerQueue)

CallSpec == CallInit /\ [][CallNext]_allVars /\ CallFairness

(***************************************************************************)
(* Properties                                                              *)
(***************************************************************************)
CallTypeOK ==
  /\ ControllerTypeOK
  /\ channel_up \subseteq Media
  /\ posted \in Seq([media : Media, up : BOOLEAN])
  /\ network_state \subseteq Media
  /\ streams \in [Media -> 0 .. MaxStreams]

\* Encoders and pacer run only while a kind of media that has streams has a
\* channel up, as far as the worker thread knows: with no such media the pacer
\* is paused and the observer holds no positive rate.
IdleWithoutMedia ==
  observer /\ (\A m \in network_state : streams[m] = 0)
    => pacer_paused /\ observed \in {NoRate, 0}

\* If the channels stay as they are and streams stay, the transport controller
\* ends up with what the network thread sees: no posted change is lost or
\* overtaken by a stream coming or going.
AvailabilityConverges ==
  \A up \in SUBSET Media :
    <>[](channel_up = up /\ \A m \in Media : streams[m] > 0)
      => <>[](network_available <=> up /= {})

\* A long pacer queue stops the encoders only for a while: if the network
\* stays up and the queue stays short, the observer ends up with a positive
\* rate for good.
EncoderResumes ==
  <>[](network_available /\ ~queue_too_long) => <>[](observed \in Rates)
====
