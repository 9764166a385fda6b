--------------------------- MODULE TracePipeline ----------------------------
(***************************************************************************)
(* From the hooks to the backend: HookChannel and MessageProcessor put     *)
(* together.  The event the worker has in hand is the one its handler runs *)
(* for; the handler's calls are steps of their own, during which the hooks *)
(* go on sending into the channel.                                         *)
(*                                                                         *)
(* An element of Occurrences is one event a hook sends; Shape says what it *)
(* is.  A node's hooks run in the order the application creates and uses   *)
(* it: its creation is sent before anything else about it.                 *)
(***************************************************************************)
EXTENDS Naturals, Sequences, FiniteSets

CONSTANTS
  Threads, BufferSize,        \* of HookChannel
  NoGid, NoTimeline,          \* of MessageProcessor
  MaxFailures,                \* bound: how many client calls fail
  Occurrences,                \* the events the hooks send
  Shape                       \* what each of them is, see MessageProcessor

ASSUME ShapeAssumption == DOMAIN Shape = Occurrences /\ IsFiniteSet(Occurrences)

VARIABLES
  queue, worker, inHand, pc, printedError, sawPrinted, exited, offered,
  accepted, handled, lostFull, lostClosed, fullReports, saidFailed,
  step, attr_key_cache, created_timelines, sent_timeline_publisher_metadata,
  currently_open_timeline, ordering, bound, record, named, advertised, failures,
  unnamed, unadvertised

Channel == INSTANCE HookChannel WITH Events <- Occurrences

Handler ==
  INSTANCE MessageProcessor WITH
    Events    <- {Shape[o] : o \in Occurrences},
    MaxEvents <- Cardinality(Occurrences),
    inHand    <- [i \in 1 .. Len(inHand) |-> Shape[inHand[i]]],
    received  <- Len(handled) + Len(inHand)

channel == <<queue, worker, inHand, pc, printedError, sawPrinted, exited,
             offered, accepted, handled, lostFull, lostClosed, fullReports,
             saidFailed>>
handler == <<step, attr_key_cache, created_timelines,
             sent_timeline_publisher_metadata, currently_open_timeline,
             ordering, bound, record, named, advertised, failures, unnamed,
             unadvertised>>
vars == <<channel, handler>>

Init == Channel!Init /\ Handler!Init

-----------------------------------------------------------------------------
Creation(o) == Shape[o].kind = "create_node"

\* Every event is about a node, and every node is created.
ASSUME EventsAssumption ==
  /\ \A o \in Occurrences : Shape[o] \in Handler!EventShape
  /\ \A o \in Occurrences : \E c \in Occurrences :
       Creation(c) /\ Shape[c].timeline = Shape[o].timeline
  /\ NoTimeline \notin Handler!Timelines
  /\ BufferSize \in Nat \ {0} /\ MaxFailures \in Nat

\* The creation of the node o is about has been sent.
NodeAnnounced(o) ==
  \A c \in Occurrences :
    Creation(c) /\ Shape[c].timeline = Shape[o].timeline => c \in offered

\* A hook passes event o to Sender::send.
HookSends(t, o) ==
  /\ Creation(o) \/ NodeAnnounced(o)
  /\ \/ Channel!SendAccepted(t, o)
     \/ Channel!SendFull(t, o)
     \/ Channel!SendClosed(t, o)
  /\ UNCHANGED handler

HookReports(t) == Channel!Reporting(t) /\ UNCHANGED handler

FirstUse == Channel!SenderNew /\ UNCHANGED handler

\* The worker has connected, or has failed to and goes away.
WorkerStarts ==
  /\ \/ Channel!Connected
     \/ Channel!InitFailed
     \/ Channel!DropReceiver
  /\ UNCHANGED handler

\* message_loop takes the next event and enters its handler.
WorkerReceives ==
  /\ Channel!Receive
  /\ \E o \in Occurrences : inHand' = <<o>> /\ Handler!Receive(Shape[o])

\* A call of the handler that does not end it.
WorkerCalls ==
  /\ ~exited
  /\ UNCHANGED channel
  /\ \/ Handler!Skip
     \/ Handler!OpenTimeline
     \/ Handler!DeclareKeys
     \/ Handler!SendNodeMetadata
     \/ Handler!SendPublisherMetadata
     \/ Handler!SendServiceMetadata

\* The handler returns, with the event recorded or with an error.
WorkerReturns ==
  /\ Channel!HandlerReturned
  /\ Handler!RecordEvent \/ Handler!CallFails

ProcessExits == Channel!Exit /\ UNCHANGED handler

Next ==
  \/ \E t \in Threads, o \in Occurrences : HookSends(t, o)
  \/ \E t \in Threads : HookReports(t)
  \/ FirstUse
  \/ WorkerStarts
  \/ WorkerReceives
  \/ WorkerCalls
  \/ WorkerReturns
  \/ ProcessExits

Spec == Init /\ [][Next]_vars

\* The fairness of HookChannel, with the handler's calls in the place of its
\* one step: the worker thread keeps running and its calls end.
Fairness ==
  /\ \A t \in Threads : WF_vars(HookReports(t))
  /\ WF_vars(WorkerStarts)
  /\ WF_vars(WorkerReceives)
  /\ WF_vars(WorkerCalls \/ WorkerReturns)

FairSpec == Spec /\ Fairness

-----------------------------------------------------------------------------
(* Properties.                                                              *)

TypeOK == Channel!TypeOK /\ Handler!TypeOK

\* Every event a hook ever sent is accounted for: dropped at the door, waiting,
\* in hand, recorded, or lost to one failed call.
EveryEventAccountedFor ==
  /\ Cardinality(offered) =
        Len(accepted) + Cardinality(lostFull) + Cardinality(lostClosed)
  /\ worker # "terminated" =>
        Len(accepted) = Len(record) + failures + Len(inHand) + Len(queue)

\* The backend holds accepted events only, each as the hook sent it, in the
\* order of acceptance, each once.
RecordFollowsAcceptance ==
  /\ \A i \in 1 .. Len(record) :
        /\ record[i].receipt <= Len(accepted)
        /\ record[i].event = Shape[accepted[record[i].receipt]]
  /\ \A i, j \in 1 .. Len(record) :
        i < j => record[i].receipt < record[j].receipt

Named(timeline) == [on |-> timeline, of |-> timeline] \in named

\* An event on a timeline without a name proves that the creation of its node
\* was dropped by a full channel, or that a call failed: neither the order of
\* the hooks, the channel nor the caches of the processor can do it.
NamelessMeansCreationLost ==
  \A i \in 1 .. Len(record) :
    LET timeline == record[i].event.timeline
    IN ~Named(timeline) =>
         \/ failures > 0
         \/ \E c \in lostFull : Creation(c) /\ Shape[c].timeline = timeline

\* An accepted event is recorded or fails, unless the worker never connects or
\* the process exits: nothing behind it in the channel or in the caches of the
\* handler can hold it up for ever.
AcceptedReachesBackend ==
  \A k \in 1 .. Cardinality(Occurrences) :
    Len(accepted) >= k
      ~> Len(record) + failures >= k \/ worker = "terminated" \/ exited

\* README, "A timeline is created for each ROS node. The timeline's name is
\* created by combining the node's namespace and name": when every event was
\* sent and handled, the timelines on the backend have names.  The code does
\* not keep this: only the creation of a node and its messages carry the name,
\* and the one event that carries it for a node without topics may be dropped.
TimelinesHaveNames ==
  /\ offered = Occurrences
  /\ worker = "receiving" /\ queue = <<>>
  => \A i \in 1 .. Len(record) : Named(record[i].event.timeline)
=============================================================================
