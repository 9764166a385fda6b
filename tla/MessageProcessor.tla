-------------------------- MODULE MessageProcessor --------------------------
(***************************************************************************)
(* message_processor.rs: the worker turns each event it receives into calls*)
(* of the ingest client.  A handler is a short program of calls, each      *)
(* ended by `?`: the first call that fails ends the handler, the event is  *)
(* lost, and what the handler had already changed stays changed.  Several  *)
(* caches spare calls: the open timeline, the declared keys, the timelines *)
(* and publishers whose metadata went out.                                 *)
(*                                                                         *)
(* External, from the way the code uses it: the ingest client sends events *)
(* and metadata to the timeline it opened last; a call that returns an     *)
(* error has changed nothing on the other side.                            *)
(***************************************************************************)
EXTENDS Naturals, Sequences

CONSTANTS
  Events,       \* what the hooks may send, see EventShape
  NoGid,        \* a publisher whose graph id is not known
  NoTimeline,   \* currently_open_timeline: None
  MaxEvents,    \* bound: how many events are received
  MaxFailures   \* bound: how many client calls fail

Timelines == {e.timeline : e \in Events}
Gids == {e.gid : e \in Events} \ {NoGid}

\* The calls each handler makes, in order.  "keys" stands for the declarations
\* of the keys of the event's own attributes, which surround the metadata.
handle_rmw_event ==
  [create_node |-> <<"open", "keys", "node", "keys", "event">>,
   other       |-> <<"open", "keys", "event">>]

handle_message ==
  [publish |-> <<"open", "node", "keys", "gid", "keys", "event">>,
   receive |-> <<"open", "node", "keys", "event">>]

handle_service_event ==
  [send_request |-> <<"open", "service", "keys", "event">>,
   other        |-> <<"open", "keys", "event">>]

Program ==
  [create_node  |-> handle_rmw_event.create_node,
   rmw          |-> handle_rmw_event.other,
   publish      |-> handle_message.publish,
   receive      |-> handle_message.receive,
   send_request |-> handle_service_event.send_request,
   service      |-> handle_service_event.other]

\* kind: which handler (rmw: all RMW events but create_node; service: all
\* service events but send_request); gid: the publisher's graph id.
EventShape ==
  [kind : DOMAIN Program, timeline : Timelines, gid : Gids \cup {NoGid}]

ASSUME EventsAssumption ==
  /\ Events \subseteq EventShape
  /\ NoTimeline \notin Timelines
  /\ MaxEvents \in Nat /\ MaxFailures \in Nat

VARIABLES
  inHand,      \* the event being handled, as a sequence of length 0 or 1
  step,        \* the call of its program that comes next
  attr_key_cache,
  created_timelines,
  sent_timeline_publisher_metadata,
  currently_open_timeline,
  ordering,
  \* The other side of the client.
  bound,       \* the timeline opened last
  record,      \* the events recorded, in order
  named,       \* node metadata: [on |-> timeline, of |-> node's timeline]
  advertised,  \* publisher metadata: [on |-> timeline, of |-> publisher]
  \* Counters and history.
  received,    \* how many events were received
  failures,    \* how many calls failed
  unnamed,     \* timelines whose node metadata failed
  unadvertised \* publishers whose metadata failed

processor == <<attr_key_cache, created_timelines,
               sent_timeline_publisher_metadata, currently_open_timeline,
               ordering>>
backend == <<bound, record, named, advertised>>
history == <<received, failures, unnamed, unadvertised>>
mpVars == <<inHand, step, processor, backend, history>>

Init ==
  /\ inHand = <<>>
  /\ step = 1
  /\ attr_key_cache = {}
  /\ created_timelines = {}
  /\ sent_timeline_publisher_metadata = {}
  /\ currently_open_timeline = NoTimeline
  /\ ordering = 0
  /\ bound = NoTimeline
  /\ record = <<>>
  /\ named = {}
  /\ advertised = {}
  /\ received = 0
  /\ failures = 0
  /\ unnamed = {}
  /\ unadvertised = {}

-----------------------------------------------------------------------------
event == inHand[1]
program == Program[event.kind]

\* The handler is about to make the call (or run the test) `call`.
At(call) == inHand # <<>> /\ program[step] = call

Continue == step' = step + 1 /\ UNCHANGED inHand

\* Mutated end of a handler: the next event starts in the middle.
ReturnKeepsStep == inHand' = <<>> /\ UNCHANGED step

\* Mutated end of a handler: the event is handled again.
ReturnKeeps == UNCHANGED inHand /\ step' = 1

Return == inHand' = <<>> /\ step' = 1

\* The keys of the attributes a handler adds at this point of its program.
keys == <<event.kind, step>>

\* The publisher the event names, as the metadata cache knows it.
publisher == <<event.timeline, event.gid>>

\* message_loop: rx.recv().await returned an event.
Receive(e) ==
  /\ inHand = <<>>
  /\ received < MaxEvents
  /\ inHand' = <<e>>
  /\ received' = received + 1
  /\ UNCHANGED <<step, processor, backend, failures, unnamed, unadvertised>>

\* The tests that decide that no call is needed.

\* Mutated open_timeline: a timeline that was opened once counts as open.
OpenSkippedIfCreated == At("open") /\ event.timeline \in created_timelines

OpenSkipped == At("open") /\ currently_open_timeline = event.timeline
KeysSkipped == At("keys") /\ keys \in attr_key_cache
NodeSkipped == At("node") /\ event.timeline \in created_timelines

\* Mutated handle_message: one publisher per timeline is remembered.
GidSkippedPerTimeline ==
  /\ At("gid")
  /\ \/ event.gid = NoGid
     \/ \E p \in sent_timeline_publisher_metadata : p[1] = event.timeline

GidSkipped ==
  /\ At("gid")
  /\ \/ event.gid = NoGid
     \/ publisher \in sent_timeline_publisher_metadata

\* Mutated handlers: nothing to do here is taken for nothing left to do.
SkipReturns ==
  /\ OpenSkipped \/ KeysSkipped \/ NodeSkipped \/ GidSkipped
  /\ Return
  /\ UNCHANGED <<processor, backend, history>>

Skip ==
  /\ OpenSkipped \/ KeysSkipped \/ NodeSkipped \/ GidSkipped
  /\ Continue
  /\ UNCHANGED <<processor, backend, history>>

\* Mutated open_timeline: the first open also marks the timeline as created.
OpenTimelineMarks ==
  /\ At("open") /\ ~OpenSkipped
  /\ bound' = event.timeline
  /\ currently_open_timeline' = event.timeline
  /\ created_timelines' = created_timelines \cup {event.timeline}
  /\ Continue
  /\ UNCHANGED <<attr_key_cache, sent_timeline_publisher_metadata, ordering,
                 record, named, advertised, history>>

\* open_timeline: client.open_timeline succeeded.
OpenTimeline ==
  /\ At("open") /\ ~OpenSkipped
  /\ bound' = event.timeline
  /\ currently_open_timeline' = event.timeline
  /\ Continue
  /\ UNCHANGED <<attr_key_cache, created_timelines,
                 sent_timeline_publisher_metadata, ordering, record, named,
                 advertised, history>>

\* interned_attr_key: client.declare_attr_key succeeded for what was missing.
DeclareKeys ==
  /\ At("keys") /\ ~KeysSkipped
  /\ attr_key_cache' = attr_key_cache \cup {keys}
  /\ Continue
  /\ UNCHANGED <<created_timelines, sent_timeline_publisher_metadata,
                 currently_open_timeline, ordering, backend, history>>

\* send_timeline_metadata: the timeline is new, its metadata goes out.
SendNodeMetadata ==
  /\ At("node") /\ ~NodeSkipped
  /\ created_timelines' = created_timelines \cup {event.timeline}
  /\ named' = named \cup {[on |-> bound, of |-> event.timeline]}
  /\ Continue
  /\ UNCHANGED <<attr_key_cache, sent_timeline_publisher_metadata,
                 currently_open_timeline, ordering, bound, record, advertised,
                 history>>

\* handle_message: the publisher is new on its timeline.
SendPublisherMetadata ==
  /\ At("gid") /\ ~GidSkipped
  /\ sent_timeline_publisher_metadata' =
        sent_timeline_publisher_metadata \cup {publisher}
  /\ advertised' = advertised \cup {[on |-> bound, of |-> publisher]}
  /\ Continue
  /\ UNCHANGED <<attr_key_cache, created_timelines, currently_open_timeline,
                 ordering, bound, record, named, history>>

\* handle_service_event: the client's guid and service, on every request; the
\* handler remembers nothing of it.
SendServiceMetadata ==
  /\ At("service")
  /\ Continue
  /\ UNCHANGED <<processor, backend, history>>

\* Mutated position: the receipt's number.
PositionOfReceipt == received - 1

\* The position passed to client.event.
Position == ordering

\* client.event succeeded; then the position advances and the handler returns.
RecordEvent ==
  /\ At("event")
  /\ record' = Append(record, [receipt  |-> received,
                               event    |-> event,
                               on       |-> bound,
                               ordering |-> Position])
  /\ ordering' = ordering + 1
  /\ Return
  /\ UNCHANGED <<attr_key_cache, created_timelines,
                 sent_timeline_publisher_metadata, currently_open_timeline,
                 bound, named, advertised, history>>

\* The call the handler is about to make fails and `?` leaves the handler.
\* The two metadata caches are filled before their call, and stay so.
CallFails ==
  /\ inHand # <<>>
  /\ ~(OpenSkipped \/ KeysSkipped \/ NodeSkipped \/ GidSkipped)
  /\ failures < MaxFailures
  /\ failures' = failures + 1
  /\ IF At("node")
       THEN /\ created_timelines' = created_timelines \cup {event.timeline}
            /\ unnamed' = unnamed \cup {event.timeline}
       ELSE UNCHANGED <<created_timelines, unnamed>>
  /\ IF At("gid")
       THEN /\ sent_timeline_publisher_metadata' =
                  sent_timeline_publisher_metadata \cup {publisher}
            /\ unadvertised' = unadvertised \cup {publisher}
       ELSE UNCHANGED <<sent_timeline_publisher_metadata, unadvertised>>
  /\ Return
  /\ UNCHANGED <<attr_key_cache, currently_open_timeline, ordering, backend,
                 received>>

-----------------------------------------------------------------------------
Next ==
  \/ \E e \in Events : Receive(e)
  \/ Skip
  \/ OpenTimeline
  \/ DeclareKeys
  \/ SendNodeMetadata
  \/ SendPublisherMetadata
  \/ SendServiceMetadata
  \/ RecordEvent
  \/ CallFails

Spec == Init /\ [][Next]_mpVars

-----------------------------------------------------------------------------
(* Properties.                                                              *)

Recorded == [receipt  : 1 .. MaxEvents, event : Events,
             on       : Timelines \cup {NoTimeline},
             ordering : 0 .. MaxEvents]

TypeOK ==
  /\ inHand \in Seq(Events) /\ Len(inHand) <= 1
  /\ inHand # <<>> => step \in DOMAIN program
  /\ attr_key_cache \subseteq (DOMAIN Program) \X (1 .. 6)
  /\ created_timelines \subseteq Timelines
  /\ sent_timeline_publisher_metadata \subseteq Timelines \X Gids
  /\ currently_open_timeline \in Timelines \cup {NoTimeline}
  /\ ordering \in 0 .. MaxEvents
  /\ bound \in Timelines \cup {NoTimeline}
  /\ record \in Seq(Recorded)
  /\ named \subseteq [on : Timelines \cup {NoTimeline}, of : Timelines]
  /\ advertised \subseteq
        [on : Timelines \cup {NoTimeline}, of : Timelines \X Gids]
  /\ received \in 0 .. MaxEvents
  /\ failures \in 0 .. MaxFailures
  /\ unnamed \subseteq Timelines
  /\ unadvertised \subseteq Timelines \X Gids

\* Whatever was cached, whatever failed in between: events and metadata land on
\* the timeline of their own node, although the client is told which timeline
\* is meant only when the processor believes another one is open.
OwnTimeline ==
  /\ \A i \in 1 .. Len(record) : record[i].on = record[i].event.timeline
  /\ \A m \in named : m.on = m.of
  /\ \A m \in advertised : m.on = m.of[1]

\* The positions on the backend are 0, 1, 2, ... with no gap and no repetition,
\* also when handlers fail half-way.
GaplessOrdering == \A i \in 1 .. Len(record) : record[i].ordering = i - 1

\* Events are recorded in the order of their receipt, none twice.
RecordedInOrder ==
  \A i, j \in 1 .. Len(record) :
    i < j => record[i].receipt < record[j].receipt

\* An event is lost only to a failed call, and a failed call loses one event:
\* no early return of a cache or a test ends a handler that has more to do.
OnlyFailuresLose == received = Len(record) + failures + Len(inHand)

\* README, "A timeline is created for each ROS node. The timeline's name ...":
\* when a message or the creation of a node is recorded, its timeline has been
\* named, unless the one attempt to name it failed.
NamedBeforeEvents ==
  \A i \in 1 .. Len(record) :
    LET e == record[i].event
    IN e.kind \in {"create_node", "publish", "receive"} =>
         [on |-> e.timeline, of |-> e.timeline] \in named
           \/ e.timeline \in unnamed

\* README, `timeline.ros.publisher_gid.<gid>`: set for "a node that publishes
\* messages using the graph id".  Every publish event with a known gid comes
\* after its publisher was advertised on its node's timeline, unless that
\* attempt failed.
AdvertisedBeforePublish ==
  \A i \in 1 .. Len(record) :
    LET e == record[i].event
        p == <<e.timeline, e.gid>>
    IN e.kind = "publish" /\ e.gid # NoGid =>
         [on |-> e.timeline, of |-> p] \in advertised \/ p \in unadvertised
=============================================================================
