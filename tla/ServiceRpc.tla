----------------------------- MODULE ServiceRpc -----------------------------
(***************************************************************************)
(* A service call as the trace shows it.  The two sides of a call report    *)
(* four events from hooks that run after the real rmw functions, in threads *)
(* and processes of their own (hooks.rs); each process hands its events to  *)
(* the backend through a bounded channel (message_processor.rs), where the  *)
(* client's guid and the sequence number of the request connect the two     *)
(* sides.                                                                   *)
(*                                                                         *)
(* A call is a client and a sequence number, which is what rmw identifies   *)
(* it by.  The channel and the processor are taken from HookChannel and     *)
(* MessageProcessor as what they promise: an event is dropped only when the *)
(* channel is full, the others are handled in order, and a failing call of  *)
(* the ingest client costs the rest of one event.                           *)
(***************************************************************************)
EXTENDS Naturals, Sequences, FiniteSets

CONSTANTS
  Clients,      \* service clients; a client stands for its guid
  Server,       \* the service
  Nodes,        \* nodes; a node stands for its timeline
  Node,         \* the node of each endpoint
  Processes,    \* processes
  Process,      \* the process of each node
  Calls,        \* bound: the calls that may be made, <<client, number>>
  MaxCalls,     \* bound: how many of them are made
  Registered,   \* the sets of endpoints that may have an entry in their registry
  Capacity,     \* CONFIG.buffer_size
  MaxFailures   \* bound: how many calls of the ingest client fail

Endpoints == Clients \cup {Server}

ASSUME EndpointsAssumption ==
  /\ Server \notin Clients
  /\ Node \in [Endpoints -> Nodes]
  /\ Process \in [Nodes -> Processes]
  /\ Calls \subseteq Clients \X Nat
  /\ Registered \subseteq SUBSET Endpoints
  /\ Capacity \in Nat /\ MaxFailures \in Nat

VARIABLES
  tracked,    \* the endpoints that have an entry in their registry
  sender,     \* per call: where rmw_send_request is
  server,     \* per call: where the service is with it
  taker,      \* per call: where rmw_take_response is
  queue,      \* per process: the events in its channel
  metadata,   \* backend: which timelines carry which client_guid
  recorded,   \* backend: the events, see Attributes
  lost,       \* history: the events that were dropped or not handled to the end
  failures    \* how many calls of the ingest client have failed

vars == <<tracked, sender, server, taker, queue, metadata, recorded, lost,
          failures>>

ClientOf(call) == call[1]
SequenceOf(call) == call[2]
Made == {call \in Calls : sender[call] # "idle"}

Init ==
  /\ tracked \in Registered
  /\ sender = [call \in Calls |-> "idle"]
  /\ server = [call \in Calls |-> "idle"]
  /\ taker = [call \in Calls |-> "idle"]
  /\ queue = [p \in Processes |-> <<>>]
  /\ metadata = {}
  /\ recorded = {}
  /\ lost = {}
  /\ failures = 0

-----------------------------------------------------------------------------
(* Events.                                                                  *)

ClientSide == {"send_request", "recv_response"}
ServerSide == {"recv_request", "send_response"}
ServiceEventType == ClientSide \cup ServerSide

opposite(type) ==
  CASE type = "send_request"  -> "recv_request"
    [] type = "recv_request"  -> "send_request"
    [] type = "send_response" -> "recv_response"
    [] type = "recv_response" -> "send_response"

\* What a hook sends.  `call' is the call it is about (history).
ServiceEvent(type, call, endpoint, client_guid, sequence_id) ==
  [event_type |-> type, timeline |-> Node[endpoint],
   client_guid |-> client_guid, sequence_id |-> sequence_id, call |-> call]

Event == [event_type : ServiceEventType, timeline : Nodes,
          client_guid : Clients, sequence_id : Nat, call : Calls]

\* The endpoint on whose behalf an event is sent.
EndpointOf(event) ==
  IF event.event_type \in ClientSide THEN ClientOf(event.call) ELSE Server

\* Mutated: one event more than the buffer holds.
HasRoomOffByOne(p) == Len(queue[p]) <= Capacity

HasRoom(p) == Len(queue[p]) < Capacity

\* SEND_CH.send, in the process of the endpoint.
Send(event) ==
  LET p == Process[event.timeline]
  IN \/ /\ HasRoom(p)
        /\ queue' = [queue EXCEPT ![p] = Append(@, event)]
        /\ UNCHANGED lost
     \/ /\ ~HasRoom(p)
        /\ lost' = lost \cup {event}
        /\ UNCHANGED queue

\* A hook returns at once if its endpoint has no entry.
Report(endpoint, event) ==
  /\ \/ endpoint \in tracked /\ Send(event)
     \/ endpoint \notin tracked /\ UNCHANGED <<queue, lost>>
  /\ UNCHANGED <<tracked, metadata, recorded, failures>>

Unobserved == UNCHANGED <<tracked, queue, metadata, recorded, lost, failures>>

-----------------------------------------------------------------------------
(* The client.  A request or a response may never arrive.                   *)

\* The real rmw_send_request returned RMW_RET_OK and the number it gave the
\* request (external).
RealSendRequest(call) ==
  /\ sender[call] = "idle"
  /\ \A earlier \in Calls :
       ClientOf(earlier) = ClientOf(call) /\ SequenceOf(earlier) < SequenceOf(call)
         => earlier \in Made
  /\ Cardinality(Made) < MaxCalls
  /\ sender' = [sender EXCEPT ![call] = "sent"]
  /\ UNCHANGED <<server, taker>>
  /\ Unobserved

modality_after_rmw_send_request(call) ==
  /\ sender[call] = "sent"
  /\ sender' = [sender EXCEPT ![call] = "done"]
  /\ Report(ClientOf(call), ServiceEvent("send_request", call, ClientOf(call),
                                         ClientOf(call), SequenceOf(call)))
  /\ UNCHANGED <<server, taker>>

\* Mutated: a response is reported only after its request was.
modality_after_rmw_take_response_in_turn(call) ==
  /\ server[call] \in {"answered", "done"}
  /\ taker[call] = "idle"
  /\ taker' = [taker EXCEPT ![call] = "done"]
  /\ IF sender[call] = "done"
       THEN Report(ClientOf(call), ServiceEvent("recv_response", call, ClientOf(call),
                                                ClientOf(call), SequenceOf(call)))
       ELSE Unobserved
  /\ UNCHANGED <<sender, server>>

\* The real rmw_take_response took the response to the call, maybe in another
\* thread while the hook of rmw_send_request has yet to run; the hook follows in
\* the same thread.  The guid is the one inside the client, the number comes with
\* the response.
modality_after_rmw_take_response(call) ==
  /\ server[call] \in {"answered", "done"}
  /\ taker[call] = "idle"
  /\ taker' = [taker EXCEPT ![call] = "done"]
  /\ Report(ClientOf(call), ServiceEvent("recv_response", call, ClientOf(call),
                                         ClientOf(call), SequenceOf(call)))
  /\ UNCHANGED <<sender, server>>

-----------------------------------------------------------------------------
(* The service.                                                             *)

\* The real rmw_take_request took the request, and the hook follows in the same
\* thread.  The guid and the number come with the request.
modality_after_rmw_take_request(call) ==
  /\ sender[call] # "idle"
  /\ server[call] = "idle"
  /\ server' = [server EXCEPT ![call] = "serving"]
  /\ Report(Server, ServiceEvent("recv_request", call, Server,
                                 ClientOf(call), SequenceOf(call)))
  /\ UNCHANGED <<sender, taker>>

\* The real rmw_send_response returned RMW_RET_OK (external).
RealSendResponse(call) ==
  /\ server[call] = "serving"
  /\ server' = [server EXCEPT ![call] = "answered"]
  /\ UNCHANGED <<sender, taker>>
  /\ Unobserved

modality_after_rmw_send_response(call) ==
  /\ server[call] = "answered"
  /\ server' = [server EXCEPT ![call] = "done"]
  /\ Report(Server, ServiceEvent("send_response", call, Server,
                                 ClientOf(call), SequenceOf(call)))
  /\ UNCHANGED <<sender, taker>>

-----------------------------------------------------------------------------
(* The processor of a process.                                              *)

\* Mutated: a call is named by a guid of the node of its client.
AttributesByNode(event) ==
  LET guid == CHOOSE c \in Clients : Node[c] = Node[ClientOf(event.call)]
  IN [event_type |-> event.event_type, timeline |-> event.timeline,
      internal |-> IF event.event_type \in ClientSide
                     THEN {<<guid, event.sequence_id>>} ELSE {},
      remote   |-> IF event.event_type \in ServerSide
                     THEN {<<opposite(event.event_type), guid, event.sequence_id>>}
                     ELSE {},
      call |-> event.call]

\* The attributes that connect the sides: the client's event names its call,
\* the service's names the event of the client it goes with.
Attributes(event) ==
  [event_type |-> event.event_type, timeline |-> event.timeline,
   internal |-> IF event.event_type \in ClientSide
                  THEN {<<event.client_guid, event.sequence_id>>} ELSE {},
   remote   |-> IF event.event_type \in ServerSide
                  THEN {<<opposite(event.event_type), event.client_guid,
                          event.sequence_id>>} ELSE {},
   call |-> event.call]

\* Mutated: only a client's first request names the timeline.
TimelineMetadataOnce(event) ==
  IF event.event_type = "send_request" /\ event.sequence_id = 1
    THEN {<<event.timeline, event.client_guid>>} ELSE {}

\* What send_request tells the backend of the timeline, every time.
TimelineMetadata(event) ==
  IF event.event_type = "send_request" THEN {<<event.timeline, event.client_guid>>}
  ELSE {}

Take(p) ==
  /\ queue[p] # <<>>
  /\ queue' = [queue EXCEPT ![p] = Tail(@)]
  /\ UNCHANGED <<tracked, sender, server, taker>>

handle_service_event(p) ==
  /\ Take(p)
  /\ metadata' = metadata \cup TimelineMetadata(Head(queue[p]))
  /\ recorded' = recorded \cup {Attributes(Head(queue[p]))}
  /\ UNCHANGED <<lost, failures>>

\* A call of the ingest client fails, before or after the timeline's metadata.
HandlingFails(p) ==
  /\ failures < MaxFailures
  /\ Take(p)
  /\ \/ UNCHANGED metadata
     \/ metadata' = metadata \cup TimelineMetadata(Head(queue[p]))
  /\ failures' = failures + 1
  /\ lost' = lost \cup {Head(queue[p])}
  /\ UNCHANGED recorded

-----------------------------------------------------------------------------
Hooks(call) ==
  \/ modality_after_rmw_send_request(call)
  \/ modality_after_rmw_take_request(call)
  \/ modality_after_rmw_send_response(call)
  \/ modality_after_rmw_take_response(call)

RealCalls(call) == RealSendRequest(call) \/ RealSendResponse(call)

Worker(p) == handle_service_event(p) \/ HandlingFails(p)

Next ==
  \/ \E call \in Calls : RealCalls(call) \/ Hooks(call)
  \/ \E p \in Processes : Worker(p)

Spec == Init /\ [][Next]_vars

\* A thread whose real call has returned goes on to the hook, and the worker goes
\* on; whether a request or a response arrives is not promised.
Fairness ==
  /\ \A call \in Calls : /\ WF_vars(modality_after_rmw_send_request(call))
                         /\ WF_vars(modality_after_rmw_send_response(call))
  /\ \A p \in Processes : WF_vars(Worker(p))

FairSpec == Spec /\ Fairness

-----------------------------------------------------------------------------
(* Properties.                                                              *)

Recorded == [event_type : ServiceEventType, timeline : Nodes,
             internal : SUBSET (Clients \X Nat),
             remote : SUBSET (ServiceEventType \X Clients \X Nat),
             call : Calls]

TypeOK ==
  /\ tracked \subseteq Endpoints
  /\ sender \in [Calls -> {"idle", "sent", "done"}]
  /\ server \in [Calls -> {"idle", "serving", "answered", "done"}]
  /\ taker \in [Calls -> {"idle", "done"}]
  /\ queue \in [Processes -> Seq(Event)]
  /\ \A p \in Processes : Len(queue[p]) <= Capacity
  /\ metadata \subseteq Nodes \X Clients
  /\ recorded \subseteq Recorded
  /\ lost \subseteq Event
  /\ failures \in 0 .. MaxFailures

\* The event of the client that an event of the service names.
Refers(s, e) ==
  \E ref \in s.remote :
    ref[1] = e.event_type /\ <<ref[2], ref[3]>> \in e.internal

\* The backend finds it: the timeline is known by the client's guid.
Linked(s, e) ==
  Refers(s, e) /\ <<e.timeline, ClientOf(s.call)>> \in metadata

\* README, "Precise service (RPC) tracing, on the client and server": whatever
\* calls are under way, of the same client or of clients of the same node, an
\* event of the service names the event of the client that belongs to the same
\* call, and no other.
JoinsAreExact ==
  \A s, e \in recorded :
    s.event_type \in ServerSide /\ e.event_type \in ClientSide =>
      (Refers(s, e) <=> s.call = e.call /\ e.event_type = opposite(s.event_type))

\* The event of a call is on its way to the backend, or may still be sent.
Pending(type, call) ==
  \/ type = "send_request" /\ sender[call] # "done"
  \/ \E p \in Processes : \E n \in 1 .. Len(queue[p]) :
       queue[p][n].event_type = type /\ queue[p][n].call = call
Missed(type, call) ==
  \/ ClientOf(call) \notin tracked
  \/ \E event \in lost : event.event_type = type /\ event.call = call

\* An interaction between recorded events cannot be found only if the client's
\* guid has not reached its timeline; and then every request the client has
\* made so far was missed or is still on its way.
UnlinkedMeansMissed ==
  \A s, e \in recorded :
    Refers(s, e) /\ ~Linked(s, e) =>
      /\ s.event_type = "send_response"
      /\ \A call \in Made :
           ClientOf(call) = ClientOf(s.call) =>
             Pending("send_request", call) \/ Missed("send_request", call)

\* The four events of a call are in the backend, and connected.
FullyTraced(call) ==
  \E s1, e1, s2, e2 \in recorded :
    /\ {s1.call, e1.call, s2.call, e2.call} = {call}
    /\ e1.event_type = "send_request" /\ Linked(s1, e1)
    /\ e2.event_type = "recv_response" /\ Linked(s2, e2)

\* A call whose response was taken is fully traced in the end, unless one of
\* its events was missed.
CallIsTraced ==
  \A call \in Calls :
    taker[call] # "idle" ~>
      \/ FullyTraced(call)
      \/ ~({ClientOf(call), Server} \subseteq tracked)
      \/ \E event \in lost : event.call = call
=============================================================================
