-------------------------- MODULE ServiceRpcProofs --------------------------
(* Proofs about ServiceRpc, for any clients, nodes, processes and calls.      *)
EXTENDS ServiceRpc, SequenceTheorems, TLAPS

-----------------------------------------------------------------------------
(* Sequences.                                                               *)

LEMMA AppendToSeq ==
  ASSUME NEW S, NEW seq \in Seq(S), NEW e \in S
  PROVE  /\ Append(seq, e) \in Seq(S)
         /\ Len(Append(seq, e)) = Len(seq) + 1
         /\ \A n \in 1 .. Len(seq) : Append(seq, e)[n] = seq[n]
         /\ Append(seq, e)[Len(seq) + 1] = e
  BY AppendProperties

LEMMA TailOfSeq ==
  ASSUME NEW S, NEW seq \in Seq(S), seq # <<>>
  PROVE  /\ Head(seq) \in S
         /\ Tail(seq) \in Seq(S)
         /\ Len(seq) \in Nat \ {0}
         /\ Len(Tail(seq)) = Len(seq) - 1
         /\ Head(seq) = seq[1]
         /\ \A n \in 1 .. Len(Tail(seq)) : Tail(seq)[n] = seq[n + 1]
  <1>1. Len(seq) \in Nat /\ Len(seq) # 0
    BY LenProperties, EmptySeq
  <1> QED BY <1>1, HeadTailProperties

-----------------------------------------------------------------------------
(* What every event on its way to the backend says.                         *)

\* It names its call by the client and the number, and belongs to the timeline
\* of its endpoint.
Genuine ==
  {event \in Event :
     /\ event.client_guid = ClientOf(event.call)
     /\ event.sequence_id = SequenceOf(event.call)
     /\ event.timeline = Node[EndpointOf(event)]}

LEMMA CallsAreIdentified ==
  /\ \A call \in Calls : ClientOf(call) \in Clients /\ SequenceOf(call) \in Nat
  /\ \A c, d \in Calls :
       ClientOf(c) = ClientOf(d) /\ SequenceOf(c) = SequenceOf(d) => c = d
  <1>1. \A call \in Calls : call \in Clients \X Nat
    BY EndpointsAssumption
  <1> QED BY <1>1 DEF ClientOf, SequenceOf

LEMMA NodesOfEndpoints ==
  /\ Node[Server] \in Nodes
  /\ \A call \in Calls : Node[ClientOf(call)] \in Nodes
  BY CallsAreIdentified, EndpointsAssumption DEF Endpoints

LEMMA GenuineIsEvent == Genuine \subseteq Event
  BY DEF Genuine

\* What a hook sends is genuine.
LEMMA HooksAreGenuine ==
  ASSUME NEW call \in Calls
  PROVE  /\ \A type \in ClientSide :
              ServiceEvent(type, call, ClientOf(call), ClientOf(call), SequenceOf(call))
                \in Genuine
         /\ \A type \in ServerSide :
              ServiceEvent(type, call, Server, ClientOf(call), SequenceOf(call))
                \in Genuine
  <1>1. ClientOf(call) \in Clients /\ SequenceOf(call) \in Nat
    BY CallsAreIdentified
  <1>2. ASSUME NEW type \in ClientSide
        PROVE  ServiceEvent(type, call, ClientOf(call), ClientOf(call), SequenceOf(call))
                 \in Genuine
    <2> DEFINE e == ServiceEvent(type, call, ClientOf(call), ClientOf(call), SequenceOf(call))
    <2>1. e \in Event
      BY <1>1, NodesOfEndpoints DEF ServiceEvent, Event, ServiceEventType
    <2>2. EndpointOf(e) = ClientOf(call)
      BY DEF EndpointOf, ServiceEvent
    <2> QED BY <2>1, <2>2 DEF Genuine, ServiceEvent
  <1>3. ASSUME NEW type \in ServerSide
        PROVE  ServiceEvent(type, call, Server, ClientOf(call), SequenceOf(call))
                 \in Genuine
    <2> DEFINE e == ServiceEvent(type, call, Server, ClientOf(call), SequenceOf(call))
    <2>1. e \in Event
      BY <1>1, NodesOfEndpoints DEF ServiceEvent, Event, ServiceEventType
    <2>2. EndpointOf(e) = Server
      BY DEF EndpointOf, ServiceEvent, ServerSide, ClientSide
    <2> QED BY <2>1, <2>2 DEF Genuine, ServiceEvent
  <1> QED BY <1>2, <1>3

-----------------------------------------------------------------------------
(* The inductive invariant.                                                 *)

\* A recorded event was genuine, and a request came with its timeline's metadata.
Faithful(r) ==
  \E e \in Genuine :
    /\ r = Attributes(e)
    /\ e.event_type = "send_request" => <<e.timeline, e.client_guid>> \in metadata

\* The request of a call waits in a channel.
Waiting(call) ==
  \E p \in Processes : \E n \in 1 .. Len(queue[p]) :
    queue[p][n].event_type = "send_request" /\ queue[p][n].call = call

Named(call) == <<Node[ClientOf(call)], ClientOf(call)>> \in metadata

\* Where a reported request is.
RequestAccountedFor(call) ==
  sender[call] = "done" =>
    Missed("send_request", call) \/ Waiting(call) \/ Named(call)

TypesOfState ==
  /\ tracked \subseteq Endpoints
  /\ sender \in [Calls -> {"idle", "sent", "done"}]
  /\ server \in [Calls -> {"idle", "serving", "answered", "done"}]
  /\ taker \in [Calls -> {"idle", "done"}]
  /\ metadata \subseteq Nodes \X Clients
  /\ failures \in 0 .. MaxFailures

Channels ==
  /\ queue \in [Processes -> Seq(Genuine)]
  /\ \A p \in Processes : Len(queue[p]) <= Capacity

Lost == lost \subseteq Genuine

IInv ==
  /\ TypesOfState
  /\ Channels
  /\ Lost
  /\ \A r \in recorded : Faithful(r)
  /\ \A call \in Calls : RequestAccountedFor(call)

LEMMA InitIInv == Init => IInv
  <1> SUFFICES ASSUME Init PROVE IInv
    OBVIOUS
  <1>1. TypesOfState
    BY EndpointsAssumption DEF Init, TypesOfState
  <1>2. Channels
    <2>1. <<>> \in Seq(Genuine) /\ Len(<<>>) = 0
      BY EmptySeq
    <2> QED BY <2>1, EndpointsAssumption DEF Init, Channels
  <1>3. Lost /\ (\A r \in recorded : Faithful(r))
    BY DEF Init, Lost
  <1>4. \A call \in Calls : RequestAccountedFor(call)
    BY DEF Init, RequestAccountedFor
  <1> QED BY <1>1, <1>2, <1>3, <1>4 DEF IInv

-----------------------------------------------------------------------------
(* The steps of the hooks.                                                  *)

LEMMA ProcessOfGenuine ==
  ASSUME NEW e \in Genuine
  PROVE  Process[e.timeline] \in Processes
  BY EndpointsAssumption DEF Genuine, Event

\* A hook's event joins the end of one channel or is lost; nothing else changes.
LEMMA ReportSteps ==
  ASSUME IInv, NEW endpoint, NEW e \in Genuine, Report(endpoint, e)
  PROVE  /\ Channels'
         /\ Lost'
         /\ lost \subseteq lost'
         /\ UNCHANGED <<tracked, metadata, recorded, failures>>
         /\ \A call \in Calls : Waiting(call) => Waiting(call)'
         /\ endpoint \in tracked =>
              \/ e \in lost'
              \/ \E p \in Processes : \E n \in 1 .. Len(queue'[p]) : queue'[p][n] = e
  <1> DEFINE p == Process[e.timeline]
  <1> p \in Processes
    BY ProcessOfGenuine
  <1>0. queue \in [Processes -> Seq(Genuine)] /\ Lost
    BY DEF IInv, Channels
  <1>1. UNCHANGED <<tracked, metadata, recorded, failures>>
    BY DEF Report
  <1>2. CASE endpoint \in tracked /\ HasRoom(p) /\ queue' = [queue EXCEPT ![p] = Append(@, e)]
             /\ UNCHANGED lost
    <2> DEFINE old == queue[p]  new == Append(old, e)
    <2>1. old \in Seq(Genuine) /\ Len(old) \in Nat
      BY <1>0, LenProperties
    <2>2. /\ new \in Seq(Genuine)
          /\ Len(new) = Len(old) + 1
          /\ \A n \in 1 .. Len(old) : new[n] = old[n]
          /\ new[Len(old) + 1] = e
      BY <2>1, AppendToSeq
    <2>3. queue'[p] = new /\ \A q \in Processes : q # p => queue'[q] = queue[q]
      BY <1>0, <1>2
    <2>4. queue' \in [Processes -> Seq(Genuine)]
      BY <1>0, <1>2, <2>2
    <2>5. Len(new) <= Capacity
      BY <1>2, <2>1, <2>2, EndpointsAssumption DEF HasRoom
    <2>6. Channels'
      BY <2>3, <2>4, <2>5 DEF Channels, IInv
    <2>7. ASSUME NEW call \in Calls, Waiting(call)
          PROVE  Waiting(call)'
      <3>1. PICK q \in Processes : \E n \in 1 .. Len(queue[q]) :
              queue[q][n].event_type = "send_request" /\ queue[q][n].call = call
        BY <2>7 DEF Waiting
      <3>0. PICK n \in 1 .. Len(queue[q]) :
              queue[q][n].event_type = "send_request" /\ queue[q][n].call = call
        BY <3>1
      <3>2. CASE q = p
        <4>1. n \in 1 .. Len(new) /\ new[n] = queue[q][n]
          BY <3>2, <2>1, <2>2
        <4> QED BY <4>1, <3>0, <3>2, <2>3 DEF Waiting
      <3>3. CASE q # p
        BY <3>0, <3>3, <2>3 DEF Waiting
      <3> QED BY <3>2, <3>3
    <2>8. \E q \in Processes : \E n \in 1 .. Len(queue'[q]) : queue'[q][n] = e
      <3>1. Len(old) + 1 \in 1 .. Len(new)
        BY <2>1, <2>2
      <3> QED BY <3>1, <2>2, <2>3
    <2> QED BY <1>0, <1>1, <1>2, <2>6, <2>7, <2>8 DEF Lost
  <1>3. CASE endpoint \in tracked /\ lost' = lost \cup {e} /\ UNCHANGED queue
    BY <1>0, <1>1, <1>3 DEF Lost, Channels, IInv, Waiting
  <1>4. CASE endpoint \notin tracked /\ UNCHANGED <<queue, lost>>
    BY <1>0, <1>1, <1>4 DEF Lost, Channels, IInv, Waiting
  <1> QED BY <1>2, <1>3, <1>4 DEF Report, Send

\* What is true of the calls stays true when a hook has run.
LEMMA ReportKeepsCalls ==
  ASSUME IInv, NEW endpoint, NEW e \in Genuine, Report(endpoint, e),
         NEW call \in Calls, sender'[call] = sender[call]
  PROVE  RequestAccountedFor(call)'
  <1>1. RequestAccountedFor(call)
    BY DEF IInv
  <1>2. Missed("send_request", call) => Missed("send_request", call)'
    BY ReportSteps DEF Missed
  <1>3. Waiting(call) => Waiting(call)'
    BY ReportSteps
  <1>4. Named(call) => Named(call)'
    BY ReportSteps DEF Named
  <1> QED BY <1>1, <1>2, <1>3, <1>4 DEF RequestAccountedFor

LEMMA ReportKeepsRecorded ==
  ASSUME IInv, NEW endpoint, NEW e \in Genuine, Report(endpoint, e)
  PROVE  \A r \in recorded' : Faithful(r)'
  BY ReportSteps DEF IInv, Faithful, Genuine, Event

LEMMA HooksStep ==
  ASSUME IInv, NEW call \in Calls, Hooks(call)
  PROVE  IInv'
  <1>0. TypesOfState
    BY DEF IInv
  <1>1. CASE modality_after_rmw_send_request(call)
    <2> DEFINE e == ServiceEvent("send_request", call, ClientOf(call), ClientOf(call),
                                 SequenceOf(call))
    <2>1. e \in Genuine
      BY HooksAreGenuine DEF ClientSide
    <2>2. Report(ClientOf(call), e)
      BY <1>1 DEF modality_after_rmw_send_request
    <2>3. e.event_type = "send_request" /\ e.call = call
      BY DEF ServiceEvent
    <2> HIDE DEF e
    <2>4. /\ sender' = [sender EXCEPT ![call] = "done"]
          /\ UNCHANGED <<server, taker>>
      BY <1>1 DEF modality_after_rmw_send_request
    <2>5. TypesOfState'
      BY <1>0, <2>1, <2>2, <2>4, ReportSteps DEF TypesOfState
    <2>6. RequestAccountedFor(call)'
      <3>1. CASE ClientOf(call) \in tracked /\ e \in lost'
        BY <3>1, <2>3 DEF RequestAccountedFor, Missed
      <3>2. CASE \E p \in Processes : \E n \in 1 .. Len(queue'[p]) : queue'[p][n] = e
        BY <3>2, <2>3 DEF RequestAccountedFor, Waiting
      <3>3. CASE ClientOf(call) \notin tracked
        BY <3>3, <2>1, <2>2, ReportSteps DEF RequestAccountedFor, Missed
      <3> QED BY <3>1, <3>2, <3>3, <2>1, <2>2, ReportSteps
    <2>7. \A other \in Calls : RequestAccountedFor(other)'
      <3>1. ASSUME NEW other \in Calls, other # call
            PROVE  RequestAccountedFor(other)'
        <4>1. sender'[other] = sender[other]
          BY <3>1, <2>4, <1>0 DEF TypesOfState
        <4> QED BY <4>1, <2>1, <2>2, ReportKeepsCalls
      <3> QED BY <3>1, <2>6
    <2> QED BY <2>1, <2>2, <2>5, <2>7, ReportSteps, ReportKeepsRecorded DEF IInv
  <1>2. ASSUME NEW endpoint, NEW e \in Genuine, Report(endpoint, e), UNCHANGED sender,
               TypesOfState'
        PROVE  IInv'
    BY <1>2, ReportSteps, ReportKeepsRecorded, ReportKeepsCalls DEF IInv
  <1>3. CASE modality_after_rmw_take_request(call)
    <2> DEFINE e == ServiceEvent("recv_request", call, Server, ClientOf(call),
                                 SequenceOf(call))
    <2>1. e \in Genuine
      BY HooksAreGenuine DEF ServerSide
    <2>2. Report(Server, e) /\ UNCHANGED <<sender, taker>>
          /\ server' = [server EXCEPT ![call] = "serving"]
      BY <1>3 DEF modality_after_rmw_take_request
    <2> HIDE DEF e
    <2>3. TypesOfState'
      BY <1>0, <2>1, <2>2, ReportSteps DEF TypesOfState
    <2> QED BY <2>1, <2>2, <2>3, <1>2
  <1>4. CASE modality_after_rmw_send_response(call)
    <2> DEFINE e == ServiceEvent("send_response", call, Server, ClientOf(call),
                                 SequenceOf(call))
    <2>1. e \in Genuine
      BY HooksAreGenuine DEF ServerSide
    <2>2. Report(Server, e) /\ UNCHANGED <<sender, taker>>
          /\ server' = [server EXCEPT ![call] = "done"]
      BY <1>4 DEF modality_after_rmw_send_response
    <2> HIDE DEF e
    <2>3. TypesOfState'
      BY <1>0, <2>1, <2>2, ReportSteps DEF TypesOfState
    <2> QED BY <2>1, <2>2, <2>3, <1>2
  <1>5. CASE modality_after_rmw_take_response(call)
    <2> DEFINE e == ServiceEvent("recv_response", call, ClientOf(call), ClientOf(call),
                                 SequenceOf(call))
    <2>1. e \in Genuine
      BY HooksAreGenuine DEF ClientSide
    <2>2. Report(ClientOf(call), e) /\ UNCHANGED <<sender, server>>
          /\ taker' = [taker EXCEPT ![call] = "done"]
      BY <1>5 DEF modality_after_rmw_take_response
    <2> HIDE DEF e
    <2>3. TypesOfState'
      BY <1>0, <2>1, <2>2, ReportSteps DEF TypesOfState
    <2> QED BY <2>1, <2>2, <2>3, <1>2
  <1> QED BY <1>1, <1>3, <1>4, <1>5 DEF Hooks

\* The real functions are not observed.
LEMMA RealCallsStep ==
  ASSUME IInv, NEW call \in Calls, RealCalls(call)
  PROVE  IInv'
  <1>0. TypesOfState
    BY DEF IInv
  <1>1. Unobserved
    BY DEF RealCalls, RealSendRequest, RealSendResponse
  <1>2. TypesOfState'
    BY <1>0, <1>1 DEF RealCalls, RealSendRequest, RealSendResponse, TypesOfState, Unobserved
  <1>3. \A other \in Calls : sender'[other] = "done" => sender[other] = "done"
    BY <1>0 DEF RealCalls, RealSendRequest, RealSendResponse, TypesOfState
  <1>4. Channels' /\ Lost' /\ (\A r \in recorded' : Faithful(r)')
    BY <1>1 DEF IInv, Channels, Lost, Faithful, Unobserved
  <1>5. \A other \in Calls : RequestAccountedFor(other)'
    BY <1>1, <1>3 DEF IInv, RequestAccountedFor, Missed, Waiting, Named, Unobserved
  <1> QED BY <1>2, <1>4, <1>5 DEF IInv

-----------------------------------------------------------------------------
(* The steps of the workers.                                                *)

\* Taking an event leaves the others where they can be found.
LEMMA TakeSteps ==
  ASSUME IInv, NEW p \in Processes, Take(p)
  PROVE  /\ Channels'
         /\ Head(queue[p]) \in Genuine
         /\ \A call \in Calls : Waiting(call) =>
              \/ Waiting(call)'
              \/ /\ Head(queue[p]).event_type = "send_request"
                 /\ Head(queue[p]).call = call
  <1> DEFINE old == queue[p]  new == Tail(old)
  <1>0. queue \in [Processes -> Seq(Genuine)]
        /\ \A q \in Processes : Len(queue[q]) <= Capacity
    BY DEF IInv, Channels
  <1>1. queue' = [queue EXCEPT ![p] = new] /\ old # <<>>
    BY DEF Take
  <1>2. /\ Head(old) \in Genuine
        /\ new \in Seq(Genuine)
        /\ Len(old) \in Nat \ {0}
        /\ Len(new) = Len(old) - 1
        /\ Head(old) = old[1]
        /\ \A n \in 1 .. Len(new) : new[n] = old[n + 1]
    <2>1. old \in Seq(Genuine)
      BY <1>0
    <2> HIDE DEF old
    <2> QED BY <2>1, <1>1, TailOfSeq
  <1>3. queue'[p] = new /\ \A q \in Processes : q # p => queue'[q] = queue[q]
    BY <1>0, <1>1
  <1>4. Channels'
    <2>1. queue' \in [Processes -> Seq(Genuine)]
      BY <1>0, <1>1, <1>2
    <2>2. Len(new) <= Capacity
      BY <1>0, <1>2, EndpointsAssumption
    <2> QED BY <2>1, <2>2, <1>0, <1>3 DEF Channels
  <1>5. ASSUME NEW call \in Calls, Waiting(call)
        PROVE  \/ Waiting(call)'
               \/ /\ Head(old).event_type = "send_request"
                  /\ Head(old).call = call
    <2>1. PICK q \in Processes : \E n \in 1 .. Len(queue[q]) :
            queue[q][n].event_type = "send_request" /\ queue[q][n].call = call
      BY <1>5 DEF Waiting
    <2>0. PICK n \in 1 .. Len(queue[q]) :
            queue[q][n].event_type = "send_request" /\ queue[q][n].call = call
      BY <2>1
    <2>2. CASE q # p
      BY <2>0, <2>2, <1>3 DEF Waiting
    <2>3. CASE q = p /\ n = 1
      BY <2>0, <2>3, <1>2
    <2>4. CASE q = p /\ n # 1
      <3>1. n - 1 \in 1 .. Len(new) /\ (n - 1) + 1 = n
        BY <2>4, <1>2
      <3>2. new[n - 1] = old[n]
        BY <3>1, <1>2
      <3> QED BY <3>1, <3>2, <2>0, <2>4, <1>3 DEF Waiting
    <2> QED BY <2>2, <2>3, <2>4
  <1> QED BY <1>2, <1>4, <1>5

\* The metadata of a request names its timeline by the client's guid.
LEMMA MetadataNames ==
  ASSUME NEW e \in Genuine
  PROVE  /\ TimelineMetadata(e) \subseteq Nodes \X Clients
         /\ e.event_type = "send_request" =>
              /\ e.client_guid = ClientOf(e.call)
              /\ e.timeline = Node[ClientOf(e.call)]
              /\ <<e.timeline, e.client_guid>> \in TimelineMetadata(e)
  BY DEF Genuine, Event, TimelineMetadata, EndpointOf, ClientSide

LEMMA WorkerStep ==
  ASSUME IInv, NEW p \in Processes, Worker(p)
  PROVE  IInv'
  <1>1. Take(p)
    BY DEF Worker, handle_service_event, HandlingFails
  <1>0. PICK e \in Genuine : e = Head(queue[p])
    BY <1>1, TakeSteps
  <1>2. /\ Channels'
        /\ \A call \in Calls : Waiting(call) =>
             Waiting(call)' \/ (e.event_type = "send_request" /\ e.call = call)
    BY <1>0, <1>1, TakeSteps
  <1>3. UNCHANGED <<tracked, sender, server, taker>>
    BY <1>1 DEF Take
  <1>4. ASSUME metadata \subseteq metadata', lost \subseteq lost',
               \A call \in Calls : e.event_type = "send_request" /\ e.call = call =>
                 e \in lost' \/ Named(call)'
        PROVE  \A call \in Calls : RequestAccountedFor(call)'
    <2> SUFFICES ASSUME NEW call \in Calls, sender[call] = "done"
                 PROVE  Missed("send_request", call)' \/ Waiting(call)' \/ Named(call)'
      BY <1>3 DEF RequestAccountedFor
    <2>1. CASE Missed("send_request", call)
      BY <2>1, <1>3, <1>4 DEF Missed
    <2>2. CASE Waiting(call)
      <3>1. CASE Waiting(call)'
        BY <3>1
      <3>2. CASE e.event_type = "send_request" /\ e.call = call
        BY <3>2, <1>4 DEF Missed
      <3> QED BY <2>2, <3>1, <3>2, <1>2
    <2>3. CASE Named(call)
      BY <2>3, <1>4 DEF Named
    <2> QED BY <2>1, <2>2, <2>3 DEF IInv, RequestAccountedFor
  <1>5. CASE handle_service_event(p)
    <2>1. /\ metadata' = metadata \cup TimelineMetadata(e)
          /\ recorded' = recorded \cup {Attributes(e)}
          /\ UNCHANGED <<lost, failures>>
      BY <1>0, <1>5 DEF handle_service_event
    <2>2. TypesOfState' /\ Lost'
      BY <1>2, <1>3, <2>1, MetadataNames DEF IInv, TypesOfState, Lost
    <2>3. \A r \in recorded' : Faithful(r)'
      <3>1. ASSUME NEW r \in recorded
            PROVE  Faithful(r)'
        BY <3>1, <2>1 DEF IInv, Faithful
      <3>2. Faithful(Attributes(e))'
        BY <1>2, <2>1, MetadataNames DEF Faithful
      <3> QED BY <2>1, <3>1, <3>2
    <2>4. \A call \in Calls : RequestAccountedFor(call)'
      <3>1. ASSUME NEW call \in Calls, e.event_type = "send_request", e.call = call
            PROVE  Named(call)'
        BY <3>1, <1>2, <2>1, MetadataNames DEF Named
      <3> QED BY <3>1, <2>1, <1>4
    <2> QED BY <1>2, <2>2, <2>3, <2>4 DEF IInv
  <1>6. CASE HandlingFails(p)
    <2>1. /\ metadata' = metadata \/ metadata' = metadata \cup TimelineMetadata(e)
          /\ failures < MaxFailures /\ failures' = failures + 1
          /\ lost' = lost \cup {e}
          /\ UNCHANGED recorded
      BY <1>0, <1>6 DEF HandlingFails
    <2>2. TypesOfState'
      <3>1. failures' \in 0 .. MaxFailures
        BY <2>1, EndpointsAssumption DEF IInv, TypesOfState
      <3> QED BY <3>1, <1>2, <1>3, <2>1, MetadataNames DEF IInv, TypesOfState
    <2>3. Lost'
      BY <1>2, <2>1 DEF IInv, Lost
    <2>4. \A r \in recorded' : Faithful(r)'
      BY <2>1 DEF IInv, Faithful
    <2>5. \A call \in Calls : RequestAccountedFor(call)'
      BY <2>1, <1>4
    <2> QED BY <1>2, <2>2, <2>3, <2>4, <2>5 DEF IInv
  <1> QED BY <1>5, <1>6 DEF Worker

LEMMA StutterStep == IInv /\ UNCHANGED vars => IInv'
  BY DEF IInv, vars, TypesOfState, Channels, Lost, Faithful, RequestAccountedFor,
         Missed, Waiting, Named

\* The inductive invariant is one.
THEOREM Invariance == Spec => []IInv
  <1>1. IInv /\ [Next]_vars => IInv'
    BY HooksStep, RealCallsStep, WorkerStep, StutterStep DEF Next
  <1> QED BY InitIInv, <1>1, PTL DEF Spec

-----------------------------------------------------------------------------
(* What follows from it.                                                    *)

LEMMA AttributesType ==
  ASSUME NEW e \in Genuine
  PROVE  Attributes(e) \in Recorded
  <1>1. /\ e.event_type \in ServiceEventType /\ e.timeline \in Nodes
        /\ e.client_guid \in Clients /\ e.sequence_id \in Nat /\ e.call \in Calls
    BY DEF Genuine, Event
  <1>2. e.event_type \in ServerSide => opposite(e.event_type) \in ServiceEventType
    BY DEF opposite, ServerSide, ServiceEventType, ClientSide
  <1> QED BY <1>1, <1>2 DEF Attributes, Recorded

\* The variables have their types and no channel holds more than its capacity.
THEOREM TypeCorrect == Spec => []TypeOK
  <1>1. IInv => TypeOK
    <2> SUFFICES ASSUME IInv PROVE TypeOK
      OBVIOUS
    <2>1. queue \in [Processes -> Seq(Event)]
      <3>1. Seq(Genuine) \subseteq Seq(Event)
        BY GenuineIsEvent
      <3> QED BY <3>1 DEF IInv, Channels
    <2>2. recorded \subseteq Recorded
      BY AttributesType DEF IInv, Faithful
    <2>3. lost \subseteq Event
      BY GenuineIsEvent DEF IInv, Lost
    <2> QED BY <2>1, <2>2, <2>3 DEF IInv, TypesOfState, Channels, TypeOK
  <1> QED BY <1>1, Invariance, PTL

LEMMA ReferenceIsExact ==
  ASSUME NEW a \in Genuine, NEW b \in Genuine
  PROVE  Refers(Attributes(a), Attributes(b)) <=>
           /\ a.event_type \in ServerSide /\ b.event_type \in ClientSide
           /\ a.call = b.call
           /\ b.event_type = opposite(a.event_type)
  <1>1. /\ a.client_guid = ClientOf(a.call) /\ b.client_guid = ClientOf(b.call)
        /\ a.sequence_id = SequenceOf(a.call) /\ b.sequence_id = SequenceOf(b.call)
        /\ a.call \in Calls /\ b.call \in Calls
    BY DEF Genuine, Event
  <1>2. a.call = b.call <=>
          a.client_guid = b.client_guid /\ a.sequence_id = b.sequence_id
    BY <1>1, CallsAreIdentified
  <1>3. Attributes(a).remote =
          IF a.event_type \in ServerSide
            THEN {<<opposite(a.event_type), a.client_guid, a.sequence_id>>} ELSE {}
    BY DEF Attributes
  <1>4. /\ Attributes(b).internal =
             IF b.event_type \in ClientSide THEN {<<b.client_guid, b.sequence_id>>} ELSE {}
        /\ Attributes(b).event_type = b.event_type
    BY DEF Attributes
  <1>5. Refers(Attributes(a), Attributes(b)) <=>
          /\ a.event_type \in ServerSide /\ b.event_type \in ClientSide
          /\ b.event_type = opposite(a.event_type)
          /\ a.client_guid = b.client_guid /\ a.sequence_id = b.sequence_id
    <2> DEFINE A == Attributes(a)  B == Attributes(b)
               ref == <<opposite(a.event_type), a.client_guid, a.sequence_id>>
    <2>1. Refers(A, B) <=> \E r \in A.remote : r[1] = B.event_type /\ <<r[2], r[3]>> \in B.internal
      BY DEF Refers
    <2>2. ref[1] = opposite(a.event_type) /\ ref[2] = a.client_guid /\ ref[3] = a.sequence_id
      OBVIOUS
    <2>3. CASE a.event_type \in ServerSide /\ b.event_type \in ClientSide
      <3>1. A.remote = {ref} /\ B.internal = {<<b.client_guid, b.sequence_id>>}
        BY <1>3, <1>4, <2>3
      <3>2. Refers(A, B) <=> ref[1] = b.event_type /\ <<ref[2], ref[3]>> \in B.internal
        BY <2>1, <3>1, <1>4
      <3> QED BY <2>2, <2>3, <3>1, <3>2
    <2>4. CASE a.event_type \notin ServerSide
      BY <1>3, <2>1, <2>4
    <2>5. CASE b.event_type \notin ClientSide
      BY <1>4, <2>1, <2>5
    <2> QED BY <2>3, <2>4, <2>5
  <1> QED BY <1>2, <1>5

LEMMA FieldsOfAttributes ==
  ASSUME NEW a
  PROVE  /\ Attributes(a).event_type = a.event_type
         /\ Attributes(a).call = a.call
         /\ Attributes(a).timeline = a.timeline
  BY DEF Attributes

\* An event of the service names the event of the client that belongs to its
\* call, and no other: hooks.rs's guids and sequence numbers tell any number of
\* clients and calls apart.
THEOREM Joins == Spec => []JoinsAreExact
  <1>1. IInv => JoinsAreExact
    <2> SUFFICES ASSUME IInv, NEW s \in recorded, NEW e \in recorded,
                        s.event_type \in ServerSide, e.event_type \in ClientSide
                 PROVE  Refers(s, e) <=>
                          s.call = e.call /\ e.event_type = opposite(s.event_type)
      BY DEF JoinsAreExact
    <2>1. PICK a \in Genuine : s = Attributes(a)
      BY DEF IInv, Faithful
    <2>2. PICK b \in Genuine : e = Attributes(b)
      BY DEF IInv, Faithful
    <2> QED BY <2>1, <2>2, ReferenceIsExact, FieldsOfAttributes
  <1> QED BY <1>1, Invariance, PTL

\* An interaction is lost to the backend only if it concerns a response, and
\* every request of the client so far was missed or has yet to arrive.
THEOREM Unlinked == Spec => []UnlinkedMeansMissed
  <1>1. IInv => UnlinkedMeansMissed
    <2> SUFFICES ASSUME IInv, NEW s \in recorded, NEW e \in recorded,
                        Refers(s, e), ~Linked(s, e)
                 PROVE  /\ s.event_type = "send_response"
                        /\ \A call \in Made :
                             ClientOf(call) = ClientOf(s.call) =>
                               \/ Pending("send_request", call)
                               \/ Missed("send_request", call)
      BY DEF UnlinkedMeansMissed
    <2>1. PICK a \in Genuine : s = Attributes(a)
      BY DEF IInv, Faithful
    <2>2. PICK b \in Genuine :
            /\ e = Attributes(b)
            /\ b.event_type = "send_request" => <<b.timeline, b.client_guid>> \in metadata
      BY DEF IInv, Faithful
    <2>3. /\ a.event_type \in ServerSide /\ b.event_type \in ClientSide
          /\ a.call = b.call
          /\ b.event_type = opposite(a.event_type)
      BY <2>1, <2>2, ReferenceIsExact
    <2>4. <<b.timeline, ClientOf(b.call)>> \notin metadata
      BY <2>1, <2>2, <2>3, FieldsOfAttributes DEF Linked
    <2>5. b.client_guid = ClientOf(b.call) /\ b.timeline = Node[ClientOf(b.call)]
      BY <2>3 DEF Genuine, EndpointOf
    <2>6. a.event_type = "send_response"
      BY <2>2, <2>3, <2>4, <2>5 DEF opposite, ServerSide
    <2>7. ASSUME NEW call \in Made, ClientOf(call) = ClientOf(s.call)
          PROVE  Pending("send_request", call) \/ Missed("send_request", call)
      <3>1. call \in Calls /\ ClientOf(call) = ClientOf(b.call)
        BY <2>1, <2>3, <2>7, FieldsOfAttributes DEF Made
      <3>2. ~Named(call)
        BY <3>1, <2>4, <2>5 DEF Named
      <3>3. CASE sender[call] # "done"
        BY <3>3 DEF Pending
      <3>4. CASE Waiting(call)
        BY <3>4 DEF Pending, Waiting
      <3> QED BY <3>1, <3>2, <3>3, <3>4 DEF IInv, RequestAccountedFor
    <2> QED BY <2>1, <2>6, <2>7, FieldsOfAttributes
  <1> QED BY <1>1, Invariance, PTL
=============================================================================
