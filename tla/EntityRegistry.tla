--------------------------- MODULE EntityRegistry ---------------------------
(***************************************************************************)
(* Which RMW entity a hook believes it is looking at: hooks.rs NODES,      *)
(* PUBLISHERS, SUBSCRIPTIONS, SERVICES, CLIENTS, and the hooks that insert,*)
(* look up and remove, called by ld_preload_shim.c around the real rmw_    *)
(* functions.                                                              *)
(*                                                                         *)
(* An entity is known by its address.  The shim runs the destroy hook after*)
(* the real destroy has freed the entity, so that another thread may       *)
(* already own a new entity at the same address; the hook looks up, sends  *)
(* and removes by address, in steps of its own.                            *)
(*                                                                         *)
(* arc-swap's rcu and load are taken as atomic (they are linearisable).    *)
(* The rules of the rmw interface are assumed of the application: it uses  *)
(* and destroys an entity only after its creation returned and before its  *)
(* destruction starts, and a node outlives its endpoints.  A creation that *)
(* returns NULL and a destruction that fails run no hook and change        *)
(* nothing; they are not steps here.                                       *)
(*                                                                         *)
(* A publish is not sent by its hook.  The hook keeps it for the thread,   *)
(* and the thread's next reading of the wall clock sends it: as a rule the *)
(* transport's timestamp inside the same publish, but when the publish     *)
(* fails before that, any later reading, whatever became of the publisher. *)
(* PublishCapture has the readings and their values; here only the order   *)
(* of what is sent counts, and a message is one event.                     *)
(***************************************************************************)
EXTENDS Naturals, Sequences

CONSTANTS
  Threads,      \* threads that create, use and destroy entities
  Addresses,    \* where the allocator may put an entity
  MaxEntities,  \* bound: how many entities are ever created
  MaxUses       \* bound: how many events are sent before uses stop

ASSUME BoundsAssumption == MaxEntities \in Nat /\ MaxUses \in Nat

EndpointKinds == {"publisher", "subscription", "service", "client"}
Kinds == EndpointKinds \cup {"node"}

VARIABLES
  entities,   \* every entity ever created, oldest first, see Entity
  registry,   \* per kind and address: the entry, see Entry
  pc,         \* per thread: where it is inside a create or destroy hook
  arg,        \* per thread: the entity that hook runs for
  node_state, \* per thread: the node's entry, found by a create hook
  lcm,        \* per thread: LAST_CAPTURED_MESSAGE, a publish not sent yet
  sent,       \* what the hooks passed to Sender::send, in order
  collided    \* history: entities that shared an address with a running hook

vars == <<entities, registry, pc, arg, node_state, lcm, sent, collided>>

Ids == 1 .. MaxEntities

\* supported: the topic is not ignored and the type support is understood.
\* node: the node of an endpoint; a node stands for itself.  The timeline id of
\* a node (TimelineId::allocate) is written as the node's own number.
Entity == [kind : Kinds, address : Addresses, node : Ids, supported : BOOLEAN,
           status : {"creating", "ready", "destroying", "gone"}]

\* What an entry remembers, and of which entity it was made (history).
Entry == [timeline : Ids, of : Ids]
NoEntry == [timeline |-> 0, of |-> 0]

Steps ==
  {"idle", "lookup", "insert", "announce", "farewell", "remove", "publishing"}

NoCapture == [entity |-> 0]

Init ==
  /\ entities = <<>>
  /\ registry = [k \in Kinds |-> [a \in Addresses |-> NoEntry]]
  /\ pc = [t \in Threads |-> "idle"]
  /\ arg = [t \in Threads |-> 0]
  /\ node_state = [t \in Threads |-> NoEntry]
  /\ lcm = [t \in Threads |-> NoCapture]
  /\ sent = <<>>
  /\ collided = {}

Created == 1 .. Len(entities)
With(statuses) == {i \in Created : entities[i].status \in statuses}

\* The entry a hook finds for the address of entity i.
Found(i) == registry[entities[i].kind][entities[i].address]

\* What the hooks report about an entity.  History: the publish event of a
\* publish that failed before its timestamp is told apart here; nothing in the
\* event does.
Uses == {"receive", "send_request", "recv_response", "recv_request",
         "send_response"}
Occurrences == Uses \cup {"create", "destroy", "publish", "failed_publish"}

\* An event about entity i, sent on the timeline and (for a message) decoded by
\* the schema of an entry; the schema is named by the entity it was made for.
\* thread: history, the thread whose hook made it.
Message(t, what, i, entry) ==
  [thread |-> t, what |-> what, entity |-> i, timeline |-> entry.timeline,
   schema |-> entry.of]

-----------------------------------------------------------------------------
(* The real rmw functions (external) as the shim calls them.                *)

\* rmw_create_* returned an entity at a free address; its hook comes next.
\* The hook of a node has nothing to look up.
RealCreate(t, kind, address, node, supported) ==
  /\ pc[t] = "idle"
  /\ Len(entities) < MaxEntities
  /\ \A i \in With({"creating", "ready"}) : entities[i].address # address
  /\ IF kind = "node"
       THEN node = Len(entities) + 1 /\ supported
       ELSE node \in With({"ready"}) /\ entities[node].kind = "node"
  /\ entities' = Append(entities, [kind |-> kind, address |-> address,
                                   node |-> node, supported |-> supported,
                                   status |-> "creating"])
  /\ arg' = [arg EXCEPT ![t] = Len(entities) + 1]
  /\ pc' = [pc EXCEPT ![t] = IF kind = "node" THEN "insert" ELSE "lookup"]
  /\ LET others == {i \in With({"destroying"}) :
                      entities[i].kind = kind /\ entities[i].address = address}
     IN collided' = IF others = {} THEN collided
                    ELSE collided \cup others \cup {Len(entities) + 1}
  /\ UNCHANGED <<registry, node_state, lcm, sent>>

\* rmw_destroy_* returned RMW_RET_OK: the address is free again, the destroy
\* hook comes next.
RealDestroy(t, i) ==
  /\ pc[t] = "idle"
  /\ i \in With({"ready"})
  /\ \A j \in With({"creating", "ready"}) : entities[j].node = i => j = i
  /\ \A u \in Threads : ~(pc[u] = "publishing" /\ arg[u] = i)
  /\ entities' = [entities EXCEPT ![i].status = "destroying"]
  /\ arg' = [arg EXCEPT ![t] = i]
  /\ pc' = [pc EXCEPT ![t] = "farewell"]
  /\ UNCHANGED <<registry, node_state, lcm, sent, collided>>

-----------------------------------------------------------------------------
(* Create hooks.                                                            *)

Running(t, kind, step) == pc[t] = step /\ entities[arg[t]].kind = kind

\* The hook ends, the shim returns the entity to the application.
HandOver(t) ==
  /\ entities' = [entities EXCEPT ![arg[t]].status = "ready"]
  /\ pc' = [pc EXCEPT ![t] = "idle"]

\* Mutated create hook: ignored topics are not filtered out.
LookupNodeUnfiltered(t, kind) ==
  /\ Running(t, kind, "lookup")
  /\ LET found == Found(entities[arg[t]].node)
     IN IF found = NoEntry
          THEN HandOver(t) /\ UNCHANGED node_state
          ELSE /\ node_state' = [node_state EXCEPT ![t] = found]
               /\ pc' = [pc EXCEPT ![t] = "insert"]
               /\ UNCHANGED entities
  /\ UNCHANGED <<registry, arg, lcm, sent, collided>>

\* Mutated create hook: an unknown node does not end it.
LookupNodeUnchecked(t, kind) ==
  /\ Running(t, kind, "lookup")
  /\ IF ~entities[arg[t]].supported
       THEN HandOver(t) /\ UNCHANGED node_state
       ELSE /\ node_state' =
                 [node_state EXCEPT ![t] = Found(entities[arg[t]].node)]
            /\ pc' = [pc EXCEPT ![t] = "insert"]
            /\ UNCHANGED entities
  /\ UNCHANGED <<registry, arg, lcm, sent, collided>>

\* NODES.load().get(&node_ptr), then the tests that end the hook: the node is
\* not known, the topic is ignored, the type support is not understood.
LookupNode(t, kind) ==
  /\ Running(t, kind, "lookup")
  /\ LET found == Found(entities[arg[t]].node)
     IN IF found = NoEntry \/ ~entities[arg[t]].supported
          THEN HandOver(t) /\ UNCHANGED node_state
          ELSE /\ node_state' = [node_state EXCEPT ![t] = found]
               /\ pc' = [pc EXCEPT ![t] = "insert"]
               /\ UNCHANGED entities
  /\ UNCHANGED <<registry, arg, lcm, sent, collided>>

\* The entry of arg[t], with its own timeline for a node.
NewEntry(t, kind) ==
  [timeline |-> IF kind = "node" THEN arg[t] ELSE node_state[t].timeline,
   of       |-> arg[t]]

\* Mutated insert: an entry that is there already is kept.
InsertIfVacant(t, kind) ==
  /\ Running(t, kind, "insert")
  /\ registry' = [registry EXCEPT
                    ![kind][entities[arg[t]].address] =
                       IF @ = NoEntry THEN NewEntry(t, kind) ELSE @]
  /\ pc' = [pc EXCEPT ![t] = "announce"]
  /\ UNCHANGED <<entities, arg, node_state, lcm, sent, collided>>

\* MAP.rcu(|map| map.insert(address, state))
Insert(t, kind) ==
  /\ Running(t, kind, "insert")
  /\ registry' = [registry EXCEPT
                    ![kind][entities[arg[t]].address] = NewEntry(t, kind)]
  /\ pc' = [pc EXCEPT ![t] = "announce"]
  /\ UNCHANGED <<entities, arg, node_state, lcm, sent, collided>>

\* now() for the event's timestamp, so that no capture of the thread is left;
\* SEND_CH.send of the creation event, then the hook returns.
Announce(t, kind) ==
  /\ Running(t, kind, "announce")
  /\ lcm[t] = NoCapture
  /\ sent' = Append(sent, Message(t, "create", arg[t], NewEntry(t, kind)))
  /\ HandOver(t)
  /\ UNCHANGED <<registry, arg, node_state, lcm, collided>>

modality_after_rmw_create_node(t) ==
  Insert(t, "node") \/ Announce(t, "node")

AfterCreateEndpoint(t, kind) ==
  LookupNode(t, kind) \/ Insert(t, kind) \/ Announce(t, kind)

modality_after_rmw_create_publisher(t) == AfterCreateEndpoint(t, "publisher")
modality_after_rmw_create_subscription(t) ==
  AfterCreateEndpoint(t, "subscription")
modality_after_rmw_create_service(t) == AfterCreateEndpoint(t, "service")
modality_after_rmw_create_client(t) == AfterCreateEndpoint(t, "client")

-----------------------------------------------------------------------------
(* Destroy hooks.                                                           *)

\* Mutated destroy hook: the event is sent before its timestamp is taken.
FarewellUnread(t, kind) ==
  /\ Running(t, kind, "farewell")
  /\ LET found == Found(arg[t])
     IN sent' = IF found = NoEntry THEN sent
                ELSE Append(sent, Message(t, "destroy", arg[t], found))
  /\ pc' = [pc EXCEPT ![t] = "remove"]
  /\ UNCHANGED <<entities, registry, arg, node_state, lcm, collided>>

\* MAP.load().get(&address): if there is an entry, now() for the timestamp,
\* then the destruction is sent on the timeline the entry names.
Farewell(t, kind) ==
  /\ Running(t, kind, "farewell")
  /\ LET found == Found(arg[t])
     IN IF found = NoEntry
          THEN UNCHANGED sent
          ELSE /\ lcm[t] = NoCapture
               /\ sent' = Append(sent, Message(t, "destroy", arg[t], found))
  /\ pc' = [pc EXCEPT ![t] = "remove"]
  /\ UNCHANGED <<entities, registry, arg, node_state, lcm, collided>>

\* Mutated remove: one map for all kinds.
RemoveAllKinds(t, kind) ==
  /\ Running(t, kind, "remove")
  /\ registry' = [k \in Kinds |->
                    [registry[k] EXCEPT ![entities[arg[t]].address] = NoEntry]]
  /\ entities' = [entities EXCEPT ![arg[t]].status = "gone"]
  /\ pc' = [pc EXCEPT ![t] = "idle"]
  /\ UNCHANGED <<arg, node_state, lcm, sent, collided>>

\* Mutated remove: a node's entry is kept.
RemoveForgetsNodes(t, kind) ==
  /\ Running(t, kind, "remove")
  /\ registry' = IF kind = "node" THEN registry
                 ELSE [registry EXCEPT
                         ![kind][entities[arg[t]].address] = NoEntry]
  /\ entities' = [entities EXCEPT ![arg[t]].status = "gone"]
  /\ pc' = [pc EXCEPT ![t] = "idle"]
  /\ UNCHANGED <<arg, node_state, lcm, sent, collided>>

\* MAP.rcu(|map| map.remove(&address)), then the hook returns.
Remove(t, kind) ==
  /\ Running(t, kind, "remove")
  /\ registry' = [registry EXCEPT ![kind][entities[arg[t]].address] = NoEntry]
  /\ entities' = [entities EXCEPT ![arg[t]].status = "gone"]
  /\ pc' = [pc EXCEPT ![t] = "idle"]
  /\ UNCHANGED <<arg, node_state, lcm, sent, collided>>

AfterDestroy(t, kind) == Farewell(t, kind) \/ Remove(t, kind)

modality_after_rmw_destroy_node(t) == AfterDestroy(t, "node")
modality_after_rmw_destroy_publisher(t) == AfterDestroy(t, "publisher")
modality_after_rmw_destroy_subscription(t) == AfterDestroy(t, "subscription")
modality_after_rmw_destroy_service(t) == AfterDestroy(t, "service")
modality_after_rmw_destroy_client(t) == AfterDestroy(t, "client")

-----------------------------------------------------------------------------
(* Hooks on the use of an endpoint.                                         *)

\* The hook returns at once when the address has no entry; else it decodes the
\* message with the entry's schema and sends it on the entry's timeline, after
\* now() in all but take_with_info.
Use(t, kind, what, i) ==
  /\ pc[t] = "idle"
  /\ i \in With({"ready"})
  /\ entities[i].kind = kind
  /\ Len(sent) < MaxUses
  /\ Found(i) # NoEntry
  /\ what # "receive" => lcm[t] = NoCapture
  /\ sent' = Append(sent, Message(t, what, i, Found(i)))
  /\ UNCHANGED <<entities, registry, pc, arg, node_state, lcm, collided>>

modality_after_rmw_take_with_info(t, i) == Use(t, "subscription", "receive", i)
modality_after_rmw_send_request(t, i) == Use(t, "client", "send_request", i)
modality_after_rmw_take_response(t, i) == Use(t, "client", "recv_response", i)
modality_after_rmw_take_request(t, i) == Use(t, "service", "recv_request", i)
modality_after_rmw_send_response(t, i) == Use(t, "service", "send_response", i)

-----------------------------------------------------------------------------
(* Publishing.                                                              *)

\* The hook before rmw_publish: the message, decoded with the schema and put on
\* the timeline of the entry found, replaces what the thread held.  (Without an
\* entry the hook leaves everything as it is.)  The publisher is in use until
\* the real function returns.
modality_before_rmw_publish(t, i) ==
  /\ pc[t] = "idle"
  /\ i \in With({"ready"})
  /\ entities[i].kind = "publisher"
  /\ Len(sent) < MaxUses
  /\ Found(i) # NoEntry
  /\ lcm' = [lcm EXCEPT ![t] = Message(t, "publish", i, Found(i))]
  /\ arg' = [arg EXCEPT ![t] = i]
  /\ pc' = [pc EXCEPT ![t] = "publishing"]
  /\ UNCHANGED <<entities, registry, node_state, sent, collided>>

\* Where a thread that holds a capture may read CLOCK_REALTIME: in the transport
\* during rmw_publish, in the application and any function it calls, and in
\* now() of a hook about to send.
ReadsClock(t) ==
  \/ pc[t] \in {"publishing", "idle", "announce"}
  \/ pc[t] = "farewell" /\ Found(arg[t]) # NoEntry

\* The reading takes the capture and sends it.
modality_after_clock_gettime(t) ==
  /\ ReadsClock(t)
  /\ lcm[t] # NoCapture
  /\ sent' = Append(sent, lcm[t])
  /\ lcm' = [lcm EXCEPT ![t] = NoCapture]
  /\ UNCHANGED <<entities, registry, pc, arg, node_state, collided>>

\* rmw_publish returns.  One that succeeded has taken the transport's timestamp,
\* so that a capture still held is that of a publish that failed; nothing takes
\* it back.
RealPublishReturns(t) ==
  /\ pc[t] = "publishing"
  /\ lcm' = [lcm EXCEPT ![t] = IF @ = NoCapture THEN @
                              ELSE [@ EXCEPT !.what = "failed_publish"]]
  /\ pc' = [pc EXCEPT ![t] = "idle"]
  /\ UNCHANGED <<entities, registry, arg, node_state, sent, collided>>

-----------------------------------------------------------------------------
Next ==
  \E t \in Threads :
    \/ \E kind \in Kinds, a \in Addresses, n \in Ids, s \in BOOLEAN :
          RealCreate(t, kind, a, n, s)
    \/ \E i \in Ids : RealDestroy(t, i)
    \/ modality_after_rmw_create_node(t)
    \/ modality_after_rmw_create_publisher(t)
    \/ modality_after_rmw_create_subscription(t)
    \/ modality_after_rmw_create_service(t)
    \/ modality_after_rmw_create_client(t)
    \/ modality_after_rmw_destroy_node(t)
    \/ modality_after_rmw_destroy_publisher(t)
    \/ modality_after_rmw_destroy_subscription(t)
    \/ modality_after_rmw_destroy_service(t)
    \/ modality_after_rmw_destroy_client(t)
    \/ \E i \in Ids :
         \/ modality_before_rmw_publish(t, i)
         \/ modality_after_rmw_take_with_info(t, i)
         \/ modality_after_rmw_send_request(t, i)
         \/ modality_after_rmw_take_response(t, i)
         \/ modality_after_rmw_take_request(t, i)
         \/ modality_after_rmw_send_response(t, i)
    \/ modality_after_clock_gettime(t)
    \/ RealPublishReturns(t)

Spec == Init /\ [][Next]_vars

-----------------------------------------------------------------------------
(* Properties.                                                              *)

Messages == [thread : Threads, what : Occurrences, entity : Ids,
             timeline : Ids, schema : Ids]

TypeOK ==
  /\ entities \in Seq(Entity) /\ Len(entities) <= MaxEntities
  /\ registry \in [Kinds -> [Addresses -> Entry \cup {NoEntry}]]
  /\ pc \in [Threads -> Steps]
  /\ arg \in [Threads -> Ids \cup {0}]
  /\ node_state \in [Threads -> Entry \cup {NoEntry}]
  /\ lcm \in [Threads -> Messages \cup {NoCapture}]
  /\ sent \in Seq(Messages)
  /\ collided \subseteq Ids

\* The timeline an entity's events belong on: its node's.
Own(i) == entities[i].node

\* The hooks should know about i: neither i nor its node had the bad luck of
\* being created at an address whose destroy hook was still running.
Undisturbed(i) == i \notin collided /\ entities[i].node \notin collided

\* No interleaving of hooks leaves an entry behind: an entry was made for an
\* entity of that kind and address whose destroy hook has not ended.
NoStaleEntry ==
  \A k \in Kinds, a \in Addresses :
    registry[k][a] # NoEntry =>
      LET e == entities[registry[k][a].of]
      IN e.kind = k /\ e.address = a /\ e.status # "gone"

\* Even when an address is reused under a running destroy hook, the creation
\* and every use of a supported entity are reported on its own node's timeline,
\* and its messages decoded by its own schema, or not at all, as long as its
\* node was not hit by the same race.
NeverMisattributed ==
  \A n \in 1 .. Len(sent) :
    LET i == sent[n].entity
    IN /\ sent[n].what # "destroy"
       /\ entities[i].supported
       /\ entities[i].node \notin collided \/ entities[i].kind = "node"
       => sent[n].timeline = Own(i) /\ sent[n].schema = i

\* README, "When a message is published by a ROS node, an event is created":
\* an entity in use is in the registry under its own name, unless its address,
\* or its node's, was reused under a running destroy hook.
UndisturbedIsTracked ==
  \A i \in With({"ready"}) :
    entities[i].supported /\ Undisturbed(i) =>
      Found(i) = [timeline |-> Own(i), of |-> i]

\* What is sent about an entity was read from its own entry, or from that of an
\* entity of its kind and address whose destroy hook was running when it was
\* created; and no entry is that of an ignored endpoint.  So (README,
\* MODALITY_ROS_IGNORED_TOPICS: "completely ignored") nothing is sent about an
\* ignored or unsupported endpoint outside that race.
EntryIsOwnOrRaced ==
  \A n \in 1 .. Len(sent) :
    LET i == sent[n].entity
        e == sent[n].schema
    IN /\ entities[e].supported
       /\ e # i => /\ entities[e].kind = entities[i].kind
                   /\ entities[e].address = entities[i].address
                   /\ {i, e} \subseteq collided

\* The channel sees the life of an entity in order, whichever threads live it,
\* but for what failed: its creation comes first and once, and after its
\* destruction comes nothing except a publish of it that failed, kept by another
\* thread than the one that destroyed it until that thread read the clock.
OnlyFailedPublishComesLate ==
  \A m, n \in 1 .. Len(sent) :
    m < n /\ sent[m].entity = sent[n].entity =>
      /\ sent[n].what # "create"
      /\ sent[m].what = "destroy" =>
           /\ sent[n].what = "failed_publish"
           /\ sent[n].thread # sent[m].thread

\* The same as UndisturbedIsTracked without the exception: this is what the
\* README says, and what the code does not keep.
ReadyIsTracked ==
  \A i \in With({"ready"}) :
    entities[i].supported => Found(i) # NoEntry
=============================================================================
