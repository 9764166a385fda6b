# modality-ros2, modelled in TLA+

`modality-ros2` is a shared library that is preloaded into ROS 2 processes. A C
shim (`src/ld_preload_shim.c`) takes the place of the `rmw_*` functions and of
`clock_gettime`; around each real call it runs a hook written in Rust
(`src/modality-ros-hook`). The hooks turn what the application does into events
and put them in a bounded channel; one background thread reads the channel and
sends the events to the Modality backend, each on the timeline of the ROS node
it belongs to.

This directory holds TLA+ modules of that machinery, the TLC configurations that
check them on small instances, and theorems checked by TLAPS. `PROJECT.json`
says for every definition which lines of the source it stands for.

Short names used below: `hooks.rs`, `message_processor.rs`, `lib.rs`, `ros.rs` and
`config.rs` are in `src/modality-ros-hook/src/`; the shim is
`src/ld_preload_shim.c`.

## Inventory

| Component | State | Operations | Talks to | Hard behaviours |
|---|---|---|---|---|
| **Event channel and worker** (`hooks.rs` `Sender`, `message_processor.rs` `message_loop`) | tokio channel of `buffer_size`, `PRINTED_ERROR`, the worker thread | `Sender::new`, `send`, `MessageProcessor::new`, `recv`, drop of the receiver | all hooks send into it; the worker calls the processor | a full channel, relaxed atomics, failure to connect with events queued, exit without flush |
| **Publish capture** (`modality_before_rmw_publish`, `modality_after_clock_gettime`) | thread-local `LAST_CAPTURED_MESSAGE` | capture; take, stamp and send | the DDS layer's clock reading; the channel | the capture outlives a failed publish; the hooks' own clock readings re-enter the clock hook |
| **Entity registries** (`NODES`, `PUBLISHERS`, `SUBSCRIPTIONS`, `SERVICES`, `CLIENTS`) | five maps from an address to what is known of the entity | ten create and destroy hooks, six hooks on uses | the shim calls them; they send into the channel | address reuse while a destroy hook is pending; snapshots of `NODES`; look-up and removal are not one step |
| **Message processor** (`handle_*`) | `currently_open_timeline`, `created_timelines`, `sent_timeline_publisher_metadata`, `attr_key_cache`, `ordering` | three handlers, `open_timeline`, `send_timeline_metadata`, `interned_attr_key` | the ingest client (a TCP connection) | every call may fail half-way through a handler; caches that are filled before the call they stand for |
| **Service calls** | sequence numbers and client guids in events | four service hooks, `handle_service_event` | registries, channel | request and response are matched on two machines; the size of a response is taken from the request's type |
| **Message schemas** (`lib.rs`, `ros.rs`) | a flat schema per registry entry | convert and flatten a type description, interpret a buffer by it | hooks | nested offsets, arrays, limits, a field that fails in the middle of a message, C and C++ memory |
| **Configuration** (`config.rs`) | none after start | parse the environment | channel size, ignored topics, array limit, connect timeout | unset, garbled, negative and too large values; a channel size of zero |
| **Shim** | pointers to the real functions | one wrapper per function | the hooks | which hook runs before or after, and on which result |
| **Build script, integration tests** | - | - | - | - |

What makes each component correct:

* Channel: an accepted event is handled once, in the order of acceptance; a
  dropped event is reported; nobody waits for ever.
* Capture: a message the transport wrote becomes its events once, in order,
  with the very timestamp the transport used, because
  `sub.interaction.remote_timestamp = pub.timestamp` is how the two ends of a
  message are joined (`src/integration-test/specs`).
* Registries: an entity in use is known, under the timeline of its own node;
  nothing is reported of an ignored topic; no entry outlives its entity; events about
  an entity are sent in the order of its life. The reuse race and failed publishes
  are the exceptions, and nothing else is.
* Processor: events and metadata land on the timeline of their node; positions
  have no gap; names and publisher ids are sent before the events that need
  them.
* Pipeline: each event a hook sent is recorded, or is lost for a known reason.
* Service calls: an event of the service names the event of the client that
  belongs to the same call and no other, however the calls of several clients
  overlap; a call is fully traced unless one of its events was missed.
* Message schemas: what an event says under a name is in the message under that
  name; a field that fails costs no other member; a diagnostic array becomes one
  event per status item.
* Configuration: whatever the variables hold, a limit or a list that does not
  parse leaves the documented default in place, and what parses is obeyed.

## Modules

| Module | Models | Checked by |
|---|---|---|
| `EventLog` | what the channel promises, in the abstract | refinement properties of `HookChannel` |
| `HookChannel`, `MCHookChannel` | `Sender`, the channel, the worker loop | `HookChannelSafety.cfg`, `HookChannelLive.cfg` |
| `HookChannelProofs` | theorems about `HookChannel` | TLAPS |
| `PublishCapture`, `MCPublishCapture` | the thread-local capture and the clock hook | `PublishCapture.cfg`, `PublishCaptureFailed.cfg` |
| `PublishCaptureProofs` | theorems about `PublishCapture` | TLAPS |
| `MessageProcessor`, `MCMessageProcessor` | the handlers and their caches | `MessageProcessor.cfg` |
| `MessageProcessorProofs` | theorems about `MessageProcessor` | TLAPS |
| `EntityRegistry`, `MCEntityRegistry` | the registries and their hooks | `EntityRegistry.cfg`, `EntityRegistryReuse.cfg` |
| `EntityRegistryProofs` | theorems about `EntityRegistry` | TLAPS |
| `TracePipeline`, `MCTracePipeline` | `HookChannel` and `MessageProcessor` composed | `TracePipeline.cfg`, `TracePipelineNameless.cfg` |
| `TracePipelineProofs` | theorems about `TracePipeline`, from those about its parts | TLAPS |
| `ServiceRpc`, `MCServiceRpc` | both sides of a service call, from the real functions to the backend | `ServiceRpc.cfg` |
| `ServiceRpcProofs` | theorems about `ServiceRpc` | TLAPS |
| `HookConfig` | `from_env` and the parsing of the variables (operators) | `PayloadCapture.cfg` |
| `MessageSchema` | conversion and flattening of type descriptions (operators) | `PayloadCapture.cfg` |
| `MessageInterpreter` | the memory of a message and how a flat schema reads it (operators) | `PayloadCapture.cfg` |
| `PayloadCapture`, `MCPayloadCapture` | the hooks that make entries and payloads, composed of the three above | `PayloadCapture.cfg`, `PayloadCaptureNested.cfg` |
| `PayloadCaptureProofs` | theorems about `PayloadCapture` and the operators it uses | TLAPS |
| `Recursion` | recursive functions over ranked data: their equation, and induction over the rank | TLAPS |

Operators whose comment begins with "Mutated" are plausible mistakes in the code;
none of them is part of a specification. Each property is shown to fail when one
of them takes the place of the definition it follows, so a property that passes
does say something about the code.

### HookChannel

The variables `queue`, `printedError` and `worker` are the tokio channel, the
`PRINTED_ERROR` flag and the point the worker thread has reached; `pc` is where
each application thread is inside `send`. `SendAccepted`, `SendFull` and
`SendClosed` are the three results of `try_send`. A full channel leads through
`LoadPrinted`, `PrintFull` and `StorePrinted`, three steps because other threads
run between them. The flag is read with relaxed ordering: `sawPrinted` holds the
threads that can no longer read it as false (coherence forbids a thread to
un-see a value), all others may read either value once it is set.

`Connected` and `InitFailed` are the outcomes of `MessageProcessor::new`. After a
failure the reason is printed first (`failing`) and the receiver dropped later
(`DropReceiver`); between the two the channel still accepts events. `Receive` and
`HandlerReturned` are the loop. `Exit` may happen at any time and freezes
everything: no thread is joined.

`ImplementsLog` is the refinement: with `log <- accepted`, `delivered <- handled`
and `open <- worker # "terminated" /\ ~exited` the channel is an `EventLog` in
which at most `BufferSize + 1` events wait, the extra one being in the worker's
hand.

### PublishCapture

`BeforePublish` and `BeforePublishUntracked` are the two ways through
`modality_before_rmw_publish`; `n`, the number of events a message is decoded to,
is more than one for diagnostic arrays and may be zero. `ClockGettime` is
`modality_after_clock_gettime`, and the actions that use it say who reads the
clock: the DDS layer before (`EarlyRead`), for (`TakeStamp`) or after (`LateRead`)
its transport timestamp, or anything else the thread does (`OtherRead`), the
hooks' own `now` included. What the DDS layer does is external; the module takes
from the comment on `LAST_CAPTURED_MESSAGE` that the first wall-clock reading
inside a publish is the transport timestamp, and no more than that.

### MessageProcessor

Each handler is a sequence of client calls ended by `?`. `Program` gives the
sequence for each kind of event, `step` the next call. The tests that spare a
call (`OpenSkipped`, `KeysSkipped`, `NodeSkipped`, `GidSkipped`) are the caches.
`CallFails` ends the handler at any call and keeps what the code has changed by
then: `created_timelines` and `sent_timeline_publisher_metadata` are filled before
the call that uses them, `attr_key_cache`, `currently_open_timeline` and
`ordering` after. The client is external; it records events and metadata on the
timeline opened last.

### EntityRegistry

`entities` is the truth (kind, address, node, life cycle), `registry` what the
hooks believe. `RealDestroy` frees the address before the destroy hook runs, so
that `RealCreate` may put the next entity there. A create hook is `LookupNode`,
`Insert`, `Announce`; a destroy hook is `Farewell`, `Remove`; one step per access
to shared state. `collided` remembers the entities hit by the reuse race, which
is how the properties say that nothing else goes wrong.

A publish is not sent by its hook. `modality_before_rmw_publish` puts what it
captured into `lcm`, the thread's `LAST_CAPTURED_MESSAGE`, with the timeline and
schema of the entry it found; `modality_after_clock_gettime` sends it when the
thread reads the wall clock: in the transport during the publish, in `now()` before
a hook sends an event of its own, or anywhere in the application (`ReadsClock`).
`RealPublishReturns` ends the publish: one that succeeded has been stamped, so a
capture that is still there is that of a failed one, and stays. The publisher is
in use until then and cannot be destroyed; afterwards it can, by any thread, with
the capture still waiting. `thread` and `failed_publish` in a message are history,
the events do not have them. The module follows the order of what is sent;
`PublishCapture` has the same two hooks with the readings, other clocks, messages of
several events and publishers without an entry.

`OnlyFailedPublishComesLate` is the order that results: the creation of an entity is
sent once and first; after its destruction comes nothing but failed
publishes, and only from other threads than the destroyer, whose own capture is
flushed when its hook reads the clock for the event.

### TracePipeline

Both modules are instantiated. The event in the worker's hand is the one the
handler runs for, and each call of the handler is a step during which the hooks
go on sending. `HookSends` adds the order of the application: a node's creation
is sent before anything else about it.

### ServiceRpc

A call is a client and a sequence number, which is what rmw identifies it by.
`sender`, `server` and `taker` say how far the call is in the client's sending
thread, in the service and in the client's taking thread; the real function and
the hook after it are two steps wherever another thread can see the difference,
so that a response may be taken before the hook of its request has run. Each
process has a bounded queue, and its worker turns an event into `Attributes`:
the client's event carries the call (`internal`), the service's carries the event
type, guid and number of the client's event it goes with (`remote`). `metadata` is
the guid that `send_request`, and nothing else, puts on the client's timeline; the
backend needs it to resolve a guid. `lost` and `failures` remember the events that
met a full channel or a failing call of the ingest client. The channel and the
processor appear as what `HookChannel` and `MessageProcessor` were shown to promise.

### PayloadCapture

`env` is what the variables hold and `config` what `from_env` makes of them;
`endpoint` is one publisher, subscription, service or client and `entry` the flat
schemas its create hook stored; `handled` is the message its use hook was given
and `captured` the events that came of it. `MessageSchema` lays a type out in
memory (`Layout`, a cell per word, which stands for rosidl's tables) and translates
the conversion of those tables and `flatten`; `MessageInterpreter` says what a word
of a message is in a C or a C++ node (`WordAt`), and reads the message by the flat
schema with the code's own offsets and lengths. The functions of the code that
call themselves over nested types are recursive functions here, each with its
step as an operator of its own (`FlattenAll`, `InterpretMember`, `UnitsIn`). Scalars that behave
alike are one sort: always readable, a wide string that may not decode, one
without an attribute value. Every leaf of a message has its own path as its value,
so that an attribute tells where it was read. Reading past the end or through a
word that is not what the schema says yields `Junk`, any outcome that does not
crash. The properties are stated against `Units`, which reads the type definition
and the message directly and knows nothing of schemas and flat members: only
the place of an inline field in its struct is looked up, to say which arrays are
misread (`Unit`) and which fields lie behind the size of a request (`Visible`).
`FaithfulPayload`, `LossIsLocal` and the array limit are about messages that become
one event; diagnostic arrays have `OneEventPerStatus`, which says of each event all
that it holds: the scalars of the message and its structs (`PlainAttributes`), those
of one status item, and two attributes for each of the item's values
(`PairAttributes`). What the definitions of `diagnostic_msgs` promise for that is
`DiagnosticAssumption`: a status field, a values field, a key and a value, and any
scalars besides, in structs or not.

## Runs

| Run | Bounds | Shows |
|---|---|---|
| `hook_channel_safety` | 3 threads, 6 events, capacity 2 | order and conservation, one warning per thread, closed only after a word, the refinement |
| `hook_channel_live` | 2 threads, 3 events, capacity 1 | a loss is reported, an accepted event is handled, delivery of the log goes on |
| `publish_capture` | 2 threads, 2 calls each, 5 clock readings, up to 2 events per message | the right stamp, once, in order; what is left over failed |
| `publish_capture_failed` | 1 thread, 2 calls, 3 readings | violation: a message that was never written is traced as published |
| `message_processor` | 4 events of 8 kinds, 2 timelines, 2 gids, 2 failing calls | own timeline, gapless positions, only failures lose, names and gids first |
| `entity_registry` | 2 threads, 2 addresses, 3 entities, uses while fewer than 4 events were sent | no stale entry, no wrong timeline or schema, a foreign entry is read only in the race, only the race loses an entity, only a failed publish is sent late |
| `entity_registry_reuse` | 2 threads, 1 address, 2 entities | violation: a new node loses its entry to the destroy hook of the old one |
| `trace_pipeline` | 2 threads, 4 events of 2 nodes, capacity 1, 1 failing call | every event accounted for, order to the backend, why a timeline has no name, liveness of the whole |
| `trace_pipeline_nameless` | 1 thread, 4 events, capacity 1 | violation: a timeline that never gets a name |
| `service_rpc` | 2 clients of one node, 3 possible calls of which 2 are made, 2 processes, capacity 1, 1 failing call, 3 sets of endpoints with entries | the two sides of a call are joined exactly, a missing link has a missed request behind it, a call is traced in the end |
| `payload_capture` | 12 message types, 8 of them handled by a hook and the others inside them; lengths 0 to 3, limits unset, garbled, 0, 1, default 2 and too large, C and C++ | payloads are faithful, a failure is local, the configuration is obeyed, one event per status item |
| `payload_capture_nested` | one type with an array inside a struct | violation: the array is read at the wrong place |

Why the bounds are enough. In the channel, three threads can all be reporting at
once while a fourth and fifth event wait and a sixth is offered: the channel fills
both while the worker connects and while it handles. A thread of
`PublishCapture` shares nothing with the others but the clock, so two threads
only show that; two calls and five readings let a failed publish, its leftover, an
untracked publish and the flush of one by the other all occur. Two failing calls
can hit both the metadata and the event of one publisher; four events are enough
for two timelines to be left and reopened. In the registry, three entities on two
addresses make a node, its endpoint and a reuse of either, and four events leave room
for a failed publish to be sent after a publisher's destruction; that no larger
instance differs is what `EntityRegistryProofs` proves.

In `service_rpc` the calls `<<c1,1>>`, `<<c1,2>>` and `<<c2,1>>` let a client have two
calls under way, and two clients use the same number at once; only two are made,
which is all a join can confuse. A capacity of one makes every event droppable,
and the sets of registered endpoints leave out either side. In `payload_capture` a
default limit of two with lengths up to three puts an array below, at and above
each limit; the types have a member of every kind at the top, inside a struct and
inside the items of a sequence, with another member behind it that a wrong offset
or a failure would disturb. `UsizeLimit = 128` stands for 2^64: it only matters that
a number can be too large to parse.

`CHECK_DEADLOCK FALSE` appears where the model stops for a good reason: the events
(calls, readings, entities) of an instance are finite, and the process may exit.

## Fairness

`HookChannel!Fairness` assumes that a thread inside `send` keeps running (none of
its steps blocks) and that the worker keeps running: connecting ends by the
configured timeout, with success or not, and each client call ends because the
peer answers or the connection breaks. Nothing makes a thread send, a connection
succeed or the process stay alive; the liveness properties therefore carry
`exited` and `terminated` as ways out. `TracePipeline!Fairness` is the same with
the handler's calls in the place of one step. `ServiceRpc!Fairness` says that a
thread whose real call has returned goes on to its hook, and that each worker
goes on; whether a request or a response ever arrives is not promised, so its
liveness property starts from a response that was taken. The other modules state
no fairness and no liveness: what they model ends by itself or depends on an
application that may stop at any point.

## Proofs

`HookChannelProofs` (any number of threads, any events, any capacity above zero):

* `TypeCorrect`: types, the capacity bound, and that the worker has exactly one
  event in hand while it handles. It is inductive as it stands.
* `Conserved`: accepted = handled, in hand, queued. It needs `TypeOK`, and that a
  sequence is its head followed by its tail (`HeadThenTail`).
* `WarnedOnce`: the counter alone is not inductive; `ReportProtocol` ties it to the
  program counter and to what the thread can still read of `PRINTED_ERROR`.
* `Announced`: `FailureAnnounced` adds that a worker that is failing has already
  spoken; without it the step that closes the channel would be unexplained.
* `ChannelIsLog`: each step of the channel is a step of `EventLog` or a stutter.
  `AcceptRefines` needs that no event is accepted twice (`AcceptedWereOffered`)
  and the capacity; `DeliverRefines` needs `Conserved`, which says that the event in
  hand is the next one of the log.

`PublishCaptureProofs` (any number of threads, any bounds on calls, readings and
events of a message): all five invariants of the run.

* `TypeCorrect`: inductive once a thread inside `rmw_publish` is known to have a
  current call (`HasCall`).
* `LeftoverFailed`, `StampsAgree`, `CallOrder`, `StampedTraced`: none is inductive
  alone. `CaptureInv` says for each thread that what it holds was captured by one
  of its calls, is not stamped, and that nothing of it or of a later call was
  sent (`CaptureIsPending`); that a publish under way has sent nothing
  (`PublishIsPending`); that calls not made yet have left nothing
  (`FutureIsBlank`); and why a capture is there (`CaptureHasCause`). With that, a
  reading can only append events of one call, later than all sent before
  (`FlushFacts`). Threads share only the clock, so a step needs to be examined
  for its own thread alone (`OthersUntouched`).

`MessageProcessorProofs` (any events of the right shape, any number of receipts
and of failures): all seven invariants of the run.

* `ProgramFacts` is what the proofs need of the handlers: each opens the timeline
  first, records the event last and nowhere else, and `create_node`, `publish` and
  `receive` name the node, `publish` the publisher, on the way.
* `TypeCorrect`, `OnlyFailures`: the position is bounded by the number of receipts
  only because no event is lost without a failure, so types and counts are
  inductive together (`TypeInv`).
* `InOrder`, `Gapless`: `ReceiptsArePast` says that whatever was recorded was
  received before the event in hand.
* `OnOwnTimeline`, `NamedFirst`, `AdvertisedFirst`: `CacheInv` says that the
  processor knows what the client has open (`Synced`), that the calls made so
  far for the event in hand have left behind what they stand for (`CallsMade`),
  and that a cache claims no more than was sent or failed (`CachesHonest`).

`EntityRegistryProofs` (any threads, addresses, numbers of entities and events):
all six invariants of the run, from one inductive invariant `IInv`.

* The properties are about entries and messages, the race is about life cycles;
  so `IInv` ties them together. `ThreadInv` says what a thread knows inside a hook,
  `Alone` that an entity has one hook at a time. `World` orders the entities: the
  node of a live endpoint is in use (`NodeInv`), live entities have addresses of
  their own (`Apart`), and entities that share one are marked as collided
  (`Marked`).
* `NoStale` follows from `EntryInv`: an entry was made for an entity of that kind
  and address which is not gone. `UndisturbedTracked` is `HasEntry` and `OwnEntry`:
  until it collides, an entity past its create hook finds an entry, and its own.
  `Remove` is the step that needs `Marked`: it removes by address, so what it removes
  belongs to its entity or to one that has collided with it.
* `Attributed`, `OwnOrRaced`, `LateIsFailed` are about what was sent; `MessageInv`
  states it in a form that stays true while entities only move on (`MessagesLast`),
  from the capture on: `HeldInv` says it of what a thread holds. `OwnOrRaced` is
  `Marked` at the moment of the look-up.
* `LateIsFailed` is `Ordered`. A creation comes first because nothing is sent or
  captured about an entity that is still being created. What follows a destruction
  was captured before it; `HeldInv` says that a capture which is not marked as
  failed belongs to the publish its thread is in, whose publisher cannot have
  been destroyed, and that a thread holds nothing about an entity whose
  destruction it has sent itself.

`TracePipelineProofs` (any threads, events and capacity above zero): all four
invariants of the run.

* `ChannelRefined`, `HandlerRefined`: every step of the pipeline is a step of the
  channel or leaves it alone, and the same for the processor. The theorems of
  `HookChannelProofs` and `MessageProcessorProofs` are instantiated with the mapping
  of `TracePipeline` and hold of the pipeline without being proved again; this gives
  `TypeCorrect`.
* `Accounted`, `Followed`, `NamelessExplained` relate the two parts. `Counted` counts
  what was offered, `RecordsAccepted` says that receipt k of the processor is the
  k-th accepted event (from the order of the channel and `OnlyFailuresLose`), and
  `CreatedFirst` that ahead of any accepted event the creation of its node was
  accepted or is among the lost. A nameless record then needs a failure or such a
  loss, because the processor names a timeline on a creation (`NamedBeforeEvents`).

`ServiceRpcProofs` (any clients, nodes, processes, calls, capacities and failures):
the three invariants of the run.

* `Joins` needs that every event under way names its own call and its own
  endpoint's timeline (`Genuine`, kept by every queue and by `lost`), and that what is
  recorded is made of such an event (`Faithful`).
* `Unlinked` needs `RequestAccountedFor`: a request whose hook has run was missed,
  waits in the queue of the client's process, or has put the guid on the timeline.

`PayloadCaptureProofs` (all message types, however deep messages are nested in them,
all shapes, environments and limits): all five invariants of the run.

* Types are nested in each other, and layout, flattening, interpretation and the
  reference definition `Units` follow the nesting. `Recursion` makes them
  tractable, by lemmas about recursion in general: `RecursionEquation` says that a function whose value at an element
  depends on elements of lower rank only exists and satisfies its definition, and
  `RankInduction` proves a statement, given as the set of elements for which it
  holds, up the ranks. `PayloadCaptureProofs` instantiates the module with each of
  the recursive definitions; the rank is `Depth`, how deep messages are nested in a
  type.
* `FlatSchemaIsFlat`: what a type is flattened to is exactly a member per field that
  lies inline, under its path; `InlineCells` and `ItemCells` say that these fields lie
  in memory where the members say, but for arrays of scalars in structs.
* `EveryFieldRead`: whatever a message is read with (`Shows`: its handle points to a
  place of a message), each member pushes what its units hold and nothing else
  (`Sound`), and all of it unless one of them fails (`Complete`). Both directions are
  needed in the induction: a sequence stops at the first item that fails.
* `OneUnitPerKey`: no unit's path continues that of another one, because fields of
  a type have different names and indices different texts; so an attribute is
  told apart from those of an array that is over the limit.
* `DiagnosticRead` is about the code's other way through a message, which reads the
  items of a diagnostic array without the prefix of their place, so that
  `EveryFieldRead` says nothing of it. It goes from the inside out: `PlainPushed` (a
  scalar pushes its value and does not fail), `PairRead` and `ValuesRead` (an item of the
  values field becomes its two attributes, the field those of all its items),
  `StatusRead` (the loop over the fields of an item), `StatusItemRead` and `CommonRead`.
  `ItemsFound` says that the items of a field are handles that show the items of the
  message; `FieldLoop` and `EventLoop` say what the loops push when no round fails.
  That none fails is part of each lemma: a field that fails would end the items that
  follow it, and only the scalars of the three types keep that from happening.
* `IInv`, the inductive invariant, says what an entry holds (the flat schema of the
  endpoint's own type, or nothing for an ignored topic) and that `captured` is what
  the schema of the message's direction makes of the message, read up to
  `VisibleSize`; for a diagnostic array it is `AreDiagnosticEvents`. `CaptureTypes`,
  `CaptureIsFaithful`, `LossStaysLocal` and `ConfigHonoured` follow from it with
  `EveryFieldRead`, `OneUnitPerKey` and, for the name a log message gets, `NamedFacts`;
  `EventPerStatusItem` with `DiagnosticRead`.

Only model-checked: the liveness properties, because TLAPS does not reason about
`ENABLED` and fairness. Every invariant and every action property of the passing
runs is a theorem.

Assumptions: a channel has a capacity of at least one (tokio panics otherwise);
the bounds of `PublishCapture`, `MessageProcessor`, `EntityRegistry`, `ServiceRpc` and
`TracePipeline` are natural numbers; events of `MessageProcessor` have the shape the
hooks give them; in `TracePipeline` every event is about a node and every node has
a creation (`EventsAssumption`); in `ServiceRpc` the service is not one of the clients
and every endpoint has a node and a process (`EndpointsAssumption`); in `PayloadCapture`
a type is nested in types of greater depth only, its fields have different names,
none of which has a dot in it, and messages always have accessors, since the
definitions come from a compiler (`FieldsAssumption`, `NamesAssumption`); lengths fit
in a usize, different indices have different texts, and a bounded sequence keeps its
bound (`MemoryAssumption`); a pointer is a larger number than any limit that is
configured (`AddressAssumption`); and a service is not called `Log`
(`EndpointsAssumption`: in the code the namespace, which the model leaves out, tells
it from the log message); and the types of `diagnostic_msgs`, when there are any, have
the fields that package gives them (`DiagnosticAssumption`). The comments of
each module name what is external: tokio's channel and arc-swap's maps are
linearisable, the DDS layer stamps before any other wall-clock reading of a
publish, the client sends to the timeline opened last, rmw numbers the requests of
a client and identifies it by its guid, rosidl's tables give the true sizes and
offsets, and the application follows the rules of the rmw interface.

## What disagrees with the documentation

* **A failed publish is traced** (`publish_capture_failed`). When the real
  `rmw_publish` fails before its timestamp, the captured message stays in the
  thread-local and the next wall-clock reading of the thread, for whatever
  reason, sends it as published. That can be after another thread destroyed the
  publisher and reported it: "destroyed" is not always the last event about a
  publisher (`OnlyFailedPublishComesLate` says when it is).
* **A reused address loses its entity** (`entity_registry_reuse`). The destroy
  hook runs after the real destroy and removes by address; an entity created
  there in between vanishes from the registry.
* **A timeline without a name** (`trace_pipeline_nameless`). Only the creation of a
  node and its topic messages carry the name; when the one event that carries it
  for a node without topics meets a full channel, its timeline stays nameless.

* **A nested array is read at the wrong place** (`payload_capture_nested`). `flatten`
  adds the offset of the enclosing struct to scalars and to sequences of messages,
  but not to arrays of scalars (`lib.rs:238`); the event says under the name of the
  array what lies nearer the start of the message. `FaithfulPayload` and
  `LossIsLocal` leave such arrays out and hold for everything else.

Also met while modelling, each part of the model as the code has it:

* The size of a response is taken from the request's members when the service
  sends it (`hooks.rs:978`): members of the response beyond that size are left out
  (`Visible`).
* A bounded sequence is read as if it were full, whatever its length
  (`lib.rs:662`); `FaithfulPayload` leaves one below its bound out (`misread`).
* The length of an unbounded scalar array is the word after its first pointer
  (`lib.rs:665`), right in C; in a C++ vector that word is a pointer, so the array
  is taken for longer than any limit and left out. (In a `std::vector<bool>` the word
  is a bit offset and padding; the model treats it as a pointer too. Where the code
  finds it small it fails on the missing accessor instead: no attribute either way,
  but a failure ends the member.)
* The array limit is not applied to sequences of messages (`lib.rs:732`), though
  `config.rs:21-23` speaks of any array.
* The create hooks of services and clients pass the schema's name and namespace
  in swapped order (`hooks.rs:817-818`, `hooks.rs:875-876`).
* The repository's README (150-153) has both request events on the client's timeline
  and both response events on the service's. Each hook logs on its own node
  (`ServiceEvent`): sending a request and taking a response on the client's, the
  other two on the service's.
* Diagnostic keys that differ only in what normalisation removes become one key
  (`lib.rs:527`).

## Not modelled

* Lengths of two sequences whose fields have the same name: a message's shape gives
  one length per field name, so the items of a status array have as many values each
  (`Items`).
* Types without introspection type support, and the attributes the handlers add
  on their own: names and values that decide nothing else.
* `to_epoch_nanos` and its inverse at the edge of 64 bits; a captured time is a
  reading, compared for equality only.
* The value of the connect timeout (connecting ends, with success or not) and the
  run id, which influence nothing else.
* The destruction of thread-locals at thread exit, and the lazy look-up of the
  real functions in the shim (every thread writes the same pointer); the shim is
  therefore modelled in part.
* Creations and destructions that fail: the shim runs no hook for them.
* The composition of `EntityRegistry` and `PayloadCapture` with `TracePipeline`: which
  events are sent and what they contain does not depend on what became of earlier
  ones, so the pipeline takes them as given.
* The build script, which generates and links bindings, and the integration
  tests, which run whole ROS nodes: no state of the program.

## Plan

The most important behaviour came first:

1. `EventLog`, `HookChannel`; `PublishCapture`, `MessageProcessor`, `EntityRegistry`,
   `TracePipeline`, with their proofs (done).
2. `ServiceRpc` with proofs, `HookConfig`, `MessageSchema`, `MessageInterpreter`,
   `PayloadCapture` (done).
3. `PayloadCapture` in a form that can be reasoned about, `Recursion` and
   `PayloadCaptureProofs` (done).
4. The theorem for `OneEventPerStatus`, for any definition of the diagnostic types with
   these fields (done).
5. Left: the time conversions at the edge of 64 bits; a `ServiceRpc` whose queues and
   workers are `TracePipeline` itself rather than what it promises.
