--------------------------- MODULE PayloadCapture ---------------------------
(***************************************************************************)
(* What a hook makes of the payload of a message: hooks.rs creates the      *)
(* entry of an endpoint with a flat schema, and interprets with it every    *)
(* message the endpoint handles, as the configuration says.  One endpoint   *)
(* and one message at a time; which entry a hook finds is EntityRegistry's  *)
(* matter, and what becomes of the events is HookChannel's.                 *)
(***************************************************************************)
EXTENDS MessageInterpreter, HookConfig

CONSTANTS
  Environments,  \* what the environment variables may hold
  Topics,        \* the names of the topics there are
  Services,      \* the services: a name, a request type and a response type
  Messages,      \* the message types that are published
  Shapes(_),     \* per type: the shapes of its messages, see Items
  JunkNumbers    \* what reading a word as the size of a sequence may yield

\* Topics carry messages, and services have a namespace that no message is in,
\* that of the log messages included.
ASSUME EndpointsAssumption ==
  /\ Types \subseteq STRING /\ Messages \subseteq Types
  /\ \A service \in Services :
       /\ service.name \in STRING \ (Types \cup {"Log"})
       /\ service.request \in Types /\ service.response \in Types

\* Lengths and indices fit in a usize; indices have different texts; a bounded
\* sequence keeps its bound.
ASSUME MemoryAssumption ==
  /\ JunkNumbers \subseteq Nat
  /\ \A t \in Types : \A n \in 1 .. Len(Fields[t]) :
       Fields[t][n].array_size < UsizeLimit
  /\ Decimal \in [0 .. UsizeLimit - 1 -> STRING]
  /\ \A i, j \in 0 .. UsizeLimit - 1 : Decimal[i] = Decimal[j] => i = j
  /\ \A t \in Types : Shapes(t) \subseteq MessageShapes
  /\ \A shape \in MessageShapes :
       /\ shape.bad \in Path
       /\ \A name \in DOMAIN shape.len : shape.len[name] \in 0 .. UsizeLimit - 1
       /\ \A t \in Types : \A n \in 1 .. Len(Fields[t]) :
            LET f == Fields[t][n]
            IN IsSequence(f) /\ f.array_size # 0 => Items(f, shape) <= f.array_size

\* The names the hook gives attributes of its own, and a field's name is an
\* identifier, which has no dot in it.
OwnNames == {"event.ros.schema.name", "event.name", "normalized", "key"}
ASSUME NamesAssumption ==
  /\ OwnNames \subseteq STRING
  /\ \A t \in Types : \A n \in 1 .. Len(Fields[t]) :
       Fields[t][n].name \notin {"event.ros.schema.name", "event.name"}

\* Nobody asks for arrays as long as an address is large.
ASSUME AddressAssumption ==
  /\ Address \in Nat /\ DefaultArrayLen < Address
  /\ \A e \in Environments : e.max_array_len.kind = "text" =>
       e.max_array_len.number \notin Address .. UsizeLimit - 1

VARIABLES
  env,       \* the environment variables, as CONFIG found them
  config,    \* CONFIG
  endpoint,  \* the endpoint, as the application created it
  entry,     \* its entry in the registry: a flat schema per direction
  handled,   \* the message the last hook was given
  captured   \* the events that hook made of it, each a sequence of attributes

vars == <<env, config, endpoint, entry, handled, captured>>

NoEndpoint == [role |-> "none"]
NoEntry == [request |-> <<>>]
NoMessage == [t |-> "none"]

\* The environment is read once, at the first use of CONFIG.
Init ==
  /\ env \in Environments
  /\ config = from_env(env)
  /\ endpoint = NoEndpoint
  /\ entry = NoEntry
  /\ handled = NoMessage
  /\ captured = <<>>

-----------------------------------------------------------------------------
(* Interpretation of a whole message.                                       *)

SchemaName(schema) ==
  <<[key |-> <<"event.ros.schema.name">>, value |-> <<schema.name>>]>>

ValueOf(kvs, key) ==
  LET n == SelectInSeq(kvs, LAMBDA kv : kv.key = key)
  IN IF n = 0 THEN {} ELSE {kvs[n].value}

extract_log_message(schema, kvs) ==
  IF schema.name = "Log" THEN ValueOf(kvs, <<"msg">>) ELSE {}

NameKeys == {<<"name">>, <<"event.name">>}

\* The message of a Log entry takes the place of its name.
NamedByLogMessage(schema, kvs) ==
  LET named == SelectInSeq(kvs, LAMBDA kv : kv.key \in NameKeys)
      msg == extract_log_message(schema, kvs)
      v == CHOOSE value \in msg : TRUE
  IN CASE msg = {} -> kvs
       [] msg # {} /\ named # 0 -> [kvs EXCEPT ![named].value = v]
       [] OTHER -> Append(kvs, [key |-> <<"event.name">>, value |-> v])

interpret_single_message(schema, message) ==
  NamedByLogMessage(schema,
    SchemaName(schema) \o
    InterpretMembers(schema.members, message, config.max_array_len))

\* A message sequence of the given name whose items have the given type.
IsSequenceOf(m, name, t) ==
  m.kind = "message_sequence" /\ m.key = <<name>> /\ m.message_schema = t
as_status_field(m) == IsSequenceOf(m, "status", "DiagnosticStatus")
as_values_field(m) == IsSequenceOf(m, "values", "KeyValue")

\* A value as a key.  Different values may become the same key in the code.
normalize_string_for_attr_key(value) == <<"normalized">> \o value

\* The two attributes of an item of the values field that was read as kvs.
KeyAndValue(kvs) ==
  LET k == ValueOf(kvs, <<"key">>)
      v == ValueOf(kvs, <<"value">>)
      ks == normalize_string_for_attr_key(CHOOSE key \in k : TRUE)
  IN IF k = {} \/ v = {} THEN <<>>
     ELSE <<[key |-> ks, value |-> CHOOSE value \in v : TRUE],
            [key |-> Append(ks, "key"), value |-> CHOOSE key \in k : TRUE]>>

KeyValuePair(values_schema, item) ==
  KeyAndValue(InterpretMembers(FlatSchema(values_schema.message_schema).members,
                               item, config.max_array_len))

\* A member without a prefix.
Pushed(m, message) ==
  interpret_message[[member |-> m, prefix |-> <<>>, message |-> message,
                     limit |-> config.max_array_len]]

ValuePairs(m, item) ==
  [j \in 1 .. item_count(m, item) |->
     Done(KeyValuePair(m, MessageItem(m, item, j - 1)))]

\* The fields of a status item, the one with the values by pairs.
StatusFields(members, item) ==
  UntilFailure([n \in 1 .. Len(members) |->
    IF as_values_field(members[n])
      THEN Done(for_each_item(members[n], item, ValuePairs(members[n], item)).out)
      ELSE Pushed(members[n], item)])

\* A status item as an event of its own; a field that fails ends it, and with
\* it the items that follow.
ItemEvent(common, fields) ==
  IF fields.ok THEN Done(<<common \o fields.out>>) ELSE Failed(<<>>)

StatusEvent(status_schema, common, item) ==
  ItemEvent(common,
            StatusFields(FlatSchema(status_schema.message_schema).members, item))

\* The members outside of the status field.
CommonAttributes(schema, message) ==
  SchemaName(schema) \o
  IgnoringFailures([n \in 1 .. Len(schema.members) |->
    IF as_status_field(schema.members[n]) THEN Done(<<>>)
    ELSE Pushed(schema.members[n], message)])

StatusEvents(status_schema, common, message) ==
  for_each_item(status_schema, message,
    [i \in 1 .. item_count(status_schema, message) |->
       StatusEvent(status_schema, common,
                   MessageItem(status_schema, message, i - 1))]).out

\* Mutated: the attributes pile up from one status item to the next.
EventsPileUp(schema, common, message) ==
  LET status == SelectInSeq(schema.members, as_status_field)
      events == StatusEvents(schema.members[status], common, message)
  IN IF status = 0 THEN <<common>>
     ELSE [n \in 1 .. Len(events) |-> FlattenSeq(SubSeq(events, 1, n))]

EventPerStatus(schema, common, message) ==
  LET status == SelectInSeq(schema.members, as_status_field)
  IN IF status = 0 THEN <<common>>
     ELSE StatusEvents(schema.members[status], common, message)

\* interepret_as_diagnostic_array: an event per status item, each with the
\* members outside of the status field.
DiagnosticEvents(schema, message) ==
  EventPerStatus(schema, CommonAttributes(schema, message), message)

interpret_potentially_compound_message(schema, message) ==
  IF schema.name = "DiagnosticArray"
    THEN DiagnosticEvents(schema, message)
    ELSE <<interpret_single_message(schema, message)>>

-----------------------------------------------------------------------------
(* The hooks.                                                               *)

Creates(role, topic, request, response, lang) ==
  /\ endpoint = NoEndpoint
  /\ endpoint' = [role |-> role, topic |-> topic, lang |-> lang,
                  request |-> request, response |-> response]
  /\ UNCHANGED <<env, config, handled, captured>>

\* An endpoint of an ignored topic gets no entry.
CreateTopicEndpoint(role, topic, t, lang) ==
  /\ Creates(role, topic, t, t, lang)
  /\ entry' = IF topic \in config.ignored_topics THEN NoEntry
              ELSE [request |-> FlatSchema(t), response |-> FlatSchema(t)]

modality_after_rmw_create_publisher(topic, t, lang) ==
  CreateTopicEndpoint("publisher", topic, t, lang)
modality_after_rmw_create_subscription(topic, t, lang) ==
  CreateTopicEndpoint("subscription", topic, t, lang)

\* RosServiceSchema: both sides are named after the service.
from_service_type_support(service) ==
  [request  |-> [FlatSchema(service.request) EXCEPT !.name = service.name],
   response |-> [FlatSchema(service.response) EXCEPT !.name = service.name]]

CreateServiceEndpoint(role, service, lang) ==
  /\ Creates(role, "none", service.request, service.response, lang)
  /\ entry' = from_service_type_support(service)

modality_after_rmw_create_service(service, lang) ==
  CreateServiceEndpoint("service", service, lang)
modality_after_rmw_create_client(service, lang) ==
  CreateServiceEndpoint("client", service, lang)

\* slice::from_raw_parts(message, size)
Slice(t, shape, size, junk) ==
  [of |-> t, at |-> <<>>, base |-> 0, size |-> size, lang |-> endpoint.lang,
   shape |-> shape, junk |-> junk]

Handles(role, direction, shape) ==
  /\ endpoint.role = role
  /\ handled = NoMessage
  /\ handled' = [t |-> endpoint[direction], shape |-> shape,
                 direction |-> direction]
  /\ UNCHANGED <<env, config, endpoint, entry>>

\* A topic's message: an endpoint without an entry is passed over.
TopicMessage(role, shape, junk) ==
  /\ Handles(role, "request", shape)
  /\ captured' =
       IF entry = NoEntry THEN captured
       ELSE interpret_potentially_compound_message(entry.request,
              Slice(endpoint.request, shape, entry.request.size, junk))

modality_before_rmw_publish(shape, junk) == TopicMessage("publisher", shape, junk)
modality_after_rmw_take_with_info(shape, junk) ==
  TopicMessage("subscription", shape, junk)

RequestMessage(role, shape, junk) ==
  /\ Handles(role, "request", shape)
  /\ captured' = <<interpret_single_message(entry.request,
                     Slice(endpoint.request, shape, entry.request.size, junk))>>

modality_after_rmw_send_request(shape, junk) ==
  RequestMessage("client", shape, junk)
modality_after_rmw_take_request(shape, junk) ==
  RequestMessage("service", shape, junk)

ResponseMessage(role, shape, size, junk) ==
  /\ Handles(role, "response", shape)
  /\ captured' = <<interpret_single_message(entry.response,
                     Slice(endpoint.response, shape, size, junk))>>

\* The size is taken from the request's members.
modality_after_rmw_send_response(shape, junk) ==
  ResponseMessage("service", shape, entry.request.size, junk)
modality_after_rmw_take_response(shape, junk) ==
  ResponseMessage("client", shape, entry.response.size, junk)

-----------------------------------------------------------------------------
TopicHook(topic, t, lang) ==
  \/ modality_after_rmw_create_publisher(topic, t, lang)
  \/ modality_after_rmw_create_subscription(topic, t, lang)

ServiceHook(service, lang) ==
  \/ modality_after_rmw_create_service(service, lang)
  \/ modality_after_rmw_create_client(service, lang)

Next ==
  \/ \E topic \in Topics, t \in Messages, lang \in Langs :
        TopicHook(topic, t, lang)
  \/ \E service \in Services, lang \in Langs : ServiceHook(service, lang)
  \/ /\ endpoint # NoEndpoint
     /\ \E junk \in JunkNumbers :
          \/ \E shape \in Shapes(endpoint.request) :
                \/ modality_before_rmw_publish(shape, junk)
                \/ modality_after_rmw_take_with_info(shape, junk)
                \/ modality_after_rmw_send_request(shape, junk)
                \/ modality_after_rmw_take_request(shape, junk)
          \/ \E shape \in Shapes(endpoint.response) :
                \/ modality_after_rmw_send_response(shape, junk)
                \/ modality_after_rmw_take_response(shape, junk)

Spec == Init /\ [][Next]_vars

-----------------------------------------------------------------------------
(* What is in a message, read off its definition rather than its schema.    *)

\* The fields that lie inline in a message, its own and those of its structs:
\* the path of the struct and where it starts, the field and where in the struct
\* it lies.
FieldsInline(t, n, inline) ==
  LET f == Fields[t][n]
      offset == OffsetOf(t, n)
  IN IF IsStruct(f)
       THEN {[struct |-> <<f.name>> \o g.struct, base |-> offset + g.base,
              own |-> g.own, field |-> g.field] : g \in inline[f.of]}
       ELSE {[struct |-> <<>>, base |-> 0, own |-> offset, field |-> f]}

AllInline(inline, t) ==
  UNION {FieldsInline(t, n, inline) : n \in 1 .. Len(Fields[t])}

InlineFields[t \in Types] == AllInline(InlineFields, t)

PathOf(g) == Append(g.struct, g.field.name)

\* A scalar that has a value, whatever the message; a sequence of messages that
\* is not in a struct.
IsPlain(g) == g.field.type_id = "value" /\ ~g.field.is_array
IsItems(g, name, t) ==
  /\ g.struct = <<>> /\ g.field.name = name
  /\ IsSequence(g.field) /\ g.field.type_id = "message" /\ g.field.of = t

\* The package diagnostic_msgs (external): an array has a sequence of statuses,
\* a status a sequence of keys with values, and they have scalars besides.
ASSUME DiagnosticAssumption ==
  "DiagnosticArray" \in Types =>
    /\ {"DiagnosticStatus", "KeyValue"} \subseteq Types
    /\ \E g \in InlineFields["DiagnosticArray"] : IsItems(g, "status", "DiagnosticStatus")
    /\ \A g \in InlineFields["DiagnosticArray"] :
         IsPlain(g) \/ IsItems(g, "status", "DiagnosticStatus")
    /\ \E g \in InlineFields["DiagnosticStatus"] : IsItems(g, "values", "KeyValue")
    /\ \A g \in InlineFields["DiagnosticStatus"] :
         IsPlain(g) \/ IsItems(g, "values", "KeyValue")
    /\ \A g \in InlineFields["KeyValue"] : IsPlain(g)
    /\ \A name \in {"key", "value"} :
         \E g \in InlineFields["KeyValue"] : PathOf(g) = <<name>>

\* A message in a message, or the whole one: its type and its path.
Place == [type : Types, path : Path, lang : Langs, shape : MessageShapes]

ItemPlace(g, place, i) ==
  [type |-> g.field.of, path |-> place.path \o PathOf(g) \o <<Decimal[i]>>,
   lang |-> place.lang, shape |-> place.shape]

\* A unit is a scalar field or an array of scalars.  misread: the code gets its
\* place or its length wrong, the offset of the struct around a scalar array is
\* dropped (lib.rs:238), and a bounded sequence is read up to its bound
\* (lib.rs:662).
Unit(g, place) ==
  LET f == g.field
      len == IF f.is_array THEN Items(f, place.shape) ELSE 1
  IN [path |-> place.path \o PathOf(g), is_array |-> f.is_array, len |-> len,
      misread |-> /\ f.is_array
                  /\ g.base # 0 \/ (f.is_upper_bound /\ len < f.array_size),
      hidden |-> f.is_array /\ f.array_size = 0 /\ place.lang = "cpp",
      valueless |-> f.type_id = "long_double" \/ (f.is_array /\ ~f.has_get)]

\* The units of a member of the flat message: itself, or what lies in its items.
UnitsOf(g, place, units) ==
  IF g.field.type_id = "message"
    THEN UNION {units[ItemPlace(g, place, i - 1)] :
                  i \in 1 .. Items(g.field, place.shape)}
    ELSE {Unit(g, place)}

UnitsIn(units, place) ==
  UNION {UnitsOf(g, place, units) : g \in InlineFields[place.type]}

Units[place \in Place] == UnitsIn(Units, place)

HandledPlace ==
  [type |-> handled.t, path |-> <<>>, lang |-> endpoint.lang, shape |-> handled.shape]
HandledMembers == InlineFields[handled.t]
MemberUnits(g) == UnitsOf(g, HandledPlace, Units)
HandledUnits == Units[HandledPlace]

\* The names a unit's attributes should have, README "Nested structures are
\* flattened ... Arrays are flattened as well".
Keys(u) ==
  IF u.is_array THEN {Append(u.path, Decimal[i - 1]) : i \in 1 .. u.len}
  ELSE {u.path}

\* The attribute that says what is in the message under that name.
True(key) == [key |-> key, value |-> key]

\* The limit the README promises, and the topics it says are left out.
DocumentedLimit ==
  IF env.max_array_len.kind = "text" /\ env.max_array_len.number \in 0 .. UsizeLimit - 1
    THEN env.max_array_len.number ELSE DefaultArrayLen
DocumentedIgnored ==
  IF env.ignored_topics.kind = "text"
    THEN {item.topic : item \in env.ignored_topics.items} ELSE {"/parameter_events"}

\* Reading a member of the flat message may end early.
MayFail(g) ==
  \E u \in MemberUnits(g) :
    \/ u.valueless
    \/ handled.shape.bad \in Keys(u)
    \/ u.misread /\ handled.shape.bad # <<>>

\* A response is seen by the service up to the size of the request.
VisibleSize ==
  IF endpoint.role = "service" /\ handled.direction = "response"
    THEN SizeOf(endpoint.request) ELSE SizeOf(handled.t)

\* Nothing in the code keeps the unit of the member out of sight.
Visible(g, u) ==
  /\ ~u.misread /\ ~u.hidden
  /\ u.is_array => u.len <= DocumentedLimit
  /\ g.base + g.own <= VisibleSize

Attributes(event) == {event[n] : n \in 2 .. Len(event)}
Answered == handled # NoMessage
IsIgnored ==
  endpoint.role \in {"publisher", "subscription"} /\ endpoint.topic \in DocumentedIgnored
IsDiagnostic ==
  endpoint.role \in {"publisher", "subscription"} /\ handled.t = "DiagnosticArray"
IsLog == handled.t = "Log"

-----------------------------------------------------------------------------
(* Properties.                                                              *)

Attribute == [key : Seq(STRING), value : Seq(STRING)]

TypeOK ==
  /\ env \in Environments
  /\ config.max_array_len \in Nat /\ config.buffer_size \in Nat
  /\ endpoint # NoEndpoint =>
       /\ endpoint.role \in {"publisher", "subscription", "service", "client"}
       /\ {endpoint.request, endpoint.response} \subseteq Types
  /\ captured \in Seq(Seq(Attribute))

\* README, "Nested structures are flattened, with their names connected": what
\* an event says under a name is in the message under that name.  Arrays whose
\* place or length the code gets wrong are left out, see Unit.
FaithfulPayload ==
  Answered /\ ~IsDiagnostic =>
    \A n \in 1 .. Len(captured) : \A a \in Attributes(captured[n]) :
      \/ \E u \in HandledUnits : a.key \in Keys(u) /\ a = True(a.key)
      \/ \E u \in HandledUnits : u.misread /\ IsPrefix(u.path, a.key)
      \/ IsLog /\ a.key \in NameKeys /\ a.value = <<"msg">>

\* A field that has no attribute value, or does not decode, costs at most the
\* member of the flat message it belongs to: the fields of every other member
\* are in the event, wherever the failing one comes in the message.
LossIsLocal ==
  Answered /\ ~IsDiagnostic /\ entry # NoEntry =>
    \A g \in HandledMembers : ~MayFail(g) =>
      \A u \in MemberUnits(g) :
        Visible(g, u) /\ ~(IsLog /\ u.path \in NameKeys) =>
          \A key \in Keys(u) : True(key) \in Attributes(captured[1])

\* README, MODALITY_ROS_IGNORED_TOPICS "completely ignored" and
\* MODALITY_ROS_MAX_ARRAY_LEN "Any array longer than this will be ignored", for
\* whatever the variables hold: no event of an ignored topic, one of any other
\* message, nothing of a long scalar array that is read where it lies (a
\* diagnostic message has none).
ConfigIsHonoured ==
  Answered =>
    /\ IsIgnored => captured = <<>>
    /\ ~IsIgnored /\ ~IsDiagnostic => Len(captured) = 1
    /\ ~IsDiagnostic =>
         \A u \in HandledUnits :
           u.is_array /\ ~u.misread /\ u.len > DocumentedLimit =>
             \A n \in 1 .. Len(captured) : \A a \in Attributes(captured[n]) :
               ~IsPrefix(u.path, a.key)

\* The attributes of the scalars of a message of type t that lies under a path:
\* each under its own name, from the place where it is.
PlainAttributes(t, at) ==
  {[key |-> PathOf(g), value |-> at \o PathOf(g)] : g \in {h \in InlineFields[t] : IsPlain(h)}}

\* The attributes of the key and the value under a path, README and the comment
\* on interepret_as_diagnostic_array.
PairAttributes(at) ==
  LET ks == normalize_string_for_attr_key(at \o <<"key">>)
  IN {[key |-> ks, value |-> at \o <<"value">>],
      [key |-> Append(ks, "key"), value |-> at \o <<"key">>]}

\* The attributes of a status item under a path, with its values.
StatusAttributes(at, values) ==
  PlainAttributes("DiagnosticStatus", at) \cup
  UNION {PairAttributes(at \o <<"values", Decimal[j - 1]>>) : j \in 1 .. values}

ItemCount(name, shape) == IF name \in DOMAIN shape.len THEN shape.len[name] ELSE 0

\* "each of those [status items] to be emitted as a top-level event" (lib.rs:387):
\* one event per item, in order, that holds the common members, the item's own
\* and the item's values, and nothing of another item.
OneEventPerStatus ==
  Answered /\ IsDiagnostic /\ entry # NoEntry =>
    /\ Len(captured) = ItemCount("status", handled.shape)
    /\ \A i \in 1 .. Len(captured) :
         Attributes(captured[i]) =
           PlainAttributes("DiagnosticArray", <<>>) \cup
           StatusAttributes(<<"status", Decimal[i - 1]>>, ItemCount("values", handled.shape))

\* README, "The payload data on the message is converted to event attributes":
\* every field with a value, and every array up to the limit, as it is in the
\* message.
PayloadAsDocumented ==
  Answered /\ entry # NoEntry /\ handled.shape.bad = <<>> =>
    \A u \in HandledUnits :
      ~u.valueless /\ (u.is_array => u.len <= DocumentedLimit) =>
        \A key \in Keys(u) : True(key) \in Attributes(captured[1])
=============================================================================
