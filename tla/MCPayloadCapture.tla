-------------------------- MODULE MCPayloadCapture --------------------------
(* Model-checking instances of PayloadCapture: type descriptions with every  *)
(* kind of member, and the messages of each type.                            *)
EXTENDS PayloadCapture, TLC

Plain(name, type_id) ==
  [name |-> name, type_id |-> type_id, of |-> "", is_array |-> FALSE,
   array_size |-> 0, is_upper_bound |-> FALSE, has_get |-> TRUE]
Struct(name, t) == [Plain(name, "message") EXCEPT !.of = t]
Fixed(field, n) == [field EXCEPT !.is_array = TRUE, !.array_size = n]
Sequence(field) == [field EXCEPT !.is_array = TRUE]
Bounded(field, n) == [Fixed(field, n) EXCEPT !.is_upper_bound = TRUE]

AllFields ==
  [Readings |-> <<Plain("x", "value"), Plain("w", "wstring"),
                  Fixed(Plain("f", "value"), 2), Sequence(Plain("s", "wstring")),
                  Bounded(Plain("b", "value"), 2)>>,
   Nested |-> <<Plain("a", "value"), Struct("r", "Readings"),
                Plain("z", "value")>>,
   Item |-> <<Plain("x", "value"), Plain("w", "wstring"), Plain("y", "value")>>,
   Items |-> <<Plain("h", "value"), Sequence(Struct("items", "Item")),
               Fixed(Struct("pair", "Item"), 2), Struct("last", "Item")>>,
   Odd |-> <<Plain("d", "long_double"),
             [Sequence(Plain("bits", "value")) EXCEPT !.has_get = FALSE],
             Plain("x", "value")>>,
   Log |-> <<Plain("stamp", "value"), Plain("name", "value"),
             Plain("msg", "value")>>,
   DiagnosticArray |-> <<Struct("header", "Header"),
                         Sequence(Struct("status", "DiagnosticStatus"))>>,
   Header |-> <<Plain("stamp", "value"), Plain("frame_id", "value")>>,
   DiagnosticStatus |-> <<Plain("level", "value"), Plain("name", "value"),
                          Sequence(Struct("values", "KeyValue"))>>,
   KeyValue |-> <<Plain("key", "value"), Plain("value", "value")>>,
   TriggerRequest |-> <<Plain("dummy", "value")>>,
   TriggerResponse |-> <<Plain("success", "value"), Plain("code", "value"),
                         Plain("message", "value")>>,
   \* A struct with a fixed array in it, alone.
   Pose |-> <<Plain("stamp", "value"), Struct("c", "Covariance")>>,
   Covariance |-> <<Fixed(Plain("f", "value"), 2)>>]

MCTypes == DOMAIN AllFields
MCDepth ==
  [t \in MCTypes |->
     CASE t = "DiagnosticArray" -> 2
       [] t \in {"Nested", "Items", "DiagnosticStatus", "Pose"} -> 1
       [] OTHER -> 0]
MCDecimal == [i \in 0 .. UsizeLimit - 1 |-> ToString(i)]
MCServices ==
  [name : {"Trigger"}, request : {"TriggerRequest", "Readings"},
   response : {"TriggerResponse"}]
MCMessages == {"Readings", "Nested", "Items", "Odd", "Log", "DiagnosticArray"}

\* Lengths of the sequences, and wide strings that are not UTF-16 (<<>>: none).
MCShapes(t) ==
  CASE t = "Readings" ->
         [len : [{"s", "b"} -> 0 .. 2] \cup {[s |-> 3, b |-> 2]},
          bad : {<<>>, <<"w">>, <<"s", "1">>}]
    [] t = "Nested" ->
         [len : [{"s", "b"} -> {0, 2}], bad : {<<>>, <<"r", "w">>}]
    [] t = "Items" ->
         [len : [{"items"} -> 0 .. 3],
          bad : {<<>>, <<"items", "1", "w">>, <<"pair", "0", "w">>,
                 <<"last", "w">>}]
    [] t = "Odd" -> [len : [{"bits"} -> 0 .. 1], bad : {<<>>}]
    [] t = "DiagnosticArray" ->
         [len : [{"status", "values"} -> 0 .. 2], bad : {<<>>}]
    [] OTHER -> [len : {<<>>}, bad : {<<>>}]

MCMessageShapes == UNION {MCShapes(t) : t \in MCTypes}

NumberTexts(numbers) == [kind : {"text"}, number : numbers]
Topic(name, spaces) == [topic |-> name, spaces |-> spaces]

\* The array limit: unset, garbled, negative, too large, and small numbers; the
\* topics: unset, the empty string, and a list with white space in it.
MCEnvironments ==
  [max_array_len : Unset \cup NumberTexts({NotANumber, 0, 1, UsizeLimit}),
   buffer_size : NumberTexts({0}),
   ignored_topics :
     [kind : {"absent"}] \cup
     [kind : {"text"}, items : {{Topic("", FALSE)},
                                {Topic("/camera", TRUE), Topic("/tf", FALSE)}}]]
MCTopics == {"/parameter_events", "/camera"}
MCJunkNumbers == {2, 9}

\* One message type with an array in a struct, and the default configuration.
PoseMessages == {"Pose"}
PoseEnvironments ==
  [max_array_len : [kind : {"absent"}], buffer_size : [kind : {"absent"}],
   ignored_topics : [kind : {"absent"}]]
PoseTopics == {"/pose"}
=============================================================================
