------------------------- MODULE MessageInterpreter -------------------------
(***************************************************************************)
(* How a flat schema reads the bytes of a message (lib.rs, the              *)
(* interpret_... functions), and what is in those bytes.  Operators only.   *)
(*                                                                         *)
(* A leaf of a message has its own path as value, so that a value tells     *)
(* where it was read.  Reading a word that is not what the schema says, or  *)
(* past the end, is undefined behaviour: the outcome modelled is Junk (the  *)
(* other one is that the process crashes).                                  *)
(***************************************************************************)
EXTENDS MessageSchema

CONSTANTS
  Address,       \* what a pointer looks like when it is read as a length
  MessageShapes  \* the shapes of messages, see Items

-----------------------------------------------------------------------------
(* The memory of a message (external).                                      *)

Langs == {"c", "cpp"}

\* A pointer to a message: the words at `base' in a message of type `of', whose
\* own path is `at'.  size: how many of them the hook believes to be the
\* message's; junk: the number that a word which is not the header of a
\* sequence yields when it is read as one.
Message == [of : Types, at : Path, base : Nat, size : Nat, lang : Langs,
            shape : MessageShapes, junk : Nat]

\* `shape' says how many items each sequence has, by the name of its field
\* (none, where it does not say), and which leaf, if any, is a wide string that
\* is not UTF-16.
Items(f, shape) ==
  CASE ~IsSequence(f) -> f.array_size
    [] IsSequence(f) /\ f.name \in DOMAIN shape.len -> shape.len[f.name]
    [] OTHER -> 0

\* A word: what it is, the path of what it holds, whether that decodes, and for
\* the header of a sequence the items and the word the hook reads as its length.
Junk == [kind |-> "junk", path |-> <<>>, valid |-> TRUE, items |-> 0, size |-> 0]
JunkValue == <<>>  \* no leaf has an empty path

Leaf(path, shape) ==
  [kind |-> "leaf", path |-> path, valid |-> path # shape.bad, items |-> 0, size |-> 0]

\* A C++ vector has a pointer to its end where a C sequence has its size.
Header(path, items, lang) ==
  [kind |-> "sequence", path |-> path, valid |-> TRUE, items |-> items,
   size |-> IF lang = "cpp" /\ items # 0 THEN Address ELSE items]

CellWord(message, cell) ==
  IF IsSequence(cell.field)
    THEN Header(message.at \o cell.path, Items(cell.field, message.shape), message.lang)
    ELSE Leaf(message.at \o cell.path, message.shape)

WordAt(message, offset) ==
  LET place == message.base + offset + 1
  IN IF place > SizeOf(message.of) THEN Junk
     ELSE CellWord(message, Layout[message.of][place])

-----------------------------------------------------------------------------
(* Option<()> and `?'.  A result is what was pushed, and whether it is Some.*)

Done(out) == [out |-> out, ok |-> TRUE]
Failed(out) == [out |-> out, ok |-> FALSE]

\* A loop that returns at the first None; what was pushed before stays.
UntilFailure(results) ==
  LET failure == SelectInSeq(results, LAMBDA r : ~r.ok)
      last == IF failure = 0 THEN Len(results) ELSE failure
  IN [out |-> FlattenSeq([n \in 1 .. last |-> results[n].out]),
      ok  |-> failure = 0]

\* A loop with `let _ = ...': failures are ignored.
IgnoringFailures(results) ==
  FlattenSeq([n \in 1 .. Len(results) |-> results[n].out])

\* None is the empty set, Some(v) is {v}.
ros_to_attr_val(type_id, word) ==
  CASE type_id = "long_double"                       -> {}
    [] type_id # "long_double" /\ word.kind # "leaf" -> {JunkValue}
    [] OTHER -> IF type_id = "wstring" /\ ~word.valid THEN {} ELSE {word.path}

PushValue(key, val) ==
  IF val = {} THEN Failed(<<>>)
  ELSE Done(<<[key |-> key, value |-> CHOOSE v \in val : TRUE]>>)

-----------------------------------------------------------------------------
(* The members of a flat schema.                                            *)

FlatMember ==
  LET Number == DOMAIN Decimal IN
       [kind : {"scalar"}, key : Path, type_id : ScalarType, offset : Nat]
  \cup [kind : {"scalar_array"}, key : Path, type_id : ScalarType, offset : Nat,
        array_size : Number, is_upper_bound : BOOLEAN, has_get : BOOLEAN]
  \cup [kind : {"message_sequence"}, key : Path, offset : Nat, message_schema : Types,
        array_size : Number, is_upper_bound : BOOLEAN, has_get : BOOLEAN]

\* message.get(offset..) is None past the size the hook believes in.
InSlice(m, message) == m.offset <= message.size

ScalarInterpret(m, prefix, message) ==
  IF InSlice(m, message)
    THEN PushValue(prefix \o m.key,
                   ros_to_attr_val(m.type_id, WordAt(message, m.offset)))
    ELSE Done(<<>>)

\* An array that lies inline, as opposed to a sequence.
Inline(m) == m.array_size # 0 /\ ~m.is_upper_bound

\* The length of a scalar array: the bound, if there is one, else the word at
\* the place of the size of a C sequence.
SizeRead(word, junk) == IF word.kind = "sequence" THEN word.size ELSE junk

scalar_array_len(m, message) ==
  IF m.array_size # 0 THEN m.array_size
  ELSE SizeRead(WordAt(message, m.offset), message.junk)

\* get_const_function (external, generated per type).
SequenceItem(header, i, shape) ==
  IF header.kind = "sequence" /\ i < header.items
    THEN Leaf(Append(header.path, Decimal[i]), shape)
    ELSE Junk

ScalarItem(m, message, i) ==
  IF Inline(m) THEN WordAt(message, m.offset + i)
  ELSE SequenceItem(WordAt(message, m.offset), i, message.shape)

\* Mutated: one item more than the limit passes.
TooLongByTwo(len, limit) == len > limit + 1

TooLong(len, limit) == len > limit

\* The array is read as one of len items.
ReadItems(m, prefix, message, limit, len) ==
  CASE ~InSlice(m, message) \/ TooLong(len, limit) -> Done(<<>>)
    [] InSlice(m, message) /\ ~TooLong(len, limit) /\ ~m.has_get -> Failed(<<>>)
    [] OTHER ->
         UntilFailure([i \in 1 .. len |->
           PushValue(prefix \o m.key \o <<Decimal[i - 1]>>,
                     ros_to_attr_val(m.type_id, ScalarItem(m, message, i - 1)))])

ScalarArrayInterpret(m, prefix, message, limit) ==
  ReadItems(m, prefix, message, limit, scalar_array_len(m, message))

\* What size_function says (external, generated per type): it knows the length.
item_count(m, message) ==
  IF Inline(m) THEN m.array_size ELSE WordAt(message, m.offset).items

\* What for_each_item passes to its closure: the size is that of one item.
MessageItem(m, message, i) ==
  [of    |-> IF Inline(m) THEN message.of ELSE m.message_schema,
   at    |-> IF Inline(m) THEN message.at
             ELSE Append(WordAt(message, m.offset).path, Decimal[i]),
   base  |-> IF Inline(m)
               THEN message.base + m.offset + i * SizeOf(m.message_schema) ELSE 0,
   size  |-> SizeOf(m.message_schema), lang |-> message.lang,
   shape |-> message.shape, junk |-> message.junk]

\* MessageSequenceMemberSchema::for_each_item, given what the closure makes of
\* each item.
for_each_item(m, message, results) ==
  CASE ~InSlice(m, message) -> Done(<<>>)
    [] InSlice(m, message) /\ ~m.has_get -> Failed(<<>>)
    [] OTHER -> UntilFailure(results)

\* The arguments of interpret_message.
Interpretation ==
  [member : FlatMember, prefix : Path, message : Message, limit : Nat]

\* What becomes of each member of a flat schema, by `interpret'.
Interpret(members, prefix, message, limit, interpret) ==
  [n \in 1 .. Len(members) |->
     interpret[[member |-> members[n], prefix |-> prefix, message |-> message,
                limit |-> limit]]]

MessageSequenceInterpret(m, prefix, message, limit, interpret) ==
  for_each_item(m, message,
    [i \in 1 .. item_count(m, message) |->
       UntilFailure(Interpret(FlatSchema(m.message_schema).members,
                              prefix \o m.key \o <<Decimal[i - 1]>>,
                              MessageItem(m, message, i - 1), limit, interpret))])

InterpretMember(interpret, x) ==
  CASE x.member.kind = "scalar" -> ScalarInterpret(x.member, x.prefix, x.message)
    [] x.member.kind = "scalar_array" ->
         ScalarArrayInterpret(x.member, x.prefix, x.message, x.limit)
    [] x.member.kind = "message_sequence" ->
         MessageSequenceInterpret(x.member, x.prefix, x.message, x.limit, interpret)

interpret_message[x \in Interpretation] == InterpretMember(interpret_message, x)

\* Mutated: the first member that fails ends the message.
InterpretMembersUntilFailure(members, message, limit) ==
  UntilFailure(Interpret(members, <<>>, message, limit, interpret_message)).out

\* FlatRosMessageSchema::interpret_message_internal, without a prefix.
InterpretMembers(members, message, limit) ==
  IgnoringFailures(Interpret(members, <<>>, message, limit, interpret_message))
=============================================================================
