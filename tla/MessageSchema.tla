---------------------------- MODULE MessageSchema ----------------------------
(***************************************************************************)
(* How the payload of a ROS message becomes attributes (lib.rs): the type   *)
(* description is converted to a schema, the schema is flattened, and the   *)
(* flat schema is used to read the bytes of a message.  Operators only;     *)
(* PayloadCapture is the state machine that uses them.                      *)
(*                                                                         *)
(* Memory is counted in words: a scalar is a word, so is the header of a    *)
(* sequence, and a struct or a fixed array lies inline.  An attribute key   *)
(* is the sequence of the segments that "." joins in the code.  A schema    *)
(* that is nested in another one is named by its type.                      *)
(***************************************************************************)
EXTENDS Naturals, Sequences, SequencesExt

CONSTANTS
  Types,   \* the message types there are, by name
  Fields,  \* per type: the fields of its definition, in order, see Field
  Depth,   \* per type: how deep messages are nested in it
  Decimal  \* per index: its decimal text

\* type_id: "message" (then `of' names the type), or a scalar of one of three
\* sorts: always readable, a wide string, or one with no attribute value.
\* has_get: the introspection table has accessor functions.
ScalarType == {"value", "wstring", "long_double"}
Field == [name : STRING, type_id : ScalarType \cup {"message"}, of : STRING,
          is_array : BOOLEAN, array_size : Nat, is_upper_bound : BOOLEAN,
          has_get : BOOLEAN]

\* Type descriptions come from a compiled interface definition: a type is not
\* nested in itself, a name is used once, and only a vector of booleans has no
\* accessor functions.
ASSUME FieldsAssumption ==
  /\ Depth \in [Types -> Nat]
  /\ Fields \in [Types -> Seq(Field)]
  /\ \A t \in Types : \A n \in 1 .. Len(Fields[t]) :
       LET f == Fields[t][n]
       IN f.type_id = "message" =>
            f.of \in Types /\ Depth[f.of] < Depth[t] /\ f.has_get
  /\ \A t \in Types : \A k, n \in 1 .. Len(Fields[t]) :
       Fields[t][k].name = Fields[t][n].name => k = n

Path == Seq(STRING)

\* A sequence of messages whose length varies, as opposed to an inline array.
IsSequence(f) == f.is_array /\ (f.array_size = 0 \/ f.is_upper_bound)

\* The field is a struct: its type's own fields lie inline.
IsStruct(f) == f.type_id = "message" /\ ~f.is_array

-----------------------------------------------------------------------------
(* The layout of a message in memory, which the introspection tables rosidl *)
(* generates describe (external): a cell per word, that has the path of     *)
(* what the word holds, and its field.                                      *)

Under(path, cells) ==
  [k \in 1 .. Len(cells) |-> [path |-> path \o cells[k].path, field |-> cells[k].field]]

\* The cells of a value of the field's type, given the layouts of the types.
ItemLayout(f, layout) ==
  IF f.type_id = "message" THEN layout[f.of] ELSE <<[path |-> <<>>, field |-> f]>>

FieldLayout(f, layout) ==
  CASE ~f.is_array -> Under(<<f.name>>, ItemLayout(f, layout))
    [] IsSequence(f) -> <<[path |-> <<f.name>>, field |-> f]>>
    [] f.is_array /\ ~IsSequence(f) ->
         FlattenSeq([i \in 1 .. f.array_size |->
                       Under(<<f.name, Decimal[i - 1]>>, ItemLayout(f, layout))])

LayoutOf(layout, t) ==
  FlattenSeq([n \in 1 .. Len(Fields[t]) |-> FieldLayout(Fields[t][n], layout)])

TypeLayout[t \in Types] == LayoutOf(TypeLayout, t)

Layout == [t \in Types |-> TypeLayout[t]]

SizeOf(t) == Len(Layout[t])

OffsetOf(t, n) ==
  Len(FlattenSeq([k \in 1 .. n - 1 |-> FieldLayout(Fields[t][k], Layout)]))

-----------------------------------------------------------------------------
(* RosMessageSchema, RosMessageMemberSchema.                                *)

\* One member; an array repeats its offset in the schema of its item.
MemberSchema(t, n) ==
  LET f == Fields[t][n]
      item ==
        IF f.type_id = "message"
          THEN [kind |-> "nested", name |-> f.name, offset |-> OffsetOf(t, n),
                schema |-> f.of]
          ELSE [kind |-> "scalar", name |-> f.name, offset |-> OffsetOf(t, n),
                type_id |-> f.type_id]
  IN IF f.is_array
       THEN [kind |-> "array", item_schema |-> item, offset |-> OffsetOf(t, n),
             array_size |-> f.array_size, is_upper_bound |-> f.is_upper_bound,
             has_get |-> f.has_get]
       ELSE item

convert_c_message_members_to_schemas(t) ==
  [n \in 1 .. Len(Fields[t]) |-> MemberSchema(t, n)]

\* Every type is assumed to have a C or C++ introspection type support: for a
\* type without one, get_typesupport returns a null pointer, which is read
\* before the message about an unknown type support can be printed.
from_message_type_support(t) ==
  [name |-> t, size |-> SizeOf(t),
   members |-> convert_c_message_members_to_schemas(t)]

-----------------------------------------------------------------------------
(* Flattening: FlatRosMessageSchema.                                        *)

\* Mutated: the offset of the struct around a scalar is dropped.
FlatScalarInStruct(member, prefix, initial_offset) ==
  [kind |-> "scalar", key |-> Append(prefix, member.name),
   type_id |-> member.type_id, offset |-> member.offset]

FlatScalar(member, prefix, initial_offset) ==
  [kind |-> "scalar", key |-> Append(prefix, member.name),
   type_id |-> member.type_id, offset |-> initial_offset + member.offset]

\* The offset of the array is not added to that of the struct it is nested in.
FlatScalarArray(array, prefix) ==
  [kind |-> "scalar_array", key |-> Append(prefix, array.item_schema.name),
   type_id |-> array.item_schema.type_id, offset |-> array.item_schema.offset,
   array_size |-> array.array_size, is_upper_bound |-> array.is_upper_bound,
   has_get |-> array.has_get]

\* The type of the items is flattened on its own, from offset 0 and without a
\* prefix, see FlatSchema: both are added per item when the sequence is read.
FlatMessageSequence(array, prefix, initial_offset) ==
  [kind |-> "message_sequence", key |-> Append(prefix, array.item_schema.name),
   offset |-> initial_offset + array.offset,
   message_schema |-> array.item_schema.schema,
   array_size |-> array.array_size, is_upper_bound |-> array.is_upper_bound,
   has_get |-> array.has_get]

\* The arguments of a flattening: the schema, by name, and where it lies.
Flattening == [schema : Types, prefix : Path, initial_offset : Nat]

\* RosMessageMemberSchema::flatten; the result is what it pushes to target, and
\* the schema that is nested is flattened by `flattened'.
flatten(member, prefix, initial_offset, flattened) ==
  CASE member.kind = "scalar" ->
         <<FlatScalar(member, prefix, initial_offset)>>
    [] member.kind = "array" /\ member.item_schema.kind = "scalar" ->
         <<FlatScalarArray(member, prefix)>>
    [] member.kind = "array" /\ member.item_schema.kind = "nested" ->
         <<FlatMessageSequence(member, prefix, initial_offset)>>
    [] member.kind = "nested" ->
         flattened[[schema |-> member.schema,
                    prefix |-> Append(prefix, member.name),
                    initial_offset |-> initial_offset + member.offset]]

FlattenEach(members, x, flattened) ==
  FlattenSeq([n \in 1 .. Len(members) |->
                flatten(members[n], x.prefix, x.initial_offset, flattened)])

FlattenAll(flattened, x) ==
  FlattenEach(from_message_type_support(x.schema).members, x, flattened)

FlattenMembers[x \in Flattening] == FlattenAll(FlattenMembers, x)

from_nested_members(schema, prefix) ==
  [name |-> schema.name, size |-> schema.size,
   members |-> FlattenMembers[[schema |-> schema.name, prefix |-> prefix,
                               initial_offset |-> 0]]]

\* RosMessageSchema::flatten as the create hooks call it, and as it is called
\* for the items of a sequence of messages.
FlatSchema(t) == from_nested_members(from_message_type_support(t), <<>>)
=============================================================================
