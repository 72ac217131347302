------------------------------- MODULE Protobuf -------------------------------
(***************************************************************************)
(* What libprotobuf-c does with the tables that protoc-c generates         *)
(* (src/src/protobuf, src/sim/metadata.pb-c.c): packing, unpacking and the *)
(* lookup of a field by its number. The library is not in the repository;  *)
(* the generated functions call protobuf_c_message_pack, _unpack,          *)
(* _get_packed_size and _free_unpacked with a descriptor.                  *)
(*                                                                         *)
(* A message is a record of its C struct; of the union of a oneof it has   *)
(* value_case and one value. Scalars are numbers: a bool is 0 or 1, a      *)
(* float or a string the number of one of the values in use, with 0 for    *)
(* 0.0 and for protobuf_c_empty_string. A packed message is a sequence of  *)
(* records, each a field number, a wire type and a value; its size is      *)
(* their number. No message here nests deeper than one level.              *)
(***************************************************************************)
EXTENDS Integers, Sequences, SequencesExt

\* The columns of a ProtobufCFieldDescriptor that matter: label, type and the ONEOF flag.
Field(name, number, type) ==
  [name |-> name, number |-> number, type |-> type, label |-> "NONE", oneof |-> FALSE]
OneOf(name, number, type) == [Field(name, number, type) EXCEPT !.oneof = TRUE]
Repeated(name, number, descriptor) ==
  [name |-> name, number |-> number, type |-> "MESSAGE", label |-> "REPEATED",
   oneof |-> FALSE, descriptor |-> descriptor]

\* A ProtobufCMessageDescriptor: its fields in the order of their numbers, the ranges in
\* which these are consecutive, and the message that its init function leaves.
Descriptor(fields, number_ranges, init) ==
  [fields |-> fields, number_ranges |-> number_ranges, init |-> init]

WireType(type) ==
  CASE type \in {"BOOL", "INT32"} -> "VARINT"
    [] type = "FLOAT" -> "32BIT"
    [] type \in {"STRING", "MESSAGE"} -> "LENGTH_PREFIXED"

\* The records of which the values are in V.
WireTypes == {"VARINT", "32BIT", "LENGTH_PREFIXED"}
Records(V) == [number : Nat, wire_type : WireTypes, value : V]

Record(field, value) ==
  [number |-> field.number, wire_type |-> WireType(field.type), value |-> value]

(***************************************************************************)
(* Packing, in the order of the table. A field that is 0 or the default is *)
(* left out, as is a oneof of which no member is set, or whose string is   *)
(* the default.                                                            *)
(***************************************************************************)
PackField(field, message) ==
  IF \/ ~field.oneof /\ message[field.name] = 0
     \/ field.oneof /\ message.value_case # field.number
     \/ field.oneof /\ field.type = "STRING" /\ message.value = 0
  THEN <<>>
  ELSE <<Record(field, IF field.oneof THEN message.value ELSE message[field.name])>>

PackItem(descriptor, item) ==
  FlattenSeq([k \in DOMAIN descriptor.fields |-> PackField(descriptor.fields[k], item)])

PackMember(field, message) ==
  IF field.label = "REPEATED"
  THEN [j \in DOMAIN message[field.name] |->
          Record(field, PackItem(field.descriptor, message[field.name][j]))]
  ELSE PackField(field, message)

Pack(descriptor, message) ==
  FlattenSeq([k \in DOMAIN descriptor.fields |-> PackMember(descriptor.fields[k], message)])

PackedSize(descriptor, message) == Len(Pack(descriptor, message))

(***************************************************************************)
(* Unpacking gives the set of the message, or no message (NULL). Numbers   *)
(* that no range contains are skipped, a later value replaces an earlier   *)
(* one, repeated members are appended; a value of another wire type, or an *)
(* item that cannot be unpacked, spoils the message. Only a bool is read   *)
(* from a value of any wire type: it is whether that is 0, or empty.       *)
(***************************************************************************)
\* int_range_lookup: the places in the table whose number this is, one or none.
IndexOf(descriptor, number) ==
  LET ranges == descriptor.number_ranges IN
  {number - ranges[r][1] + ranges[r][2] + 1 : r \in
     {r \in 1 .. Len(ranges) - 1 :
        number - ranges[r][1] \in 0 .. ranges[r + 1][2] - ranges[r][2] - 1}}

FieldOf(descriptor, record) == {descriptor.fields[k] : k \in IndexOf(descriptor, record.number)}

Accepts(field, wire_type) == field.type = "BOOL" \/ WireType(field.type) = wire_type

Matching(descriptor, record) ==
  {f \in FieldOf(descriptor, record) : Accepts(f, record.wire_type)}

Truth(value) == IF value = 0 THEN 0 ELSE 1
Parsed(field, value) == IF field.type = "BOOL" THEN Truth(value) ELSE value

Store(field, value, message) ==
  IF field.oneof THEN [message EXCEPT !.value_case = field.number, !.value = Parsed(field, value)]
  ELSE IF field.label = "REPEATED" THEN [message EXCEPT ![field.name] = Append(@, value)]
  ELSE [message EXCEPT ![field.name] = Parsed(field, value)]

\* One record, of which the values are what may be stored.
Parse(descriptor, record, values, message) ==
  IF FieldOf(descriptor, record) = {} THEN {message}
  ELSE {Store(field, value, message) : field \in Matching(descriptor, record), value \in values}

\* The messages after each number of records, where values[n] may be stored for the n-th.
Scan(descriptor, wire, values) ==
  LET after[n \in 0 .. Len(wire)] ==
        IF n = 0 THEN {descriptor.init}
        ELSE UNION {Parse(descriptor, wire[n], values[n], message) : message \in after[n - 1]}
  IN  after

UnpackItem(descriptor, wire) ==
  Scan(descriptor, wire, [n \in DOMAIN wire |-> {wire[n].value}])[Len(wire)]

Values(descriptor, record) ==
  UNION {IF field.label = "REPEATED" THEN UnpackItem(field.descriptor, record.value)
         ELSE {record.value} : field \in Matching(descriptor, record)}

Unpack(descriptor, wire) ==
  Scan(descriptor, wire, [n \in DOMAIN wire |-> Values(descriptor, wire[n])])[Len(wire)]
=============================================================================
