---------------------------- MODULE CameraMetadata ----------------------------
(***************************************************************************)
(* src/sim/metadata.pb-c.{c,h}: the tables with which a camera packs the   *)
(* metadata of an image. It is a second copy of the generated code; the    *)
(* pipeline unpacks with its own (DippMessages).                           *)
(***************************************************************************)
EXTENDS Protobuf

NOT_SET == 0

metadata_item__init == [key |-> 0, value_case |-> NOT_SET, value |-> 0]

metadata_item__field_descriptors == <<
  Field("key", 1, "STRING"),
  OneOf("bool_value", 2, "BOOL"),
  OneOf("int_value", 3, "INT32"),
  OneOf("float_value", 4, "FLOAT"),
  OneOf("string_value", 5, "STRING") >>

metadata_item__number_ranges == << <<1, 0>>, <<0, 5>> >>

metadata_item__descriptor ==
  Descriptor(metadata_item__field_descriptors, metadata_item__number_ranges, metadata_item__init)

metadata__init ==
  [size |-> 0, height |-> 0, width |-> 0, channels |-> 0, timestamp |-> 0,
   bits_pixel |-> 0, obid |-> 0, camera |-> 0, items |-> <<>>]

metadata__field_descriptors == <<
  Field("size", 1, "INT32"),
  Field("height", 2, "INT32"),
  Field("width", 3, "INT32"),
  Field("channels", 4, "INT32"),
  Field("timestamp", 5, "INT32"),
  Field("bits_pixel", 6, "INT32"),
  Field("obid", 7, "INT32"),
  Field("camera", 8, "STRING"),
  Repeated("items", 9, metadata_item__descriptor) >>

metadata__number_ranges == << <<1, 0>>, <<0, 9>> >>

metadata__descriptor ==
  Descriptor(metadata__field_descriptors, metadata__number_ranges, metadata__init)

metadata__get_packed_size(message) == PackedSize(metadata__descriptor, message)

metadata__pack(message) == Pack(metadata__descriptor, message)
=============================================================================
