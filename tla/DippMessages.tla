----------------------------- MODULE DippMessages -----------------------------
(***************************************************************************)
(* The tables of src/src/protobuf that the pipeline unpacks with: the      *)
(* metadata of an image, the definition of a pipeline and the parameters   *)
(* of a module.                                                            *)
(***************************************************************************)
EXTENDS Protobuf

(***************************************************************************)
(* metadata.pb-c.{c,h}                                                     *)
(***************************************************************************)
metadata_item__init == [key |-> 0, value_case |-> 0, value |-> 0]

metadata_item__field_descriptors == <<
  Field("key", 1, "STRING"),
  OneOf("bool_value", 2, "BOOL"),
  OneOf("int_value", 3, "INT32"),
  OneOf("float_value", 4, "FLOAT"),
  OneOf("string_value", 5, "STRING") >>

metadata_item__number_ranges == << <<1, 0>>, <<0, 5>> >>

metadata_item__descriptor ==
  Descriptor(metadata_item__field_descriptors, metadata_item__number_ranges, metadata_item__init)

metadata__init ==
  [size |-> 0, height |-> 0, width |-> 0, channels |-> 0, timestamp |-> 0,
   bits_pixel |-> 0, obid |-> 0, camera |-> 0, items |-> <<>>]

\* Mutant: the two copies of the schema have drifted apart.
metadata__field_descriptors_Drifted == <<
  Field("height", 1, "INT32"),
  Field("width", 2, "INT32"),
  Field("size", 3, "INT32"),
  Field("channels", 4, "INT32"),
  Field("timestamp", 5, "INT32"),
  Field("bits_pixel", 6, "INT32"),
  Field("obid", 7, "INT32"),
  Field("camera", 8, "STRING"),
  Repeated("items", 9, metadata_item__descriptor) >>

metadata__field_descriptors == <<
  Field("size", 1, "INT32"),
  Field("height", 2, "INT32"),
  Field("width", 3, "INT32"),
  Field("channels", 4, "INT32"),
  Field("timestamp", 5, "INT32"),
  Field("bits_pixel", 6, "INT32"),
  Field("obid", 7, "INT32"),
  Field("camera", 8, "STRING"),
  Repeated("items", 9, metadata_item__descriptor) >>

metadata__number_ranges == << <<1, 0>>, <<0, 9>> >>

metadata__descriptor ==
  Descriptor(metadata__field_descriptors, metadata__number_ranges, metadata__init)

metadata__unpack(wire) == Unpack(metadata__descriptor, wire)

(***************************************************************************)
(* pipeline_config.pb-c.{c,h}                                              *)
(***************************************************************************)
module_definition__init == [order |-> 0, name |-> 0, param_id |-> 0]

\* Mutant: name before order.
module_definition__field_descriptors_Swapped == <<
  Field("name", 1, "STRING"),
  Field("order", 2, "INT32"),
  Field("param_id", 3, "INT32") >>

module_definition__field_descriptors == <<
  Field("order", 1, "INT32"),
  Field("name", 2, "STRING"),
  Field("param_id", 3, "INT32") >>

module_definition__number_ranges == << <<1, 0>>, <<0, 3>> >>

module_definition__descriptor ==
  Descriptor(module_definition__field_descriptors, module_definition__number_ranges,
             module_definition__init)

pipeline_definition__init == [modules |-> <<>>]

pipeline_definition__field_descriptors ==
  << Repeated("modules", 1, module_definition__descriptor) >>

pipeline_definition__number_ranges == << <<1, 0>>, <<0, 1>> >>

pipeline_definition__descriptor ==
  Descriptor(pipeline_definition__field_descriptors, pipeline_definition__number_ranges,
             pipeline_definition__init)

pipeline_definition__unpack(wire) == Unpack(pipeline_definition__descriptor, wire)

(***************************************************************************)
(* module_config.pb-c.{c,h}                                                *)
(***************************************************************************)
CONFIG_PARAMETER__VALUE__NOT_SET == 0
CONFIG_PARAMETER__VALUE == {2, 3, 4, 5}    \* BOOL_VALUE, INT_VALUE, FLOAT_VALUE, STRING_VALUE

config_parameter__init ==
  [key |-> 0, value_case |-> CONFIG_PARAMETER__VALUE__NOT_SET, value |-> 0]

config_parameter__field_descriptors == <<
  Field("key", 1, "STRING"),
  OneOf("bool_value", 2, "BOOL"),
  OneOf("int_value", 3, "INT32"),
  OneOf("float_value", 4, "FLOAT"),
  OneOf("string_value", 5, "STRING") >>

config_parameter__number_ranges == << <<1, 0>>, <<0, 5>> >>

config_parameter__descriptor ==
  Descriptor(config_parameter__field_descriptors, config_parameter__number_ranges,
             config_parameter__init)

module_config__init == [parameters |-> <<>>]

module_config__field_descriptors ==
  << Repeated("parameters", 1, config_parameter__descriptor) >>

module_config__number_ranges == << <<1, 0>>, <<0, 1>> >>

module_config__descriptor ==
  Descriptor(module_config__field_descriptors, module_config__number_ranges, module_config__init)

module_config__unpack(wire) == Unpack(module_config__descriptor, wire)
=============================================================================
