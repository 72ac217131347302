---------------------------- MODULE MCParamStorage ----------------------------
EXTENDS ParamStorage

\* The records of a packed message.
Varint(number, value) == [number |-> number, wire_type |-> "VARINT", value |-> value]
Float(number, value) == [number |-> number, wire_type |-> "32BIT", value |-> value]
Bytes_(number, value) == [number |-> number, wire_type |-> "LENGTH_PREFIXED", value |-> value]

Content(items, size) ==
  [wire |-> [k \in DOMAIN items |-> Bytes_(1, items[k])], size |-> size]

MCParams ==
  {p \in Stored : p.id \in {14, 15, 30}} \cup {log_status, radio_node_id, module_timeout}

MCOptions == {<<"i", "CAN">>, <<"v", "a">>, <<"v", "b">>, <<"?", "">>}

\* A pipeline of two modules, of which the second has its name twice; and one of more modules
\* than there is room for, of which none has an order.
MCPipelineContents ==
  { Content(<< <<Varint(1, 1), Bytes_(2, 1), Varint(3, 2)>>,
               <<Varint(1, 2), Bytes_(2, 1), Varint(3, 1), Bytes_(2, 2)>> >>, 60),
    Content([k \in 1 .. MAX_MODULES + 1 |-> <<Bytes_(2, 1)>>], 126) }

\* An int, a false, a float, and a member that only a newer schema has; one that is too long.
MCModuleContents ==
  { Content(<< <<Bytes_(1, 1), Varint(3, 7)>>, <<Bytes_(1, 2), Varint(2, 0)>>,
               <<Bytes_(1, 1), Float(4, 5)>>, <<Bytes_(1, 2), Varint(6, 1)>> >>, 188),
    Content(<< <<Bytes_(1, 1), Bytes_(5, 1)>> >>, 189) }
=============================================================================
