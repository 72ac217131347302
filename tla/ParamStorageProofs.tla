-------------------------- MODULE ParamStorageProofs --------------------------
(***************************************************************************)
(* Proofs about ParamLayout and ParamStorage, for any choice of the        *)
(* parameters, command lines and contents: the stored parameters lie apart *)
(* in the file, and so each one keeps its value through whatever happens   *)
(* to the others; nothing is served before the files are open; and what    *)
(* the modules are served is what the ground meant, as long as no          *)
(* definition has overrun its entry of the table.                          *)
(*                                                                         *)
(* The last of these needs what unpacking makes of a message of any        *)
(* length. It is found record by record (ModuleUnpacks, ParameterUnpacks)  *)
(* and item by item (ListUnpacks, ListSpoiled) with the lemmas of          *)
(* MessageProofs; the invariant, ConfigurationInv, then relates the tables *)
(* to the files, and the files to what has been sent.                      *)
(***************************************************************************)
EXTENDS ParamStorage, MessageProofs, FiniteSetTheorems, TLAPS

(***************************************************************************)
(* The addresses of the configurations are the multiples of their size.    *)
(***************************************************************************)
LEMMA PipelineAddress ==
  \A k \in 1 .. 6 : VMEM_CONF_PIPELINE[k] = DATA_PARAM_SIZE * (k - 1)
BY DEF VMEM_CONF_PIPELINE, DATA_PARAM_SIZE

LEMMA ModuleAddress ==
  \A k \in 1 .. 20 : VMEM_CONF_MODULE[k] = DATA_PARAM_SIZE * (k + 5)
BY DEF VMEM_CONF_MODULE, DATA_PARAM_SIZE

LEMMA PipelineId == \A k \in 1 .. 6 : PARAMID_PIPELINE_CONFIG[k] = k + 9
BY DEF PARAMID_PIPELINE_CONFIG

LEMMA ModuleId == \A k \in 1 .. 20 : PARAMID_MODULE_PARAM[k] = k + 29
BY DEF PARAMID_MODULE_PARAM

\* The five kinds of stored parameters.
LEMMA StoredKinds ==
  ASSUME NEW p \in Stored
  PROVE  \/ \E k \in 1 .. 6 : p = Param(k + 9, 188, 188 * (k - 1), "setup_pipeline")
         \/ \E k \in 1 .. 20 : p = Param(k + 29, 188, 188 * (k + 5), "setup_module_config")
         \/ p = Param(2, 4, 4888, "none")
         \/ p = Param(3, 1, 4892, "none")
         \/ p = Param(4, 4, 4893, "none")
<1>1. CASE p \in pipeline_config_params
  BY <1>1, PipelineAddress, PipelineId DEF pipeline_config_params, DATA_PARAM_SIZE
<1>2. CASE p \in module_config_params
  BY <1>2, ModuleAddress, ModuleId DEF module_config_params, DATA_PARAM_SIZE
<1>3. CASE p \in {log_status, radio_node_id, module_timeout}
  BY <1>3 DEF log_status, radio_node_id, module_timeout, PARAMID_ERROR_LOG, VMEM_ERROR_CODE,
       PARAMID_RADIO_NODE_ID, VMEM_RADIO_NODE_ID, PARAMID_MODULE_TIMEOUT, VMEM_MODULE_TIMEOUT
<1> QED
  BY <1>1, <1>2, <1>3 DEF Stored

(***************************************************************************)
(* vmem_storage.h: two different parameters of the file have no byte in    *)
(* common, and all of them lie within its 10000 bytes.                     *)
(***************************************************************************)
THEOREM LayoutApart ==
  /\ \A p, q \in Stored : p # q => ~Overlap(p, q)
  /\ \A p \in Stored : Bytes(p) \subseteq 0 .. STORAGE_SIZE - 1
<1>1. ASSUME NEW p \in Stored, NEW q \in Stored, p # q PROVE ~Overlap(p, q)
  <2> DEFINE end(x) == x.address + x.size
  <2>1. /\ p.address \in Int /\ p.size \in Int /\ q.address \in Int /\ q.size \in Int
        /\ end(p) <= q.address \/ end(q) <= p.address
    BY <1>1, StoredKinds DEF Param
  <2> QED
    BY <2>1 DEF Overlap, Bytes
<1>2. ASSUME NEW p \in Stored PROVE Bytes(p) \subseteq 0 .. STORAGE_SIZE - 1
  <2>1. PICK a, n \in Int : p.address = a /\ p.size = n /\ 0 <= a /\ a + n <= 10000
    BY StoredKinds DEF Param
  <2>2. Bytes(p) = a .. a + n - 1
    BY <2>1 DEF Bytes
  <2>3. a .. a + n - 1 \subseteq 0 .. STORAGE_SIZE - 1
    BY <2>1, SMTT(30) DEF STORAGE_SIZE
  <2> QED
    BY <2>2, <2>3, Zenon
<1> QED
  BY <1>1, <1>2

\* dipp_config.c:99, :130: the ids of the parameters give indices within the two tables.
THEOREM IndicesInRange ==
  /\ \A p \in pipeline_config_params : Index(p) \in 0 .. MAX_PIPELINES - 1
  /\ \A p \in module_config_params : Index(p) \in 0 .. MAX_MODULES - 1
BY PipelineId, ModuleId DEF pipeline_config_params, module_config_params, Param, Index,
  PIPELINE_PARAMID_OFFSET, MODULE_PARAMID_OFFSET, MAX_PIPELINES, MAX_MODULES

(***************************************************************************)
(* main.c:165-190: the order of main().                                    *)
(***************************************************************************)
BootInv ==
  /\ main \in {"ring_init", "create", "up"} => storage = vmem_dir
  /\ main \in {"create", "up"} => images = vmem_dir
  /\ threads # {} => main \in {"create", "up"}

LEMMA BootInvInitially == Init => BootInv
BY DEF Init, BootInv

LEMMA BootInvKept ==
  ASSUME BootInv, [Next]_vars
  PROVE  BootInv'
<1> USE DEF BootInv, bootVars
<1>1. ASSUME argv' = argv PROVE vmem_dir' = vmem_dir
  BY <1>1 DEF vmem_dir, Argument, Given
<1>2. ASSUME Dies PROVE BootInv'
  BY <1>2 DEF Dies
<1>3. CASE Boot
  <2>1. ASSUME NEW options, Start(options) PROVE BootInv'
    BY <2>1 DEF Start
  <2>2. CASE IfaceFails
    BY <2>2, <1>2 DEF IfaceFails
  <2>3. CASE IfaceInit \/ CanFails
    BY <2>3, <1>1 DEF IfaceInit, CanFails
  <2>4. CASE SetVmemDir
    BY <2>4, <1>1 DEF SetVmemDir
  <2>5. CASE vmem_file_init
    BY <2>5, <1>1 DEF vmem_file_init
  <2>6. CASE vmem_ring_init
    BY <2>6, <1>1 DEF vmem_ring_init
  <2>7. CASE CreateThread
    BY <2>7, <1>1 DEF CreateThread
  <2> QED
    BY <1>3, <2>1, <2>2, <2>3, <2>4, <2>5, <2>6, <2>7 DEF Boot
<1>4. ASSUME UNCHANGED bootVars PROVE BootInv'
  BY <1>1, <1>4
<1>5. CASE Router
  <2>w. ASSUME NEW p, NEW value, NEW right, Write(p, value, right) PROVE UNCHANGED bootVars
    BY <2>w DEF Write
  <2>1. ASSUME NEW p, NEW n, SetNumber(p, n) PROVE UNCHANGED bootVars
    BY <2>1, <2>w DEF SetNumber
  <2>2. ASSUME NEW p, NEW value, SetPipeline(p, value) \/ OverrunPipeline(p, value)
        PROVE  UNCHANGED bootVars
    BY <2>2, <2>w DEF SetPipeline, OverrunPipeline, WritePipeline
  <2>3. ASSUME NEW p, NEW value, SetModule(p, value) PROVE UNCHANGED bootVars
    BY <2>3, <2>w DEF SetModule
  <2>4. UNCHANGED bootVars
    BY <1>5, <2>1, <2>2, <2>3 DEF Router
  <2> QED
    BY <2>4, <1>4
<1>6. CASE SetupCache
  <2>1. UNCHANGED bootVars
    BY <1>6 DEF SetupCache
  <2> QED
    BY <2>1, <1>4
<1>7. CASE Crash
  BY <1>7, <1>2 DEF Crash
<1>8. CASE UNCHANGED vars
  BY <1>8, <1>4 DEF vars
<1> QED
  BY <1>3, <1>5, <1>6, <1>7, <1>8 DEF Next

\* The router serves parameters only when both files of the directory asked for are open.
THEOREM ReadyWhenServing == Spec => []ServedWhenReady
<1>1. BootInv /\ [Next]_vars => BootInv'
  BY BootInvKept
<1>2. BootInv => ServedWhenReady
  BY DEF BootInv, ServedWhenReady
<1> QED
  BY BootInvInitially, <1>1, <1>2, PTL DEF Spec

(***************************************************************************)
(* Writing a parameter leaves all others as they are.                      *)
(***************************************************************************)
LEMMA SetOthers ==
  ASSUME NEW f, NEW p \in Params, NEW v, NEW q \in Params
  PROVE  /\ q = p => Set(f, p, v)[q] = v
         /\ q # p => Set(f, p, v)[q] = f[q]
<1>1. p \in Stored /\ q \in Stored
  BY StorageAssumption
<1>2. q # p => ~Overlap(p, q)
  BY <1>1, LayoutApart
<1> QED
  BY <1>2 DEF Set

\* The files are functions, which equal ones are if all their values are.
FilesInv ==
  /\ files = written
  /\ files = [d \in Directories |-> files[d]]
  /\ \A d \in Directories : files[d] = [q \in Params |-> files[d][q]]

(***************************************************************************)
(* Each parameter of each directory holds what was last written to it, by  *)
(* the ground or by an error, in whatever order parameters are written,    *)
(* errors published and the process restarted.                             *)
(***************************************************************************)
THEOREM StorageKeepsItsValues == Spec => []StoredAsWritten
<1>1. Init => FilesInv
  BY DEF Init, FilesInv, BlankFile
<1>2. ASSUME FilesInv, [Next]_vars PROVE FilesInv'
  <2> USE <1>2
  <2>1. ASSUME UNCHANGED fileVars PROVE FilesInv'
    BY <2>1 DEF FilesInv, fileVars
  <2>2. ASSUME NEW p \in Params, NEW value, NEW right, Write(p, value, right) PROVE FilesInv'
    <3> DEFINE reports == p.callback # "none" /\ Reports({value})
               file == Set(files[storage], p, value)
               new == IF reports THEN Published(file) ELSE file
               last == [q \in Params |->
                          IF q = log_status /\ reports THEN Number(INTERNAL_BROTLI_DECODE)
                          ELSE IF q = p THEN value ELSE written[storage][q]]
    <3>1. /\ files' = [files EXCEPT ![storage] = new]
          /\ written' = [written EXCEPT ![storage] = last]
      BY <2>2 DEF Write
    <3>2. reports => log_status \in Params
      BY DEF Reports
    <3>3. new = [q \in Params |-> new[q]]
      BY DEF Set, Published
    <3>4. ASSUME NEW q \in Params PROVE new[q] = last[q]
      <4>1. /\ q = p => file[q] = value
            /\ q # p => file[q] = files[storage][q]
        <5>1. file = Set(files[storage], p, value)
          OBVIOUS
        <5> HIDE DEF file
        <5> QED
          BY <5>1, SetOthers
      <4>2. ASSUME reports
            PROVE  /\ q = log_status => new[q] = Number(INTERNAL_BROTLI_DECODE)
                   /\ q # log_status => new[q] = file[q]
        <5>1. new = Set(file, log_status, Number(INTERNAL_BROTLI_DECODE))
          BY <4>2 DEF Published
        <5> HIDE DEF new, file
        <5> QED
          BY <3>2, <4>2, <5>1, SetOthers
      <4>3. ~reports => new[q] = file[q]
        OBVIOUS
      <4> HIDE DEF new, file
      <4>4. files[storage][q] = written[storage][q]
        BY DEF FilesInv
      <4>5. last[q] = IF q = log_status /\ reports THEN Number(INTERNAL_BROTLI_DECODE)
                      ELSE IF q = p THEN value ELSE written[storage][q]
        OBVIOUS
      <4> HIDE DEF reports, last
      <4> QED
        BY <4>1, <4>2, <4>3, <4>4, <4>5
    <3>5. new = last
      BY <3>3, <3>4
    <3> QED
      BY <3>1, <3>3, <3>5 DEF FilesInv
  <2>3. CASE Router
    BY <2>2, <2>3 DEF Router, SetNumber, SetPipeline, OverrunPipeline, WritePipeline, SetModule,
         PipelineParams, ModuleParams
  <2>4. CASE SetupCache
    <3> DEFINE new == Published(files[storage])
               last == [written[storage] EXCEPT ![log_status] = Number(INTERNAL_BROTLI_DECODE)]
    <3>1. CASE UNCHANGED <<files, written>>
      BY <3>1 DEF FilesInv
    <3>2. CASE /\ log_status \in Params
               /\ files' = [files EXCEPT ![storage] = new]
               /\ written' = [written EXCEPT ![storage] = last]
      <4>1. CASE storage \in Directories
        <5>1. new = [q \in Params |-> new[q]]
          BY DEF Set, Published
        <5>2. ASSUME NEW q \in Params PROVE new[q] = last[q]
          <6>1. new = Set(files[storage], log_status, Number(INTERNAL_BROTLI_DECODE))
            BY DEF Published
          <6>2. last[q] = IF q = log_status THEN Number(INTERNAL_BROTLI_DECODE)
                          ELSE files[storage][q]
            BY <4>1 DEF FilesInv
          <6> HIDE DEF new, last
          <6>3. /\ q = log_status => new[q] = Number(INTERNAL_BROTLI_DECODE)
                /\ q # log_status => new[q] = files[storage][q]
            BY <3>2, <6>1, SetOthers
          <6> QED
            BY <6>2, <6>3
        <5>3. last = [q \in Params |-> last[q]]
          BY <4>1 DEF FilesInv
        <5> HIDE DEF new, last
        <5>4. new = last
          BY <5>1, <5>2, <5>3
        <5> QED
          BY <3>2, <5>1, <5>4 DEF FilesInv
      <4>2. CASE storage \notin Directories
        <5>1. files' = files /\ written' = written
          BY <3>2, <4>2 DEF FilesInv
        <5> QED
          BY <5>1 DEF FilesInv
      <4> QED
        BY <4>1, <4>2
    <3> QED
      BY <2>4, <3>1, <3>2 DEF SetupCache, Reports
  <2>5. CASE Boot
    <3>1. UNCHANGED fileVars
      BY <2>5 DEF Boot, Start, IfaceFails, IfaceInit, CanFails, SetVmemDir, vmem_file_init,
           vmem_ring_init, CreateThread, Dies, Keep
    <3> QED
      BY <3>1, <2>1
  <2>6. CASE Crash
    BY <2>6, <2>1 DEF Crash, Dies, Keep
  <2>7. CASE UNCHANGED vars
    BY <2>7, <2>1 DEF vars
  <2> QED
    BY <2>3, <2>4, <2>5, <2>6, <2>7 DEF Next
<1>3. FilesInv => StoredAsWritten
  BY DEF FilesInv, StoredAsWritten
<1> QED
  BY <1>1, <1>2, <1>3, PTL DEF Spec

(***************************************************************************)
(* The last record of an item that sets a field.                           *)
(***************************************************************************)
Greatest(T) == CHOOSE n \in T : \A m \in T : m <= n

LEMMA GreatestElement ==
  ASSUME NEW n \in Nat, NEW T \in SUBSET (1 .. n), T # {}
  PROVE  Greatest(T) \in T /\ \A m \in T : m <= Greatest(T)
<1> DEFINE U == {k \in Nat : n - k \in T}
<1>1. U \in SUBSET Nat /\ U # {}
  <2>1. PICK k \in T : TRUE
    OBVIOUS
  <2>2. n - k \in Nat /\ n - (n - k) = k
    OBVIOUS
  <2> QED
    BY <2>1, <2>2
<1>2. PICK least \in U : \A k \in U : least <= k
  <2> HIDE DEF U
  <2> QED
    BY <1>1, LeastElement
<1>3. ASSUME NEW m \in T PROVE m <= n - least
  <2>1. n - m \in Nat /\ n - (n - m) = m
    OBVIOUS
  <2>2. least <= n - m
    BY <1>2, <2>1
  <2> QED
    BY <2>2
<1>4. \E k \in T : \A m \in T : m <= k
  BY <1>2, <1>3
<1> QED
  BY <1>4 DEF Greatest

LEMMA LastOfNothing ==
  ASSUME NEW numbers PROVE LastOf(<<>>, numbers) = [number |-> 0, value |-> 0]
<1>1. DOMAIN <<>> = {}
  OBVIOUS
<1> QED
  BY <1>1 DEF LastOf

Places(item, numbers) == {n \in DOMAIN item : item[n].number \in numbers}

LEMMA LastOfIsGreatest ==
  ASSUME NEW item, NEW numbers
  PROVE  /\ Places(item, numbers) = {} => LastOf(item, numbers) = [number |-> 0, value |-> 0]
         /\ Places(item, numbers) # {} =>
              LastOf(item, numbers) = item[Greatest(Places(item, numbers))]
BY DEF LastOf, Greatest, Places

LEMMA LastOfWith ==
  ASSUME NEW R, NEW wire \in Seq(R), NEW record \in R, NEW numbers
  PROVE  LastOf(With(wire, record), numbers) =
           IF record.number \in numbers THEN record ELSE LastOf(wire, numbers)
<1>1. PICK longer : longer = With(wire, record)
  OBVIOUS
<1> PICK size : size = Len(wire)
  OBVIOUS
<1>2. /\ size \in Nat /\ DOMAIN wire = 1 .. size /\ DOMAIN longer = 1 .. size + 1
      /\ longer[size + 1] = record /\ \A n \in 1 .. size : longer[n] = wire[n]
  BY <1>1 DEF With
<1> PICK T : T = Places(longer, numbers)
  OBVIOUS
<1> PICK S : S = Places(wire, numbers)
  OBVIOUS
<1>3. CASE record.number \in numbers
  <2>1. T \in SUBSET (1 .. size + 1) /\ size + 1 \in T
    BY <1>2, <1>3 DEF Places
  <2>2. size + 1 \in Nat /\ T # {}
    BY <2>1
  <2>3. Greatest(T) \in T /\ \A m \in T : m <= Greatest(T)
    BY <2>1, <2>2, GreatestElement
  <2>4. Greatest(T) = size + 1
    BY <2>1, <2>3
  <2>5. LastOf(longer, numbers) = longer[Greatest(T)]
    BY <2>2, LastOfIsGreatest
  <2> QED
    BY <1>1, <1>2, <1>3, <2>4, <2>5
<1>4. CASE record.number \notin numbers
  <2>1. T = S /\ S \in SUBSET (1 .. size)
    BY <1>2, <1>4 DEF Places
  <2>2. CASE S = {}
    BY <1>1, <1>4, <2>1, <2>2, LastOfIsGreatest
  <2>3. CASE S # {}
    <3>1. Greatest(S) \in S
      BY <1>2, <2>1, <2>3, GreatestElement
    <3>2. LastOf(longer, numbers) = longer[Greatest(S)] /\ LastOf(wire, numbers) = wire[Greatest(S)]
      BY <2>1, <2>3, LastOfIsGreatest
    <3>3. Greatest(S) \in 1 .. size
      BY <2>1, <3>1
    <3>4. longer[Greatest(S)] = wire[Greatest(S)]
      BY <1>2, <3>3
    <3> QED
      BY <1>1, <1>4, <3>2, <3>4
  <2> QED
    BY <2>2, <2>3
<1> QED
  BY <1>3, <1>4

LEMMA SplitItem ==
  ASSUME NEW n \in Nat, NEW item \in Seq(Records(Int)), Len(item) = n + 1,
         NEW types, HasTypes(item, types)
  PROVE  \E front \in Seq(Records(Int)), record \in Records(Int) :
           /\ item = With(front, record) /\ Len(front) = n /\ HasTypes(front, types)
           /\ record.number \in DOMAIN types => record.wire_type = types[record.number]
<1> DEFINE front == SubSeq(item, 1, n)
           record == item[n + 1]
<1>1. front \in Seq(Records(Int)) /\ record \in Records(Int) /\ Len(front) = n
  OBVIOUS
<1>2. item = Append(front, record)
  OBVIOUS
<1>3. \A k \in DOMAIN front : k \in DOMAIN item /\ front[k] = item[k]
  OBVIOUS
<1>4. n + 1 \in DOMAIN item
  OBVIOUS
<1>5. HasTypes(front, types) /\ (record.number \in DOMAIN types => record.wire_type = types[record.number])
  BY <1>3, <1>4 DEF HasTypes
<1> HIDE DEF front, record
<1> QED
  BY <1>1, <1>2, <1>5 DEF With

LEMMA StoreScalar ==
  ASSUME NEW name, NEW number, NEW type, type # "BOOL", NEW value, NEW message
  PROVE  Store(Field(name, number, type), value, message) = Setting(message, name, value)
BY DEF Store, Parsed, Field, Setting

(***************************************************************************)
(* A module of a pipeline, as it is unpacked: each field has the value of  *)
(* its last record.                                                        *)
(***************************************************************************)
ModuleOf(item) ==
  [order |-> LastOf(item, {1}).value, name |-> LastOf(item, {2}).value,
   param_id |-> LastOf(item, {3}).value]

LEMMA ModuleTable ==
  LET descriptor == module_definition__descriptor IN
  /\ IsTable(descriptor, 3)
  /\ descriptor.init = [order |-> 0, name |-> 0, param_id |-> 0]
  /\ descriptor.fields[1] = Field("order", 1, "INT32")
  /\ descriptor.fields[2] = Field("name", 2, "STRING")
  /\ descriptor.fields[3] = Field("param_id", 3, "INT32")
BY DEF IsTable, module_definition__descriptor, module_definition__field_descriptors,
   module_definition__number_ranges, module_definition__init, Descriptor, Field

LEMMA ModuleUnpacks ==
  ASSUME NEW item \in Seq(Records(Int)), HasTypes(item, ModuleTypes)
  PROVE  UnpackItem(module_definition__descriptor, item) = {ModuleOf(item)}
<1> DEFINE descriptor == module_definition__descriptor
           Done(n) == \A wire \in Seq(Records(Int)) :
             Len(wire) = n /\ HasTypes(wire, ModuleTypes) => UnpackItem(descriptor, wire) = {ModuleOf(wire)}
           T == {n \in Nat : Done(n)}
<1>1. /\ IsTable(descriptor, 3) /\ descriptor.init = [order |-> 0, name |-> 0, param_id |-> 0]
      /\ descriptor.fields[1] = Field("order", 1, "INT32")
      /\ descriptor.fields[2] = Field("name", 2, "STRING")
      /\ descriptor.fields[3] = Field("param_id", 3, "INT32")
  BY ModuleTable
<1>2. \A k \in 1 .. 3 : k \in DOMAIN ModuleTypes /\ WireType(descriptor.fields[k].type) = ModuleTypes[k]
  BY <1>1 DEF ModuleTypes, WireType, Field
<1> HIDE DEF descriptor
<1>3. Done(0)
  <2> SUFFICES ASSUME NEW wire \in Seq(Records(Int)), Len(wire) = 0
               PROVE  UnpackItem(descriptor, wire) = {ModuleOf(wire)}
    OBVIOUS
  <2>1. wire = <<>>
    OBVIOUS
  <2>2. ModuleOf(<<>>) = [order |-> 0, name |-> 0, param_id |-> 0]
    BY LastOfNothing DEF ModuleOf
  <2>3. UnpackItem(descriptor, <<>>) = {descriptor.init}
    BY UnpackNothing
  <2> QED
    BY <1>1, <2>1, <2>2, <2>3
<1>4. ASSUME NEW n \in Nat, Done(n) PROVE Done(n + 1)
  <2> SUFFICES ASSUME NEW wire \in Seq(Records(Int)), Len(wire) = n + 1, HasTypes(wire, ModuleTypes)
               PROVE  UnpackItem(descriptor, wire) = {ModuleOf(wire)}
    OBVIOUS
  <2>1. PICK front \in Seq(Records(Int)), record \in Records(Int) :
           /\ wire = With(front, record) /\ Len(front) = n /\ HasTypes(front, ModuleTypes)
           /\ record.number \in DOMAIN ModuleTypes => record.wire_type = ModuleTypes[record.number]
    BY SplitItem
  <2>2. UnpackItem(descriptor, front) = {ModuleOf(front)}
    BY <1>4, <2>1
  <2>3. \A numbers : LastOf(wire, numbers) = IF record.number \in numbers THEN record
                                             ELSE LastOf(front, numbers)
    BY <2>1, LastOfWith
  <2>4. record.number \in Nat
    BY DEF Records
  <2> PICK before : before = ModuleOf(front)
    OBVIOUS
  <2>8. PICK order, name, param_id : before = [order |-> order, name |-> name, param_id |-> param_id]
    BY DEF ModuleOf
  <2>9. ModuleOf(wire) = [order |-> IF record.number = 1 THEN record.value ELSE order,
                          name |-> IF record.number = 2 THEN record.value ELSE name,
                          param_id |-> IF record.number = 3 THEN record.value ELSE param_id]
    <3>1. [order |-> LastOf(front, {1}).value, name |-> LastOf(front, {2}).value,
           param_id |-> LastOf(front, {3}).value]
          = [order |-> order, name |-> name, param_id |-> param_id]
      BY <2>8 DEF ModuleOf
    <3>2. /\ order = LastOf(front, {1}).value /\ name = LastOf(front, {2}).value
          /\ param_id = LastOf(front, {3}).value
      BY <3>1
    <3> QED
      BY <2>3, <3>2 DEF ModuleOf
  <2>7. ItemYields(descriptor, front, before)
    BY <2>2 DEF ItemYields
  <2>5. CASE record.number \notin 1 .. 3
    <3>1. IsUnknown(descriptor, record)
      BY <1>1, <2>4, <2>5, FieldInTable DEF IsUnknown
    <3>2. ItemYields(descriptor, With(front, record), before)
      BY <2>7, <3>1, ItemUnknown
    <3>3. ModuleOf(wire) = before
      BY <2>3, <2>5 DEF ModuleOf
    <3> QED
      BY <2>1, <3>2, <3>3 DEF ItemYields
  <2>6. CASE record.number \in 1 .. 3
    <3>1. IsTable(descriptor, 3) /\ IsKnown(descriptor, 3, record)
      BY <1>1, <1>2, <2>1, <2>6 DEF IsKnown, Accepts
    <3>2. ItemYields(descriptor, With(front, record),
                     Store(descriptor.fields[record.number], record.value, before))
      BY <2>7, <3>1, ItemKnown
    <3> PICK value : value = record.value
      OBVIOUS
    <3>3. Store(descriptor.fields[record.number], value, before) = ModuleOf(wire)
      <4>1. CASE record.number = 1
        <5>1. Store(descriptor.fields[1], value, before) = Setting(before, "order", value)
          BY <1>1, StoreScalar
        <5>2. Setting(before, "order", value) = ModuleOf(wire)
          BY <2>8, <2>9, <4>1 DEF Setting
        <5> QED
          BY <4>1, <5>1, <5>2
      <4>2. CASE record.number = 2
        <5>1. Store(descriptor.fields[2], value, before) = Setting(before, "name", value)
          BY <1>1, StoreScalar
        <5>2. Setting(before, "name", value) = ModuleOf(wire)
          BY <2>8, <2>9, <4>2 DEF Setting
        <5> QED
          BY <4>2, <5>1, <5>2
      <4>3. CASE record.number = 3
        <5>1. Store(descriptor.fields[3], value, before) = Setting(before, "param_id", value)
          BY <1>1, StoreScalar
        <5>2. Setting(before, "param_id", value) = ModuleOf(wire)
          BY <2>8, <2>9, <4>3 DEF Setting
        <5> QED
          BY <4>3, <5>1, <5>2
      <4> QED
        BY <2>6, <4>1, <4>2, <4>3
    <3> QED
      BY <2>1, <3>2, <3>3 DEF ItemYields
  <2> QED
    BY <2>5, <2>6
<1>5. Len(item) \in T
  <2>1. 0 \in T /\ \A n \in Nat : n \in T => n + 1 \in T
    BY <1>3, <1>4
  <2> HIDE DEF T
  <2> QED
    BY <2>1, Induction
<1> QED
  BY <1>5 DEF descriptor

(***************************************************************************)
(* A parameter of a module, as it is unpacked: of the members of the oneof *)
(* the last record counts.                                                 *)
(***************************************************************************)
SettingMember(message, number, value) ==
  [message EXCEPT !.value_case = number, !.value = value]

MemberValue(number, value) == IF number = 2 THEN Truth(value) ELSE value

LEMMA StoreMember ==
  ASSUME NEW name, NEW number, NEW type, type = "BOOL" <=> number = 2, NEW value, NEW message
  PROVE  Store(OneOf(name, number, type), value, message) =
           SettingMember(message, number, MemberValue(number, value))
<1> DEFINE field == OneOf(name, number, type)
<1>1. field.oneof /\ field.number = number /\ field.type = type
  BY DEF OneOf, Field
<1> HIDE DEF field
<1>2. Parsed(field, value) = MemberValue(number, value)
  BY <1>1 DEF Parsed, MemberValue
<1>3. Store(field, value, message) =
        [message EXCEPT !.value_case = field.number, !.value = Parsed(field, value)]
  BY <1>1 DEF Store
<1> QED
  BY <1>1, <1>2, <1>3 DEF SettingMember, field

ParameterOf(item) ==
  [key |-> LastOf(item, {1}).value, value_case |-> LastOf(item, 2 .. 5).number,
   value |-> MemberValue(LastOf(item, 2 .. 5).number, LastOf(item, 2 .. 5).value)]

\* An item that the table of a parameter can read: a bool has any wire type.
Readable(item) ==
  \A n \in DOMAIN item :
    item[n].number \in 1 .. 5 =>
      Accepts(config_parameter__descriptor.fields[item[n].number], item[n].wire_type)

LEMMA SplitReadable ==
  ASSUME NEW n \in Nat, NEW item \in Seq(Records(Int)), Len(item) = n + 1, Readable(item)
  PROVE  \E front \in Seq(Records(Int)), record \in Records(Int) :
           /\ item = With(front, record) /\ Len(front) = n /\ Readable(front)
           /\ record.number \in 1 .. 5 =>
                Accepts(config_parameter__descriptor.fields[record.number], record.wire_type)
<1> DEFINE front == SubSeq(item, 1, n)
           record == item[n + 1]
<1>1. front \in Seq(Records(Int)) /\ record \in Records(Int) /\ Len(front) = n
  OBVIOUS
<1>2. item = Append(front, record)
  OBVIOUS
<1>3. \A k \in DOMAIN front : k \in DOMAIN item /\ front[k] = item[k]
  OBVIOUS
<1>4. n + 1 \in DOMAIN item
  OBVIOUS
<1>5. /\ Readable(front)
      /\ record.number \in 1 .. 5 =>
           Accepts(config_parameter__descriptor.fields[record.number], record.wire_type)
  BY <1>3, <1>4 DEF Readable
<1> HIDE DEF front, record
<1> QED
  BY <1>1, <1>2, <1>5 DEF With

LEMMA ParameterTable ==
  LET descriptor == config_parameter__descriptor IN
  /\ IsTable(descriptor, 5)
  /\ descriptor.init = [key |-> 0, value_case |-> 0, value |-> 0]
  /\ descriptor.fields[1] = Field("key", 1, "STRING")
  /\ descriptor.fields[2] = OneOf("bool_value", 2, "BOOL")
  /\ descriptor.fields[3] = OneOf("int_value", 3, "INT32")
  /\ descriptor.fields[4] = OneOf("float_value", 4, "FLOAT")
  /\ descriptor.fields[5] = OneOf("string_value", 5, "STRING")
BY DEF IsTable, config_parameter__descriptor, config_parameter__field_descriptors,
   config_parameter__number_ranges, config_parameter__init, CONFIG_PARAMETER__VALUE__NOT_SET,
   Descriptor, Field, OneOf

LEMMA ParameterIsReadable ==
  ASSUME NEW item, HasTypes(item, ParameterTypes)
  PROVE  Readable(item)
<1>1. \A k \in 1 .. 5 :
        /\ k \in DOMAIN ParameterTypes
        /\ WireType(config_parameter__descriptor.fields[k].type) = ParameterTypes[k]
  BY ParameterTable DEF ParameterTypes, WireType, Field, OneOf
<1> QED
  BY <1>1 DEF Readable, HasTypes, Accepts

LEMMA UnreadableIsSpoiled ==
  ASSUME NEW item \in Seq(Records(Int)), ~Readable(item)
  PROVE  UnpackItem(config_parameter__descriptor, item) = {}
<1>1. PICK n \in 1 .. Len(item) :
        /\ item[n].number \in 1 .. 5
        /\ ~Accepts(config_parameter__descriptor.fields[item[n].number], item[n].wire_type)
  BY DEF Readable
<1>2. IsTable(config_parameter__descriptor, 5)
  BY ParameterTable
<1> QED
  BY <1>1, <1>2, ItemSpoiled

LEMMA ParameterUnpacks ==
  ASSUME NEW item \in Seq(Records(Int)), Readable(item)
  PROVE  UnpackItem(config_parameter__descriptor, item) = {ParameterOf(item)}
<1> DEFINE descriptor == config_parameter__descriptor
           Done(n) == \A wire \in Seq(Records(Int)) :
             Len(wire) = n /\ Readable(wire) => UnpackItem(descriptor, wire) = {ParameterOf(wire)}
           T == {n \in Nat : Done(n)}
<1>1. /\ IsTable(descriptor, 5) /\ descriptor.init = [key |-> 0, value_case |-> 0, value |-> 0]
      /\ descriptor.fields[1] = Field("key", 1, "STRING")
      /\ descriptor.fields[2] = OneOf("bool_value", 2, "BOOL")
      /\ descriptor.fields[3] = OneOf("int_value", 3, "INT32")
      /\ descriptor.fields[4] = OneOf("float_value", 4, "FLOAT")
      /\ descriptor.fields[5] = OneOf("string_value", 5, "STRING")
  BY ParameterTable
<1>2. \A record : Accepts(descriptor.fields[record.number], record.wire_type) <=>
                  Accepts(config_parameter__descriptor.fields[record.number], record.wire_type)
  OBVIOUS
<1> HIDE DEF descriptor
<1>3. Done(0)
  <2> SUFFICES ASSUME NEW wire \in Seq(Records(Int)), Len(wire) = 0
               PROVE  UnpackItem(descriptor, wire) = {ParameterOf(wire)}
    OBVIOUS
  <2>1. wire = <<>>
    OBVIOUS
  <2>2. ParameterOf(<<>>) = [key |-> 0, value_case |-> 0, value |-> 0]
    BY LastOfNothing DEF ParameterOf, MemberValue
  <2>3. UnpackItem(descriptor, <<>>) = {descriptor.init}
    BY UnpackNothing
  <2> QED
    BY <1>1, <2>1, <2>2, <2>3
<1>4. ASSUME NEW n \in Nat, Done(n) PROVE Done(n + 1)
  <2> SUFFICES ASSUME NEW wire \in Seq(Records(Int)), Len(wire) = n + 1,
                      Readable(wire)
               PROVE  UnpackItem(descriptor, wire) = {ParameterOf(wire)}
    OBVIOUS
  <2>1. PICK front \in Seq(Records(Int)), record \in Records(Int) :
           /\ wire = With(front, record) /\ Len(front) = n /\ Readable(front)
           /\ record.number \in 1 .. 5 =>
                Accepts(config_parameter__descriptor.fields[record.number], record.wire_type)
    BY SplitReadable
  <2>2. UnpackItem(descriptor, front) = {ParameterOf(front)}
    BY <1>4, <2>1
  <2>3. \A numbers : LastOf(wire, numbers) = IF record.number \in numbers THEN record
                                             ELSE LastOf(front, numbers)
    BY <2>1, LastOfWith
  <2>4. record.number \in Nat
    BY DEF Records
  <2> PICK before : before = ParameterOf(front)
    OBVIOUS
  <2>5. ItemYields(descriptor, front, before)
    BY <2>2 DEF ItemYields
  <2>6. CASE record.number \notin 1 .. 5
    <3>1. IsUnknown(descriptor, record)
      BY <1>1, <2>4, <2>6, FieldInTable DEF IsUnknown
    <3>2. ItemYields(descriptor, With(front, record), before)
      BY <2>5, <3>1, ItemUnknown
    <3>3. ParameterOf(wire) = before
      <4>1. record.number \notin {1} /\ record.number \notin 2 .. 5
        BY <2>4, <2>6
      <4> QED
        BY <2>3, <4>1 DEF ParameterOf
    <3> QED
      BY <2>1, <3>2, <3>3 DEF ItemYields
  <2>7. CASE record.number \in 1 .. 5
    <3>1. IsTable(descriptor, 5) /\ IsKnown(descriptor, 5, record)
      BY <1>1, <1>2, <2>1, <2>7 DEF IsKnown
    <3>2. ItemYields(descriptor, With(front, record),
                     Store(descriptor.fields[record.number], record.value, before))
      BY <2>5, <3>1, ItemKnown
    <3> PICK value : value = record.value
      OBVIOUS
    <3>3. Store(descriptor.fields[record.number], value, before) = ParameterOf(wire)
      <4>1. CASE record.number = 1
        <5>1. Store(descriptor.fields[1], value, before) = Setting(before, "key", value)
          BY <1>1, StoreScalar, SMTT(30)
        <5>2. LastOf(wire, {1}) = record /\ LastOf(wire, 2 .. 5) = LastOf(front, 2 .. 5)
          BY <2>3, <4>1
        <5> QED
          BY <4>1, <5>1, <5>2 DEF ParameterOf, Setting
      <4>2. CASE record.number \in 2 .. 5
        <5>1. Store(descriptor.fields[record.number], value, before) =
                SettingMember(before, record.number, MemberValue(record.number, value))
          <6>1. PICK name, type :
                  /\ descriptor.fields[record.number] = OneOf(name, record.number, type)
                  /\ type = "BOOL" <=> record.number = 2
            BY <1>1, <4>2
          <6> QED
            BY <6>1, StoreMember
        <5>2. LastOf(wire, {1}) = LastOf(front, {1}) /\ LastOf(wire, 2 .. 5) = record
          BY <2>3, <4>2
        <5> QED
          BY <5>1, <5>2 DEF ParameterOf, SettingMember
      <4> QED
        BY <2>7, <4>1, <4>2
    <3> QED
      BY <2>1, <3>2, <3>3 DEF ItemYields
  <2> QED
    BY <2>6, <2>7
<1>5. Len(item) \in T
  <2>1. 0 \in T /\ \A n \in Nat : n \in T => n + 1 \in T
    BY <1>3, <1>4
  <2> HIDE DEF T
  <2> QED
    BY <2>1, Induction
<1> QED
  BY <1>5 DEF descriptor

(***************************************************************************)
(* A message is a list of items.                                           *)
(***************************************************************************)
ItemRecord == [number : {1}, wire_type : {"LENGTH_PREFIXED"}, value : Seq(Records(Int))]

IsList(descriptor, field) ==
  /\ IsRepeated(descriptor, field) /\ field.number = 1 /\ field.type = "MESSAGE"
  /\ IsFunction(descriptor.init) /\ field.name \in DOMAIN descriptor.init
  /\ descriptor.init[field.name] = <<>>

AreItems(descriptor, wire, items) ==
  /\ items = [k \in DOMAIN wire |-> items[k]]
  /\ \A k \in DOMAIN wire : ItemYields(descriptor, wire[k].value, items[k])

LEMMA RecordOfItem ==
  ASSUME NEW descriptor, NEW field, IsList(descriptor, field), NEW record \in ItemRecord
  PROVE  Record(field, record.value) = record
<1>1. field.number = 1 /\ WireType(field.type) = "LENGTH_PREFIXED"
  BY DEF IsList, WireType
<1> QED
  BY <1>1 DEF Record, ItemRecord

LEMMA ListUnpacks ==
  ASSUME NEW descriptor, NEW field, IsList(descriptor, field), NEW wire \in Message,
         NEW items, AreItems(field.descriptor, wire, items)
  PROVE  Unpack(descriptor, wire) = {Setting(descriptor.init, field.name, items)}
<1> DEFINE R == ItemRecord
           values == [k \in DOMAIN wire |-> wire[k].value]
<1> PICK size : size = Len(wire)
  OBVIOUS
<1>1. wire \in Seq(R) /\ size \in Nat /\ DOMAIN wire = 1 .. size
  BY DEF Message, ItemRecord
<1>2. \A k \in 1 .. size : wire[k] \in R /\ values[k] = wire[k].value
  BY <1>1
<1> HIDE DEF R, values
<1>3. \A k \in 1 .. size : Record(field, values[k]) = wire[k]
  BY <1>2, RecordOfItem DEF R
<1> DEFINE I == {items[k] : k \in 1 .. size}
<1>4. items \in [1 .. size -> I]
  BY <1>1 DEF AreItems
<1>5. \A k \in 1 .. size : UnpackItem(field.descriptor, values[k]) = {items[k]}
  BY <1>1, <1>2 DEF AreItems, ItemYields
<1>6. wire = [k \in 1 .. size |-> Record(field, values[k])]
  BY <1>1, <1>3
<1>7. RecordsOf(field, R, size, I, items, values, wire)
  BY <1>2, <1>3, <1>4, <1>5, <1>6 DEF RecordsOf
<1> HIDE DEF I
<1> PICK empty : empty = <<>>
  OBVIOUS
<1>8. empty \in Seq(R) /\ Unpack(descriptor, empty) = {descriptor.init}
  <2>1. <<>> \in Seq(R)
    OBVIOUS
  <2> QED
    BY <2>1, UnpackNothing
<1> PICK init : init = descriptor.init
  OBVIOUS
<1>9. IsRepeated(descriptor, field) /\ IsEmpty(field, init) /\ Yields(descriptor, empty, init)
  BY <1>8 DEF IsList, IsEmpty, Yields
<1>10. Yields(descriptor, Joined(empty, wire), Setting(init, field.name, items))
  BY <1>1, <1>7, <1>8, <1>9, RepeatedUpTo
<1>11. Joined(empty, wire) = wire
  BY <1>1 DEF Joined
<1> QED
  BY <1>10, <1>11 DEF Yields

\* One item that cannot be unpacked is enough.
LEMMA ListSpoiled ==
  ASSUME NEW descriptor, NEW field, IsList(descriptor, field), NEW wire \in Message,
         NEW k \in DOMAIN wire, UnpackItem(field.descriptor, wire[k].value) = {}
  PROVE  Unpack(descriptor, wire) = {}
<1>1. wire \in Seq(ItemRecord) /\ k \in 1 .. Len(wire) /\ wire[k] \in ItemRecord
  <2>1. wire \in Seq(ItemRecord)
    BY DEF Message, ItemRecord
  <2> HIDE DEF ItemRecord
  <2> QED
    BY <2>1
<1>2. PICK value : value = wire[k].value
  OBVIOUS
<1>3. wire[k] = Record(field, value) /\ UnpackItem(field.descriptor, value) = {}
  BY <1>1, <1>2, RecordOfItem
<1>4. IsRepeated(descriptor, field)
  BY DEF IsList
<1> QED
  BY <1>1, <1>3, <1>4, MessageSpoiled

LEMMA PipelineList ==
  /\ IsList(pipeline_definition__descriptor, Repeated("modules", 1, module_definition__descriptor))
  /\ pipeline_definition__descriptor.init = [modules |-> <<>>]
<1> DEFINE descriptor == pipeline_definition__descriptor
           field == Repeated("modules", 1, module_definition__descriptor)
<1>1. /\ descriptor.number_ranges = << <<1, 0>>, <<0, 1>> >> /\ descriptor.fields[1] = field
      /\ descriptor.init = [modules |-> <<>>]
  BY DEF pipeline_definition__descriptor, pipeline_definition__field_descriptors,
     pipeline_definition__number_ranges, pipeline_definition__init, Descriptor
<1>2. /\ field.name = "modules" /\ field.number = 1 /\ field.type = "MESSAGE"
      /\ field.label = "REPEATED" /\ ~field.oneof
  BY DEF Repeated
<1> HIDE DEF descriptor, field
<1>3. Has(descriptor, field)
  BY <1>1, <1>2 DEF Has
<1>4. /\ IsFunction(descriptor.init) /\ field.name \in DOMAIN descriptor.init
      /\ descriptor.init[field.name] = <<>>
  BY <1>1, <1>2 DEF IsFunction
<1>5. IsList(descriptor, field)
  BY <1>2, <1>3, <1>4 DEF IsList, IsRepeated
<1> QED
  BY <1>1, <1>5 DEF descriptor, field

LEMMA ModuleList ==
  /\ IsList(module_config__descriptor, Repeated("parameters", 1, config_parameter__descriptor))
  /\ module_config__descriptor.init = [parameters |-> <<>>]
<1> DEFINE descriptor == module_config__descriptor
           field == Repeated("parameters", 1, config_parameter__descriptor)
<1>1. /\ descriptor.number_ranges = << <<1, 0>>, <<0, 1>> >> /\ descriptor.fields[1] = field
      /\ descriptor.init = [parameters |-> <<>>]
  BY DEF module_config__descriptor, module_config__field_descriptors,
     module_config__number_ranges, module_config__init, Descriptor
<1>2. /\ field.name = "parameters" /\ field.number = 1 /\ field.type = "MESSAGE"
      /\ field.label = "REPEATED" /\ ~field.oneof
  BY DEF Repeated
<1> HIDE DEF descriptor, field
<1>3. Has(descriptor, field)
  BY <1>1, <1>2 DEF Has
<1>4. /\ IsFunction(descriptor.init) /\ field.name \in DOMAIN descriptor.init
      /\ descriptor.init[field.name] = <<>>
  BY <1>1, <1>2 DEF IsFunction
<1>5. IsList(descriptor, field)
  BY <1>2, <1>3, <1>4 DEF IsList, IsRepeated
<1> QED
  BY <1>1, <1>5 DEF descriptor, field

(***************************************************************************)
(* What comes of a message: from one of the right kind, what the ground    *)
(* meant; from one of the other kind, nothing, unless it is empty or is a  *)
(* definition without orders, which reads as a list of parameters.         *)
(***************************************************************************)
LEMMA OfEither ==
  ASSUME NEW contents, NEW types, NEW required, ItemsAre(contents, types, required),
         NEW content \in contents
  PROVE  /\ content.wire \in Message
         /\ \A k \in DOMAIN content.wire :
              /\ content.wire[k].value \in Seq(Records(Int))
              /\ HasTypes(content.wire[k].value, types)
              /\ \E n \in DOMAIN content.wire[k].value : content.wire[k].value[n].number = required
<1>1. content.wire \in Message
  BY DEF ItemsAre
<1>2. \A k \in DOMAIN content.wire : content.wire[k].value \in Seq(Records(Int))
  <2>1. content.wire \in Seq(ItemRecord)
    BY <1>1 DEF Message, ItemRecord
  <2>2. \A record \in ItemRecord : record.value \in Seq(Records(Int))
    BY DEF ItemRecord
  <2> HIDE DEF ItemRecord
  <2> QED
    BY <2>1, <2>2
<1> QED
  BY <1>1, <1>2 DEF ItemsAre

LEMMA PipelineUnpacks ==
  ASSUME NEW content \in PipelineContents
  PROVE  pipeline_definition__unpack(content.wire) =
           {[modules |-> [k \in DOMAIN content.wire |-> ModuleOf(content.wire[k].value)]]}
<1> PICK wire : wire = content.wire
  OBVIOUS
<1> DEFINE items == [k \in DOMAIN wire |-> ModuleOf(wire[k].value)]
           field == Repeated("modules", 1, module_definition__descriptor)
<1>1. /\ wire \in Message
      /\ \A k \in DOMAIN wire : wire[k].value \in Seq(Records(Int)) /\ HasTypes(wire[k].value, ModuleTypes)
  BY ContentsAssumption, OfEither
<1>2. AreItems(module_definition__descriptor, wire, items)
  <2>1. \A k \in DOMAIN wire : ItemYields(module_definition__descriptor, wire[k].value, items[k])
    BY <1>1, ModuleUnpacks DEF ItemYields
  <2>2. items = [k \in DOMAIN wire |-> items[k]]
    OBVIOUS
  <2> HIDE DEF items
  <2> QED
    BY <2>1, <2>2 DEF AreItems
<1>3. field.name = "modules" /\ field.descriptor = module_definition__descriptor
  BY DEF Repeated
<1>4. /\ IsList(pipeline_definition__descriptor, field)
      /\ pipeline_definition__descriptor.init = [modules |-> <<>>]
  BY PipelineList
<1> HIDE DEF items, field
<1>5. Unpack(pipeline_definition__descriptor, wire) =
        {Setting(pipeline_definition__descriptor.init, field.name, items)}
  BY <1>1, <1>2, <1>3, <1>4, ListUnpacks
<1>6. Setting([modules |-> <<>>], "modules", items) = [modules |-> items]
  BY DEF Setting
<1> QED
  BY <1>3, <1>4, <1>5, <1>6 DEF pipeline_definition__unpack, items

LEMMA ParametersUnpack ==
  ASSUME NEW wire \in Message,
         \A k \in DOMAIN wire : wire[k].value \in Seq(Records(Int)) /\ Readable(wire[k].value)
  PROVE  module_config__unpack(wire) =
           {[parameters |-> [k \in DOMAIN wire |-> ParameterOf(wire[k].value)]]}
<1> DEFINE items == [k \in DOMAIN wire |-> ParameterOf(wire[k].value)]
           field == Repeated("parameters", 1, config_parameter__descriptor)
<1>1. /\ wire \in Message
      /\ \A k \in DOMAIN wire : wire[k].value \in Seq(Records(Int)) /\ Readable(wire[k].value)
  OBVIOUS
<1>2. AreItems(config_parameter__descriptor, wire, items)
  <2>1. \A k \in DOMAIN wire : ItemYields(config_parameter__descriptor, wire[k].value, items[k])
    BY <1>1, ParameterUnpacks DEF ItemYields
  <2>2. items = [k \in DOMAIN wire |-> items[k]]
    OBVIOUS
  <2> HIDE DEF items
  <2> QED
    BY <2>1, <2>2 DEF AreItems
<1>3. field.name = "parameters" /\ field.descriptor = config_parameter__descriptor
  BY DEF Repeated
<1>4. /\ IsList(module_config__descriptor, field)
      /\ module_config__descriptor.init = [parameters |-> <<>>]
  BY ModuleList
<1> HIDE DEF items, field
<1>5. Unpack(module_config__descriptor, wire) =
        {Setting(module_config__descriptor.init, field.name, items)}
  BY <1>1, <1>2, <1>3, <1>4, ListUnpacks
<1>6. Setting([parameters |-> <<>>], "parameters", items) = [parameters |-> items]
  BY DEF Setting
<1> QED
  BY <1>3, <1>4, <1>5, <1>6 DEF module_config__unpack, items

LEMMA ModuleConfigUnpacks ==
  ASSUME NEW content \in ModuleContents
  PROVE  module_config__unpack(content.wire) =
           {[parameters |-> [k \in DOMAIN content.wire |-> ParameterOf(content.wire[k].value)]]}
<1> PICK wire : wire = content.wire
  OBVIOUS
<1>1. wire \in Message
  BY ContentsAssumption, OfEither
<1>2. \A k \in DOMAIN wire : wire[k].value \in Seq(Records(Int)) /\ Readable(wire[k].value)
  BY ContentsAssumption, OfEither, ParameterIsReadable
<1> QED
  BY <1>1, <1>2, ParametersUnpack

\* Both tables know the number that the other kind requires, with another wire type.
LEMMA ModuleIsNoPipeline ==
  ASSUME NEW content \in ModuleContents, content.wire # <<>>
  PROVE  pipeline_definition__unpack(content.wire) = {}
<1> DEFINE field == Repeated("modules", 1, module_definition__descriptor)
<1> PICK wire : wire = content.wire
  OBVIOUS
<1>1. /\ wire \in Message
      /\ \A k \in DOMAIN wire :
           /\ wire[k].value \in Seq(Records(Int)) /\ HasTypes(wire[k].value, ParameterTypes)
           /\ \E n \in DOMAIN wire[k].value : wire[k].value[n].number = 1
  BY ContentsAssumption, OfEither
<1>2. PICK k \in DOMAIN wire : k = 1
  BY <1>1 DEF Message
<1>3. PICK item \in Seq(Records(Int)) : item = wire[k].value
  BY <1>1
<1>4. PICK n \in DOMAIN item : item[n].number = 1
  BY <1>1, <1>3
<1>5. item[n].wire_type = "LENGTH_PREFIXED"
  BY <1>1, <1>3, <1>4 DEF HasTypes, ParameterTypes
<1>6. UnpackItem(module_definition__descriptor, item) = {}
  <2>1. /\ IsTable(module_definition__descriptor, 3)
        /\ ~Accepts(module_definition__descriptor.fields[1], "LENGTH_PREFIXED")
    BY ModuleTable DEF Field, WireType, Accepts
  <2>2. n \in 1 .. Len(item)
    OBVIOUS
  <2>3. /\ item[n].number \in 1 .. 3
        /\ ~Accepts(module_definition__descriptor.fields[item[n].number], item[n].wire_type)
    BY <1>4, <1>5, <2>1
  <2> QED
    BY <2>1, <2>2, <2>3, ItemSpoiled
<1>7. IsList(pipeline_definition__descriptor, field) /\ field.descriptor = module_definition__descriptor
  BY PipelineList DEF Repeated
<1> HIDE DEF field
<1>8. Unpack(pipeline_definition__descriptor, wire) = {}
  BY <1>1, <1>3, <1>6, <1>7, ListSpoiled
<1> QED
  BY <1>8 DEF pipeline_definition__unpack

\* The table of a parameter knows the order of a module with another wire type; a definition
\* without any is read, or has something else that spoils it.
LEMMA PipelineAsModule ==
  ASSUME NEW content \in PipelineContents
  PROVE  \/ module_config__unpack(content.wire) = {}
         \/ /\ Unordered(content)
            /\ module_config__unpack(content.wire) =
                 {[parameters |-> [k \in DOMAIN content.wire |-> ParameterOf(content.wire[k].value)]]}
<1> DEFINE field == Repeated("parameters", 1, config_parameter__descriptor)
<1> PICK wire : wire = content.wire
  OBVIOUS
<1>1. wire \in Message
  BY ContentsAssumption, OfEither
<1>2. \A k \in DOMAIN wire : wire[k].value \in Seq(Records(Int)) /\ HasTypes(wire[k].value, ModuleTypes)
  BY ContentsAssumption, OfEither
<1>3. CASE \E k \in DOMAIN wire : ~Readable(wire[k].value)
  <2>1. PICK k \in DOMAIN wire : ~Readable(wire[k].value)
    BY <1>3
  <2>2. UnpackItem(config_parameter__descriptor, wire[k].value) = {}
    BY <1>2, <2>1, UnreadableIsSpoiled
  <2>3. IsList(module_config__descriptor, field) /\ field.descriptor = config_parameter__descriptor
    BY ModuleList DEF Repeated
  <2> HIDE DEF field
  <2>4. Unpack(module_config__descriptor, wire) = {}
    BY <1>1, <2>2, <2>3, ListSpoiled
  <2> QED
    BY <2>4 DEF module_config__unpack
<1>4. CASE \A k \in DOMAIN wire : Readable(wire[k].value)
  <2>1. module_config__unpack(wire) =
          {[parameters |-> [k \in DOMAIN wire |-> ParameterOf(wire[k].value)]]}
    BY <1>1, <1>2, <1>4, ParametersUnpack
  <2>2. ASSUME NEW k \in DOMAIN wire, NEW n \in DOMAIN wire[k].value
        PROVE  wire[k].value[n].number # 1
    <3> SUFFICES ASSUME wire[k].value[n].number = 1 PROVE FALSE
      OBVIOUS
    <3> PICK record : record = wire[k].value[n]
      OBVIOUS
    <3>1. record.wire_type = "VARINT"
      BY <1>2 DEF HasTypes, ModuleTypes
    <3>2. Accepts(config_parameter__descriptor.fields[1], record.wire_type)
      BY <1>4 DEF Readable
    <3>3. config_parameter__descriptor.fields[1].type = "STRING"
      BY ParameterTable DEF Field
    <3> QED
      BY <3>1, <3>2, <3>3 DEF Accepts, WireType
  <2>3. Unordered(content)
    BY <2>2 DEF Unordered
  <2> QED
    BY <2>1, <2>3
<1> QED
  BY <1>3, <1>4

(***************************************************************************)
(* The entry of a table that results from a value of its parameter.        *)
(***************************************************************************)
IsPacked(value, contents) == \E content \in contents : value = Packed(content)

\* What the bytes of a configuration may hold.
ConfigurationValues == Contents \cup {[kind |-> "blank"]}

LEMMA PackedOfEither ==
  ASSUME NEW value \in ConfigurationValues, value.kind = "packed"
  PROVE  IsPacked(value, PipelineContents) \/ IsPacked(value, ModuleContents)
BY DEF ConfigurationValues, Contents, IsPacked, Noise

ModulesOf(items) ==
  [k \in DOMAIN items |-> [name |-> items[k].name, param_id |-> items[k].param_id - 1]]
ParametersOf(items) == [k \in DOMAIN items |-> ModuleParameter(items[k])]

LEMMA PipelineFromOne ==
  ASSUME NEW value, NEW items,
         pipeline_definition__unpack(Buffer(value)) = {[modules |-> items]}, NEW p, NEW entry
  PROVE  PipelineFrom(p, value, entry) = [pipeline_id |-> Index(p) + 1, modules |-> ModulesOf(items)]
<1> DEFINE pdefs == pipeline_definition__unpack(Buffer(value))
           pdef == CHOOSE d \in pdefs : TRUE
<1>1. PipelineFrom(p, value, entry) =
        IF pdefs = {} THEN entry
        ELSE [pipeline_id |-> Index(p) + 1,
              modules |-> [k \in DOMAIN pdef.modules |->
                             [name |-> pdef.modules[k].name,
                              param_id |-> pdef.modules[k].param_id - 1]]]
  BY Zenon DEF PipelineFrom
<1> HIDE DEF pdefs
<1>2. pdefs = {[modules |-> items]}
  BY DEF pdefs
<1>3. pdef = [modules |-> items] /\ pdefs # {}
  BY <1>2
<1> HIDE DEF pdef
<1> QED
  BY <1>1, <1>3 DEF ModulesOf

LEMMA ListFromOne ==
  ASSUME NEW value, NEW items,
         module_config__unpack(Buffer(value)) = {[parameters |-> items]}, NEW entry
  PROVE  ListFrom(value, entry) = ParametersOf(items)
<1> DEFINE mcons == module_config__unpack(Buffer(value))
           mcon == CHOOSE c \in mcons : TRUE
<1>1. ListFrom(value, entry) =
        IF mcons = {} THEN entry
        ELSE [k \in DOMAIN mcon.parameters |-> ModuleParameter(mcon.parameters[k])]
  BY Zenon DEF ListFrom
<1> HIDE DEF mcons
<1>2. mcons = {[parameters |-> items]}
  BY DEF mcons
<1>3. mcon = [parameters |-> items] /\ mcons # {}
  BY <1>2
<1> HIDE DEF mcon
<1> QED
  BY <1>1, <1>3 DEF ParametersOf

LEMMA PipelineFromMeant ==
  ASSUME NEW content \in PipelineContents, NEW value, value = Packed(content), Decodes(value),
         NEW p, NEW entry
  PROVE  PipelineFrom(p, value, entry) =
           [pipeline_id |-> Index(p) + 1, modules |-> MeantModules(content)]
<1> PICK items : items = [k \in DOMAIN content.wire |-> ModuleOf(content.wire[k].value)]
  OBVIOUS
<1>1. Buffer(value) = content.wire
  BY DEF Buffer, Packed
<1>2. PipelineFrom(p, value, entry) =
        [pipeline_id |-> Index(p) + 1, modules |-> ModulesOf(items)]
  <2>1. pipeline_definition__unpack(content.wire) = {[modules |-> items]}
    BY PipelineUnpacks
  <2>2. pipeline_definition__unpack(Buffer(value)) = {[modules |-> items]}
    BY <1>1, <2>1
  <2> QED
    BY <2>2, PipelineFromOne
<1>3. ModulesOf(items) = MeantModules(content)
  BY DEF ModulesOf, MeantModules, MeantModule, ModuleOf
<1> QED
  BY <1>2, <1>3

\* What the ground means by the parameters of a message is what is unpacked and copied.
LEMMA ParametersAreMeant ==
  ASSUME NEW content, \A k \in DOMAIN content.wire : content.wire[k].value \in Seq(Records(Int))
  PROVE  ParametersOf([k \in DOMAIN content.wire |-> ParameterOf(content.wire[k].value)]) =
           MeantParameters(content)
<1> DEFINE items == [k \in DOMAIN content.wire |-> ParameterOf(content.wire[k].value)]
<1>1. ASSUME NEW k \in DOMAIN content.wire
      PROVE  ModuleParameter(items[k]) = MeantParameter(content.wire[k].value)
  <2> PICK item : item = content.wire[k].value
    OBVIOUS
  <2>1. items[k] = ParameterOf(item)
    OBVIOUS
  <2>2. LastOf(item, 2 .. 5).number \in 2 .. 5 \/ LastOf(item, 2 .. 5).number = 0
    <3> HIDE DEF items
    <3>2. item \in Seq(Records(Int))
      OBVIOUS
    <3>3. CASE Places(item, 2 .. 5) = {}
      BY <3>3, LastOfIsGreatest
    <3>4. CASE Places(item, 2 .. 5) # {}
      <4>1. Places(item, 2 .. 5) \in SUBSET (1 .. Len(item)) /\ Len(item) \in Nat
        BY <3>2 DEF Places
      <4>2. Greatest(Places(item, 2 .. 5)) \in Places(item, 2 .. 5)
        <5> PICK T : T = Places(item, 2 .. 5)
          OBVIOUS
        <5>1. T \in SUBSET (1 .. Len(item)) /\ T # {} /\ Len(item) \in Nat
          BY <3>4, <4>1
        <5> HIDE <2>1
        <5>2. Greatest(T) \in T
          BY <5>1, GreatestElement
        <5> QED
          BY <5>2
      <4>3. item[Greatest(Places(item, 2 .. 5))].number \in 2 .. 5
        BY <4>2 DEF Places
      <4>4. LastOf(item, 2 .. 5) = item[Greatest(Places(item, 2 .. 5))]
        BY <3>4, LastOfIsGreatest
      <4> QED
        BY <4>3, <4>4
    <3> QED
      BY <3>3, <3>4
  <2>3. CONFIG_PARAMETER__VALUE = 2 .. 5
    BY DEF CONFIG_PARAMETER__VALUE
  <2> PICK key, number, value :
        /\ key = LastOf(item, {1}).value
        /\ number = LastOf(item, 2 .. 5).number /\ value = LastOf(item, 2 .. 5).value
    OBVIOUS
  <2>4. number \in CONFIG_PARAMETER__VALUE <=> number # 0
    BY <2>2, <2>3
  <2>5. items[k] = [key |-> key, value_case |-> number, value |-> MemberValue(number, value)]
    BY <2>1 DEF ParameterOf
  <2>6. MeantParameter(item) =
          [key |-> key, value_case |-> number,
           value |-> IF number = 0 THEN Junk ELSE MemberValue(number, value)]
    BY DEF MeantParameter, MemberValue
  <2> HIDE DEF items
  <2> QED
    BY <2>4, <2>5, <2>6 DEF ModuleParameter
<1>2. MeantParameters(content) = [k \in DOMAIN content.wire |-> MeantParameter(content.wire[k].value)]
  BY DEF MeantParameters
<1>3. ParametersOf(items) = [k \in DOMAIN content.wire |-> ModuleParameter(items[k])]
  BY DEF ParametersOf
<1> HIDE DEF items
<1>4. ParametersOf(items) = MeantParameters(content)
  BY <1>1, <1>2, <1>3
<1> QED
  BY <1>4 DEF items

LEMMA ListFromMeant ==
  ASSUME NEW content \in ModuleContents, NEW value, value = Packed(content), Decodes(value),
         NEW entry
  PROVE  ListFrom(value, entry) = MeantParameters(content)
<1> PICK items : items = [k \in DOMAIN content.wire |-> ParameterOf(content.wire[k].value)]
  OBVIOUS
<1>1. Buffer(value) = content.wire
  BY DEF Buffer, Packed
<1>2. ListFrom(value, entry) = ParametersOf(items)
  <2>1. module_config__unpack(Buffer(value)) = {[parameters |-> items]}
    BY <1>1, ModuleConfigUnpacks
  <2> QED
    BY <2>1, ListFromOne
<1>3. \A k \in DOMAIN content.wire : content.wire[k].value \in Seq(Records(Int))
  BY ContentsAssumption, OfEither
<1>4. ParametersOf(items) = MeantParameters(content)
  BY <1>3, ParametersAreMeant
<1> QED
  BY <1>2, <1>4

LEMMA PipelineFromOther ==
  ASSUME NEW value \in ConfigurationValues, IsPacked(value, PipelineContents) => ~Decodes(value),
         NEW p, NEW entry
  PROVE  \/ PipelineFrom(p, value, entry) = entry
         \/ PipelineFrom(p, value, entry) = [pipeline_id |-> Index(p) + 1, modules |-> <<>>]
<1> PICK pdefs : pdefs = pipeline_definition__unpack(Buffer(value))
  OBVIOUS
<1>1. CASE Buffer(value) = <<>>
  <2>1. pdefs = {[modules |-> <<>>]}
    BY <1>1, UnpackNothing, PipelineList DEF pipeline_definition__unpack
  <2>2. PipelineFrom(p, value, entry) = [pipeline_id |-> Index(p) + 1, modules |-> ModulesOf(<<>>)]
    BY <2>1, PipelineFromOne
  <2>3. ModulesOf(<<>>) = <<>>
    BY DEF ModulesOf
  <2> QED
    BY <2>2, <2>3
<1>2. CASE Buffer(value) # <<>>
  <2>1. PICK content \in ModuleContents : value = Packed(content)
    BY <1>2, PackedOfEither DEF Buffer, Decodes, IsPacked
  <2>2. Buffer(value) = content.wire
    BY <1>2, <2>1 DEF Buffer, Packed
  <2>3. pdefs = {}
    BY <1>2, <2>2, ModuleIsNoPipeline
  <2> QED
    BY <2>3 DEF PipelineFrom
<1> QED
  BY <1>1, <1>2

\* A list of parameters that was meant to be a pipeline.
IsMistaken(list) ==
  \E content \in PipelineContents : Unordered(content) /\ list = MeantParameters(content)

LEMMA ListFromOther ==
  ASSUME NEW value \in ConfigurationValues, IsPacked(value, ModuleContents) => ~Decodes(value), NEW entry
  PROVE  \/ ListFrom(value, entry) = entry \/ ListFrom(value, entry) = <<>>
         \/ IsMistaken(ListFrom(value, entry))
<1> PICK mcons : mcons = module_config__unpack(Buffer(value))
  OBVIOUS
<1>1. CASE Buffer(value) = <<>>
  <2>1. mcons = {[parameters |-> <<>>]}
    BY <1>1, UnpackNothing, ModuleList DEF module_config__unpack
  <2>2. ListFrom(value, entry) = ParametersOf(<<>>)
    BY <2>1, ListFromOne
  <2>3. ParametersOf(<<>>) = <<>>
    BY DEF ParametersOf
  <2> QED
    BY <2>2, <2>3
<1>2. CASE Buffer(value) # <<>>
  <2>1. PICK content \in PipelineContents : value = Packed(content)
    BY <1>2, PackedOfEither DEF Buffer, Decodes, IsPacked
  <2>2. Buffer(value) = content.wire
    BY <1>2, <2>1 DEF Buffer, Packed
  <2> PICK items : items = [k \in DOMAIN content.wire |-> ParameterOf(content.wire[k].value)]
    OBVIOUS
  <2>3. mcons = {} \/ (Unordered(content) /\ mcons = {[parameters |-> items]})
    BY <2>2, PipelineAsModule
  <2>4. CASE mcons = {}
    BY <2>4 DEF ListFrom
  <2>5. CASE Unordered(content) /\ mcons = {[parameters |-> items]}
    <3>1. ListFrom(value, entry) = ParametersOf(items)
      BY <2>5, ListFromOne
    <3>2. \A k \in DOMAIN content.wire : content.wire[k].value \in Seq(Records(Int))
      BY ContentsAssumption, OfEither
    <3>3. ParametersOf(items) = MeantParameters(content)
      BY <3>2, ParametersAreMeant
    <3> QED
      BY <2>5, <3>1, <3>3 DEF IsMistaken
  <2> QED
    BY <2>3, <2>4, <2>5
<1> QED
  BY <1>1, <1>2

(***************************************************************************)
(* The command line, and how far main() has come.                          *)
(***************************************************************************)
LEMMA DirectoryAskedFor ==
  ASSUME argv \in Seq(Options)
  PROVE  vmem_dir \in Directories
<1> PICK given : given = Given("v")
  OBVIOUS
<1>1. CASE given = {}
  BY <1>1 DEF vmem_dir, Argument, Directories
<1>2. CASE given # {}
  <2>1. given \in SUBSET (1 .. Len(argv)) /\ Len(argv) \in Nat
    BY DEF Given
  <2>2. PICK k \in given : k = Greatest(given)
    BY <1>2, <2>1, GreatestElement
  <2>3. vmem_dir = argv[k][2]
    BY <1>2, <2>2 DEF vmem_dir, Argument, Greatest
  <2>4. argv[k] \in Options /\ argv[k][1] = "v"
    BY <2>1 DEF Given
  <2> QED
    BY <2>3, <2>4 DEF Directories
<1> QED
  BY <1>1, <1>2

\* The threads that have been created after n rounds.
Created(n) == {Threads[k] : k \in 1 .. n}

LEMMA ThreadsCreated ==
  /\ Created(0) = {} /\ Created(1) = {"router"} /\ Created(2) = {"router", "vmem_server"}
  /\ Created(3) = {"router", "vmem_server", "dtp_server"}
  /\ Created(4) = {"router", "vmem_server", "dtp_server", "dtp_indeces_server"}
<1>1. /\ \A k : k \in 1 .. 0 <=> FALSE
      /\ \A k : k \in 1 .. 1 <=> k \in {1}
      /\ \A k : k \in 1 .. 2 <=> k \in {1, 2}
      /\ \A k : k \in 1 .. 3 <=> k \in {1, 2, 3}
      /\ \A k : k \in 1 .. 4 <=> k \in {1, 2, 3, 4}
  OBVIOUS
<1>2. /\ Threads[1] = "router" /\ Threads[2] = "vmem_server" /\ Threads[3] = "dtp_server"
      /\ Threads[4] = "dtp_indeces_server"
  BY DEF Threads
<1> QED
  BY <1>1, <1>2 DEF Created

LEMMA HowManyCreated ==
  ASSUME NEW n \in 0 .. 4
  PROVE  Cardinality(Created(n)) = n
<1>1. Cardinality(Created(0)) = 0 /\ IsFiniteSet(Created(0))
  BY ThreadsCreated, FS_EmptySet
<1>2. Cardinality(Created(1)) = 1 /\ IsFiniteSet(Created(1))
  <2>1. Created(1) = Created(0) \cup {"router"} /\ "router" \notin Created(0)
    BY ThreadsCreated
  <2> QED
    BY <1>1, <2>1, FS_AddElement
<1>3. Cardinality(Created(2)) = 2 /\ IsFiniteSet(Created(2))
  <2>1. Created(2) = Created(1) \cup {"vmem_server"} /\ "vmem_server" \notin Created(1)
    BY ThreadsCreated
  <2> QED
    BY <1>2, <2>1, FS_AddElement
<1>4. Cardinality(Created(3)) = 3 /\ IsFiniteSet(Created(3))
  <2>1. Created(3) = Created(2) \cup {"dtp_server"} /\ "dtp_server" \notin Created(2)
    BY ThreadsCreated
  <2> QED
    BY <1>3, <2>1, FS_AddElement
<1>5. Cardinality(Created(4)) = 4
  <2>1. Created(4) = Created(3) \cup {"dtp_indeces_server"} /\ "dtp_indeces_server" \notin Created(3)
    BY ThreadsCreated
  <2> QED
    BY <1>4, <2>1, FS_AddElement
<1> QED
  BY <1>1, <1>2, <1>3, <1>4, <1>5

BootTypes ==
  /\ main \in Stages /\ argv \in Seq(Options) /\ iface \in {"none", "ZMQ", "KISS", "CAN"}
  /\ storage \in Directories \cup {"none"} /\ images \in Directories \cup {"none"}
  /\ \E n \in 0 .. 4 : threads = Created(n) /\ (main # "up" => n < 4)
  /\ starts \in 0 .. MaxStarts

LEMMA BootTypesInitially == Init => BootTypes
<1> SUFFICES ASSUME Init PROVE BootTypes
  OBVIOUS
<1>1. argv \in Seq(Options)
  <2>1. <<>> \in Seq(Options)
    OBVIOUS
  <2> QED
    BY <2>1 DEF Init
<1>2. threads = Created(0) /\ main = "down"
  BY ThreadsCreated DEF Init
<1>3. starts \in 0 .. MaxStarts
  BY StorageAssumption DEF Init
<1> QED
  BY <1>1, <1>2, <1>3 DEF Init, BootTypes, Stages

LEMMA BootTypesKept ==
  ASSUME BootTypes, [Next]_vars
  PROVE  BootTypes'
<1> USE DEF BootTypes
<1>1. ASSUME UNCHANGED <<bootVars, starts>> PROVE BootTypes'
  BY <1>1 DEF bootVars
<1>2. ASSUME Dies PROVE BootTypes'
  <2>1. <<>> \in Seq(Options)
    OBVIOUS
  <2>2. threads' = Created(0) /\ main' = "down"
    BY <1>2, ThreadsCreated DEF Dies
  <2> QED
    BY <1>2, <2>1, <2>2 DEF Dies, Keep, Stages
<1>3. CASE Boot
  <2>1. ASSUME NEW n \in 0 .. MaxOptions, NEW options \in [1 .. n -> Options], Start(options)
        PROVE  BootTypes'
    <3>1. options \in Seq(Options)
      BY StorageAssumption
    <3>2. starts' \in 0 .. MaxStarts
      <4>1. ASSUME NEW s \in 0 .. MaxStarts, s < MaxStarts PROVE s + 1 \in 0 .. MaxStarts
        BY <4>1, StorageAssumption
      <4> QED
        BY <2>1, <4>1 DEF Start
    <3> QED
      BY <2>1, <3>1, <3>2 DEF Start, Stages
  <2>2. CASE IfaceFails
    BY <2>2, <1>2 DEF IfaceFails
  <2>3. CASE IfaceInit \/ CanFails
    BY <2>3 DEF IfaceInit, CanFails, Keep, Stages
  <2>4. CASE SetVmemDir
    BY <2>4 DEF SetVmemDir, Keep, Stages
  <2>5. CASE vmem_file_init
    BY <2>5, DirectoryAskedFor DEF vmem_file_init, Keep, Stages
  <2>6. CASE vmem_ring_init
    BY <2>6, DirectoryAskedFor DEF vmem_ring_init, Keep, Stages
  <2>7. CASE CreateThread
    <3>1. PICK n \in 0 .. 4 : threads = Created(n) /\ n < 4
      BY <2>7 DEF CreateThread
    <3>2. Cardinality(threads) = n /\ Len(Threads) = 4
      BY <3>1, HowManyCreated DEF Threads
    <3>3. threads' = Created(n + 1) /\ main' = IF n + 1 = 4 THEN "up" ELSE "create"
      <4>1. Created(n) \cup {Threads[n + 1]} = Created(n + 1)
        BY <3>1 DEF Created
      <4> QED
        BY <2>7, <3>1, <3>2, <4>1 DEF CreateThread
    <3>4. n + 1 \in 0 .. 4
      BY <3>1
    <3>5. main' # "up" => n + 1 < 4
      BY <3>1, <3>3
    <3> QED
      BY <2>7, <3>3, <3>4, <3>5 DEF CreateThread, Keep, Stages
  <2> QED
    BY <1>3, <2>1, <2>2, <2>3, <2>4, <2>5, <2>6, <2>7 DEF Boot
<1>4. CASE Router
  <2>1. UNCHANGED <<bootVars, starts>>
    BY <1>4, ZenonT(30) DEF Router, SetNumber, SetPipeline, OverrunPipeline, WritePipeline,
         SetModule, Write
  <2> QED
    BY <1>1, <2>1
<1>5. CASE SetupCache
  <2>1. UNCHANGED <<bootVars, starts>>
    BY <1>5 DEF SetupCache
  <2> QED
    BY <1>1, <2>1
<1>6. CASE Crash
  BY <1>6, <1>2 DEF Crash
<1>7. CASE UNCHANGED vars
  BY <1>7, <1>1 DEF vars
<1> QED
  BY <1>3, <1>4, <1>5, <1>6, <1>7 DEF Next

(***************************************************************************)
(* The tables.                                                             *)
(***************************************************************************)
TableTypes ==
  /\ is_setup \in BOOLEAN /\ overrun \in BOOLEAN /\ commands \in 0 .. MaxCommands
  /\ pipelines = [p \in PipelineParams |-> pipelines[p]]
  /\ lists = [p \in ModuleParams |-> lists[p]]
  /\ ~overrun => \A p \in PipelineParams : pipelines[p].pipeline_id \in 0 .. MAX_PIPELINES

LEMMA PipelineParam ==
  ASSUME NEW p \in PipelineParams
  PROVE  /\ p \in Params /\ p \in pipeline_config_params /\ p.callback = "setup_pipeline"
         /\ p # log_status
<1>1. p \in Stored /\ p.callback = "setup_pipeline"
  BY StorageAssumption DEF PipelineParams
<1>2. \A q \in module_config_params \cup {log_status, radio_node_id, module_timeout} :
        q.callback # "setup_pipeline"
  BY DEF module_config_params, log_status, radio_node_id, module_timeout, Param
<1> QED
  BY <1>1, <1>2 DEF Stored, PipelineParams

LEMMA ModuleParam ==
  ASSUME NEW p \in ModuleParams
  PROVE  p \in Params /\ p.callback = "setup_module_config" /\ p # log_status
BY DEF ModuleParams, log_status, Param

LEMMA EntryType ==
  ASSUME NEW p \in PipelineParams, NEW value, NEW entry, entry.pipeline_id \in 0 .. MAX_PIPELINES
  PROVE  PipelineFrom(p, value, entry).pipeline_id \in 0 .. MAX_PIPELINES
<1>1. Index(p) + 1 \in 0 .. MAX_PIPELINES
  <2>1. Index(p) \in 0 .. MAX_PIPELINES - 1
    BY PipelineParam, IndicesInRange
  <2> QED
    BY <2>1 DEF MAX_PIPELINES
<1>2. CASE pipeline_definition__unpack(Buffer(value)) = {}
  BY <1>2 DEF PipelineFrom
<1>3. CASE pipeline_definition__unpack(Buffer(value)) # {}
  <2>1. PipelineFrom(p, value, entry).pipeline_id = Index(p) + 1
    BY <1>3 DEF PipelineFrom
  <2> QED
    BY <1>1, <2>1
<1> QED
  BY <1>2, <1>3

\* If no definition is too long, each entry is made from its own and from what it was.
LEMMA RebuiltAsWritten ==
  ASSUME NEW file, ~OverrunIn(file), NEW p \in PipelineParams
  PROVE  RebuiltPipeline(file, p) = PipelineFrom(p, file[p], pipelines[p])
<1>1. \A q \in PipelineParams : ~Overruns(file[q])
  BY DEF OverrunIn
<1> QED
  BY <1>1, Zenon DEF RebuiltPipeline

LEMMA TableTypesInitially == Init => TableTypes
<1> SUFFICES ASSUME Init PROVE TableTypes
  OBVIOUS
<1>1. commands \in 0 .. MaxCommands /\ 0 \in 0 .. MAX_PIPELINES
  BY StorageAssumption DEF Init, MAX_PIPELINES
<1>2. pipelines = [p \in PipelineParams |-> NoPipeline] /\ lists = [p \in ModuleParams |-> <<>>]
  BY DEF Init
<1>3. is_setup \in BOOLEAN /\ overrun \in BOOLEAN
  BY DEF Init
<1> QED
  BY <1>1, <1>2, <1>3 DEF TableTypes, NoPipeline

LEMMA TableTypesKept ==
  ASSUME TableTypes, [Next]_vars
  PROVE  TableTypes'
<1> USE DEF TableTypes
<1>1. ASSUME UNCHANGED <<tableVars, commands>> PROVE TableTypes'
  BY <1>1 DEF tableVars
<1>2. ASSUME Dies PROVE TableTypes'
  <2>1. 0 \in 0 .. MAX_PIPELINES
    BY DEF MAX_PIPELINES
  <2>2. is_setup' \in BOOLEAN /\ overrun' \in BOOLEAN /\ commands' = commands
    BY <1>2 DEF Dies, ClearedTables, Keep
  <2>3. /\ pipelines' = [p \in PipelineParams |-> NoPipeline]
        /\ lists' = [p \in ModuleParams |-> <<>>]
    BY <1>2 DEF Dies, ClearedTables
  <2> QED
    BY <2>1, <2>2, <2>3 DEF NoPipeline
<1>3. ASSUME NEW p \in Params, NEW value, NEW right, Write(p, value, right)
      PROVE  commands' \in 0 .. MaxCommands
  <2>1. ASSUME NEW n \in 0 .. MaxCommands, n < MaxCommands PROVE n + 1 \in 0 .. MaxCommands
    BY <2>1, StorageAssumption
  <2> QED
    BY <1>3, <2>1 DEF Write
<1>4. CASE Boot
  <2>1. CASE IfaceFails
    BY <2>1, <1>2 DEF IfaceFails
  <2>2. CASE ~IfaceFails
    <3>1. UNCHANGED <<tableVars, commands>>
      BY <1>4, <2>2 DEF Boot, Start, IfaceInit, CanFails, SetVmemDir, vmem_file_init,
        vmem_ring_init, CreateThread, Keep
    <3> QED
      BY <3>1, <1>1
  <2> QED
    BY <2>1, <2>2
<1>5. ASSUME NEW p \in Params, NEW n, SetNumber(p, n) PROVE TableTypes'
  <2>1. commands' \in 0 .. MaxCommands /\ UNCHANGED tableVars
    BY <1>5, <1>3 DEF SetNumber
  <2> QED
    BY <2>1 DEF tableVars
<1>6. ASSUME NEW p \in Params, NEW value, SetPipeline(p, value) PROVE TableTypes'
  <2>1. commands' \in 0 .. MaxCommands
    BY <1>6, <1>3 DEF SetPipeline, WritePipeline
  <2>2. /\ p \in PipelineParams /\ lists' = lists /\ is_setup' = is_setup /\ overrun' = overrun
        /\ pipelines' = [pipelines EXCEPT ![p] = PipelineFrom(p, value, pipelines[p])]
    BY <1>6 DEF SetPipeline, WritePipeline
  <2>3. ~overrun => PipelineFrom(p, value, pipelines[p]).pipeline_id \in 0 .. MAX_PIPELINES
    BY <2>2, EntryType
  <2>4. pipelines' = [q \in PipelineParams |-> pipelines'[q]]
    BY <2>2
  <2>5. ~overrun => \A q \in PipelineParams : pipelines'[q].pipeline_id \in 0 .. MAX_PIPELINES
    BY <2>2, <2>3
  <2> QED
    BY <2>1, <2>2, <2>4, <2>5
<1>11. ASSUME NEW p \in Params, NEW value, OverrunPipeline(p, value) PROVE TableTypes'
  <2>1. commands' \in 0 .. MaxCommands
    BY <1>11, <1>3 DEF OverrunPipeline, WritePipeline
  <2>2. overrun' = TRUE /\ is_setup' \in BOOLEAN
    BY <1>11 DEF OverrunPipeline
  <2>3. pipelines' = [q \in PipelineParams |-> pipelines'[q]]
    BY <1>11 DEF OverrunPipeline
  <2>4. lists' = [q \in ModuleParams |-> lists'[q]]
    BY <1>11 DEF OverrunPipeline
  <2> QED
    BY <2>1, <2>2, <2>3, <2>4
<1>7. ASSUME NEW p \in Params, NEW value, SetModule(p, value) PROVE TableTypes'
  <2>1. commands' \in 0 .. MaxCommands
    BY <1>7, <1>3 DEF SetModule
  <2>2. /\ p \in ModuleParams /\ pipelines' = pipelines /\ is_setup' = is_setup
        /\ overrun' = overrun
        /\ lists' = [lists EXCEPT ![p] = ListFrom(value, lists[p])]
    BY <1>7 DEF SetModule
  <2>3. lists' = [q \in ModuleParams |-> lists'[q]]
    BY <2>2
  <2> QED
    BY <2>1, <2>2, <2>3
<1>8. CASE SetupCache
  <2>2. PICK file : file = files[storage]
    OBVIOUS
  <2>1. is_setup' \in BOOLEAN /\ commands' = commands
    BY <1>8 DEF SetupCache
  <2>5. overrun' = (overrun \/ OverrunIn(file)) /\ overrun' \in BOOLEAN
    BY <1>8, <2>2 DEF SetupCache, OverrunIn
  <2>3. pipelines' = [p \in PipelineParams |-> RebuiltPipeline(file, p)]
    BY <1>8, <2>2 DEF SetupCache
  <2>6. lists' = [p \in ModuleParams |-> lists'[p]]
    BY <1>8 DEF SetupCache
  <2>4. ASSUME ~overrun', NEW p \in PipelineParams
        PROVE  RebuiltPipeline(file, p).pipeline_id \in 0 .. MAX_PIPELINES
    <3>1. RebuiltPipeline(file, p) = PipelineFrom(p, file[p], pipelines[p])
      BY <2>4, <2>5, RebuiltAsWritten
    <3>2. pipelines[p].pipeline_id \in 0 .. MAX_PIPELINES
      BY <2>4, <2>5
    <3> QED
      BY <3>1, <3>2, EntryType
  <2>7. pipelines' = [p \in PipelineParams |-> pipelines'[p]]
    BY <2>3
  <2>8. ~overrun' => \A p \in PipelineParams : pipelines'[p].pipeline_id \in 0 .. MAX_PIPELINES
    BY <2>3, <2>4
  <2> QED
    BY <2>1, <2>5, <2>6, <2>7, <2>8
<1>9. CASE Crash
  BY <1>9, <1>2 DEF Crash
<1>10. CASE UNCHANGED vars
  BY <1>10, <1>1 DEF vars
<1> QED
  BY <1>4, <1>5, <1>6, <1>7, <1>8, <1>9, <1>10, <1>11 DEF Next, Router

(***************************************************************************)
(* The entry that results from a value, given the messages of the right    *)
(* kind that the parameter was sent.                                       *)
(***************************************************************************)
PipelineStands(p, value, known, entry) ==
  value \in known /\ Decodes(value) =>
    entry = [pipeline_id |-> Index(p) + 1, modules |-> MeantModules(value.content)]

ListStands(value, known, entry) ==
  value \in known /\ Decodes(value) => entry = MeantParameters(value.content)

Accounted(value, known, contents) ==
  /\ \A v \in known : IsPacked(v, contents)
  /\ IsPacked(value, contents) => value \in known

LEMMA PipelineEntry ==
  ASSUME NEW value \in ConfigurationValues, NEW known, Accounted(value, known, PipelineContents), NEW p, NEW entry
  PROVE  /\ PipelineStands(p, value, known, PipelineFrom(p, value, entry))
         /\ \/ PipelineFrom(p, value, entry) = entry
            \/ PipelineFrom(p, value, entry).modules = <<>>
            \/ \E v \in known : PipelineFrom(p, value, entry).modules = MeantModules(v.content)
<1>1. CASE IsPacked(value, PipelineContents) /\ Decodes(value)
  <2>1. PICK content \in PipelineContents : value = Packed(content)
    BY <1>1 DEF IsPacked
  <2>2. PipelineFrom(p, value, entry) =
          [pipeline_id |-> Index(p) + 1, modules |-> MeantModules(content)]
    BY <1>1, <2>1, PipelineFromMeant
  <2>3. value.content = content /\ value \in known
    BY <1>1, <2>1 DEF Packed, Accounted
  <2> QED
    BY <2>2, <2>3 DEF PipelineStands
<1>2. CASE IsPacked(value, PipelineContents) => ~Decodes(value)
  <2>1. PipelineStands(p, value, known, PipelineFrom(p, value, entry))
    BY <1>2 DEF PipelineStands, Accounted
  <2>2. \/ PipelineFrom(p, value, entry) = entry
        \/ PipelineFrom(p, value, entry) = [pipeline_id |-> Index(p) + 1, modules |-> <<>>]
    BY <1>2, PipelineFromOther
  <2> QED
    BY <2>1, <2>2
<1> QED
  BY <1>1, <1>2

LEMMA ListEntry ==
  ASSUME NEW value \in ConfigurationValues, NEW known, Accounted(value, known, ModuleContents), NEW entry
  PROVE  /\ ListStands(value, known, ListFrom(value, entry))
         /\ \/ ListFrom(value, entry) = entry
            \/ ListFrom(value, entry) = <<>>
            \/ IsMistaken(ListFrom(value, entry))
            \/ \E v \in known : ListFrom(value, entry) = MeantParameters(v.content)
<1>1. CASE IsPacked(value, ModuleContents) /\ Decodes(value)
  <2>1. PICK content \in ModuleContents : value = Packed(content)
    BY <1>1 DEF IsPacked
  <2>2. ListFrom(value, entry) = MeantParameters(content)
    BY <1>1, <2>1, ListFromMeant
  <2>3. value.content = content /\ value \in known
    BY <1>1, <2>1 DEF Packed, Accounted
  <2> QED
    BY <2>2, <2>3 DEF ListStands
<1>2. CASE IsPacked(value, ModuleContents) => ~Decodes(value)
  <2>1. ListStands(value, known, ListFrom(value, entry))
    BY <1>2 DEF ListStands, Accounted
  <2>2. \/ ListFrom(value, entry) = entry \/ ListFrom(value, entry) = <<>>
        \/ IsMistaken(ListFrom(value, entry))
    BY <1>2, ListFromOther
  <2> QED
    BY <2>1, <2>2
<1> QED
  BY <1>1, <1>2

(***************************************************************************)
(* What the files hold of the configurations, and what has been sent.      *)
(***************************************************************************)
Configurations == PipelineParams \cup ModuleParams
Right(p) == IF p \in PipelineParams THEN PipelineContents ELSE ModuleContents

SentInv ==
  /\ files = [d \in Directories |-> files[d]]
  /\ sent = [d \in Directories |-> [p \in Params |-> sent[d][p]]]
  /\ \A d \in Directories, p \in Configurations :
       files[d][p] \in ConfigurationValues /\ Accounted(files[d][p], sent[d][p], Right(p))

LEMMA ConfigurationParam ==
  ASSUME NEW p \in Configurations
  PROVE  p \in Params /\ p # log_status /\ p.callback # "none"
BY PipelineParam, ModuleParam DEF Configurations

Changes(p, value, right) ==
  /\ files' = [d \in Directories |-> files'[d]]
  /\ sent' = [d \in Directories |-> [q \in Params |-> sent'[d][q]]]
  /\ \A d \in Directories, q \in Configurations :
       /\ files'[d][q] = IF d = storage /\ q = p THEN value ELSE files[d][q]
       /\ sent'[d][q] = IF right /\ d = storage /\ q = p THEN sent[d][q] \cup {value}
                                                        ELSE sent[d][q]

LEMMA WhatWriteChanges ==
  ASSUME SentInv, storage \in Directories, NEW p \in Params, NEW value, NEW right \in BOOLEAN,
         Write(p, value, right)
  PROVE  Changes(p, value, right)
<1> DEFINE reports == p.callback # "none" /\ Reports({value})
           file == Set(files[storage], p, value)
           new == IF reports THEN Published(file) ELSE file
<1>1. /\ files' = [files EXCEPT ![storage] = new]
      /\ sent' = IF right THEN [sent EXCEPT ![storage][p] = @ \cup {value}] ELSE sent
  BY DEF Write
<1>2. ASSUME NEW q \in Configurations
      PROVE  new[q] = IF q = p THEN value ELSE files[storage][q]
  <2>1. q \in Params /\ q # log_status
    BY ConfigurationParam
  <2>2. file[q] = IF q = p THEN value ELSE files[storage][q]
    <3>1. file = Set(files[storage], p, value)
      OBVIOUS
    <3> HIDE DEF file
    <3>2. /\ q = p => file[q] = value
          /\ q # p => file[q] = files[storage][q]
      BY <2>1, <3>1, SetOthers
    <3> QED
      BY <3>2
  <2>3. reports => Published(file)[q] = file[q]
    <3> HIDE DEF file
    <3>1. reports => log_status \in Params
      BY DEF Reports
    <3> HIDE DEF reports
    <3> QED
      BY <2>1, <3>1, SetOthers DEF Published
  <2> HIDE DEF file, reports
  <2> QED
    BY <2>2, <2>3 DEF new
<1> HIDE DEF new, file, reports
<1>3. \A q \in Configurations : q \in Params
  BY ConfigurationParam
<1>4. /\ files' = [d \in Directories |-> files'[d]]
      /\ \A d \in Directories, q \in Configurations :
           files'[d][q] = IF d = storage /\ q = p THEN value ELSE files[d][q]
  BY <1>1, <1>2 DEF SentInv
<1>5. CASE right
  <2>1. sent' = [sent EXCEPT ![storage][p] = @ \cup {value}]
    BY <1>1, <1>5
  <2>2. \A d \in Directories, q \in Params :
          sent'[d][q] = IF d = storage /\ q = p THEN sent[d][q] \cup {value} ELSE sent[d][q]
    BY <2>1 DEF SentInv
  <2>3. sent' = [d \in Directories |-> [q \in Params |-> sent'[d][q]]]
    BY <2>1 DEF SentInv
  <2> QED
    BY <1>3, <1>4, <1>5, <2>2, <2>3 DEF Changes
<1>6. CASE ~right
  BY <1>1, <1>4, <1>6 DEF SentInv, Changes
<1> QED
  BY <1>5, <1>6

LEMMA SentInvInitially == Init => SentInv
<1> SUFFICES ASSUME Init PROVE SentInv
  OBVIOUS
<1>1. files = [d \in Directories |-> BlankFile] /\ sent = [d \in Directories |-> [p \in Params |-> {}]]
  BY DEF Init
<1>2. ASSUME NEW d \in Directories, NEW p \in Configurations
      PROVE  files[d][p] = [kind |-> "blank"] /\ sent[d][p] = {}
  BY <1>1, ConfigurationParam DEF BlankFile, Blank
<1>3. ASSUME NEW contents PROVE ~IsPacked([kind |-> "blank"], contents)
  BY DEF IsPacked, Packed
<1> QED
  BY <1>1, <1>2, <1>3 DEF SentInv, Accounted, ConfigurationValues

LEMMA SentInvKept ==
  ASSUME SentInv, BootInv, BootTypes, [Next]_vars
  PROVE  SentInv'
<1>1. ASSUME UNCHANGED fileVars PROVE SentInv'
  BY <1>1 DEF SentInv, fileVars
<1>2. "router" \in threads => storage \in Directories
  BY DirectoryAskedFor DEF BootInv, BootTypes
<1>3. ASSUME NEW p \in Configurations, NEW value \in ConfigurationValues,
             NEW right \in BOOLEAN, right <=> IsPacked(value, Right(p)), Write(p, value, right)
      PROVE  SentInv'
  <2>1. /\ files' = [d \in Directories |-> files'[d]]
        /\ sent' = [d \in Directories |-> [q \in Params |-> sent'[d][q]]]
        /\ \A d \in Directories, q \in Configurations :
             /\ files'[d][q] = IF d = storage /\ q = p THEN value ELSE files[d][q]
             /\ sent'[d][q] = IF right /\ d = storage /\ q = p THEN sent[d][q] \cup {value}
                                                              ELSE sent[d][q]
    <3>1. storage \in Directories
      BY <1>2, <1>3 DEF Write
    <3>2. p \in Params
      BY ConfigurationParam
    <3>3. Changes(p, value, right)
      BY <1>3, <3>1, <3>2, WhatWriteChanges
    <3> QED
      BY <3>3 DEF Changes
  <2>2. ASSUME NEW d \in Directories, NEW q \in Configurations
        PROVE  files'[d][q] \in ConfigurationValues /\ Accounted(files'[d][q], sent'[d][q], Right(q))
    <3> PICK value_, known_ : value_ = files[d][q] /\ known_ = sent[d][q]
      OBVIOUS
    <3> PICK new_value, new_known : new_value = files'[d][q] /\ new_known = sent'[d][q]
      OBVIOUS
    <3>1. value_ \in ConfigurationValues /\ Accounted(value_, known_, Right(q))
      BY DEF SentInv
    <3>2. CASE d = storage /\ q = p
      <4>1. /\ new_value = value
            /\ new_known = IF right THEN known_ \cup {value} ELSE known_
        BY <2>1, <3>2
      <4> QED
        BY <1>3, <3>1, <3>2, <4>1 DEF Accounted
    <3>3. CASE ~(d = storage /\ q = p)
      <4>1. new_value = value_ /\ new_known = known_
        BY <2>1, <3>3
      <4> QED
        BY <3>1, <4>1
    <3> QED
      BY <3>2, <3>3
  <2> QED
    BY <2>1, <2>2 DEF SentInv
<1>4. ASSUME NEW p \in Params, NEW n, SetNumber(p, n) PROVE SentInv'
  <2> PICK value : value = Number(n)
    OBVIOUS
  <2> PICK right \in BOOLEAN : right = FALSE
    OBVIOUS
  <2>1. Write(p, value, right)
    BY <1>4 DEF SetNumber
  <2>2. p \notin Configurations /\ storage \in Directories
    BY <1>2, <1>4, ConfigurationParam DEF SetNumber, Write
  <2>3. Changes(p, value, right)
    BY <2>1, <2>2, WhatWriteChanges
  <2> QED
    BY <2>2, <2>3 DEF SentInv, Changes
<1>5. ASSUME NEW p \in Params, NEW value \in Contents, WritePipeline(p, value) PROVE SentInv'
  <2> DEFINE right == value.kind = "packed" /\ value.content \in PipelineContents
  <2>1. right \in BOOLEAN /\ (right <=> IsPacked(value, PipelineContents))
    <3>1. CASE value = Noise
      BY <3>1 DEF IsPacked, Packed, Noise
    <3>2. ASSUME NEW content, value = Packed(content)
          PROVE  right <=> IsPacked(value, PipelineContents)
      BY <3>2 DEF IsPacked, Packed
    <3> QED
      BY <3>1, <3>2 DEF Contents
  <2>2. p \in Configurations /\ Right(p) = PipelineContents /\ value \in ConfigurationValues
    BY <1>5 DEF WritePipeline, Configurations, Right, ConfigurationValues
  <2>3. Write(p, value, right)
    BY <1>5 DEF WritePipeline
  <2> HIDE DEF right
  <2> QED
    BY <1>3, <2>1, <2>2, <2>3
<1>6. ASSUME NEW p \in Params, NEW value \in Contents, SetModule(p, value) PROVE SentInv'
  <2> DEFINE right == value.kind = "packed" /\ value.content \in ModuleContents
  <2>1. right \in BOOLEAN /\ (right <=> IsPacked(value, ModuleContents))
    <3>1. CASE value = Noise
      BY <3>1 DEF IsPacked, Packed, Noise
    <3>2. ASSUME NEW content, value = Packed(content)
          PROVE  right <=> IsPacked(value, ModuleContents)
      BY <3>2 DEF IsPacked, Packed
    <3> QED
      BY <3>1, <3>2 DEF Contents
  <2>2. p \in Configurations /\ Right(p) = ModuleContents /\ value \in ConfigurationValues
    BY <1>6 DEF SetModule, Configurations, Right, ConfigurationValues, PipelineParams, ModuleParams
  <2>3. Write(p, value, right)
    BY <1>6 DEF SetModule
  <2> HIDE DEF right
  <2> QED
    BY <1>3, <2>1, <2>2, <2>3
<1>7. CASE SetupCache
  <2>1. storage \in Directories /\ sent' = sent
    BY <1>2, <1>7 DEF SetupCache
  <2>2. CASE files' = files
    BY <2>1, <2>2 DEF SentInv
  <2>3. CASE log_status \in Params /\ files' = [files EXCEPT ![storage] = Published(files[storage])]
    <3>1. \A q \in Configurations : Published(files[storage])[q] = files[storage][q]
      BY <2>3, ConfigurationParam, SetOthers DEF Published
    <3>2. \A d \in Directories, q \in Configurations : files'[d][q] = files[d][q]
      BY <2>1, <2>3, <3>1 DEF SentInv
    <3>3. files' = [d \in Directories |-> files'[d]]
      BY <2>3 DEF SentInv
    <3> QED
      BY <2>1, <3>2, <3>3 DEF SentInv
  <2> QED
    BY <1>7, <2>2, <2>3 DEF SetupCache, Reports
<1>8. CASE Boot \/ Crash
  <2>1. UNCHANGED fileVars
    BY <1>8 DEF Boot, Start, IfaceFails, IfaceInit, CanFails, SetVmemDir, vmem_file_init,
      vmem_ring_init, CreateThread, Crash, Dies, Keep
  <2> QED
    BY <1>1, <2>1
<1>9. CASE UNCHANGED vars
  BY <1>9, <1>1 DEF vars
<1> QED
  BY <1>4, <1>5, <1>6, <1>7, <1>8, <1>9 DEF Next, Router, SetPipeline, OverrunPipeline

(***************************************************************************)
(* What the tables hold.                                                   *)
(***************************************************************************)
Bounded(modules) == Len(modules) <= MAX_MODULES

GenuinePipeline(p, entry, messages) ==
  /\ Bounded(entry.modules)
  /\ \/ entry.modules = <<>>
     \/ \E d \in Directories : \E v \in messages[d][p] : entry.modules = MeantModules(v.content)

GenuineList(p, entry, messages) ==
  \/ entry = <<>> \/ IsMistaken(entry)
  \/ \E d \in Directories : \E v \in messages[d][p] : entry = MeantParameters(v.content)

StandsFor(d) ==
  /\ \A p \in PipelineParams : PipelineStands(p, files[d][p], sent[d][p], pipelines[p])
  /\ \A p \in ModuleParams : ListStands(files[d][p], sent[d][p], lists[p])

Entries ==
  /\ is_setup => "router" \in threads /\ StandsFor(storage)
  /\ \A p \in PipelineParams : GenuinePipeline(p, pipelines[p], sent)
  /\ \A p \in ModuleParams : GenuineList(p, lists[p], sent)

EntriesInv == overrun \/ Entries

LEMMA EntriesInitially == Init => EntriesInv
<1> SUFFICES ASSUME Init PROVE EntriesInv
  OBVIOUS
<1>1. /\ is_setup = FALSE /\ \A p \in PipelineParams : pipelines[p].modules = <<>>
      /\ \A p \in ModuleParams : lists[p] = <<>>
  BY DEF Init, NoPipeline
<1>2. Bounded(<<>>)
  BY DEF Bounded, MAX_MODULES
<1> QED
  BY <1>1, <1>2 DEF EntriesInv, Entries, GenuinePipeline, GenuineList

\* One configuration is written, and the entries of the others stay.
LEMMA OthersStand ==
  ASSUME NEW p \in Params, NEW value, NEW right \in BOOLEAN, Changes(p, value, right),
         Entries, UNCHANGED <<bootVars, is_setup>>, storage \in Directories
  PROVE  /\ \A q \in PipelineParams \ {p} : pipelines'[q] = pipelines[q] =>
              /\ is_setup' => PipelineStands(q, files'[storage][q], sent'[storage][q], pipelines'[q])
              /\ GenuinePipeline(q, pipelines'[q], sent')
         /\ \A q \in ModuleParams \ {p} : lists'[q] = lists[q] =>
              /\ is_setup' => ListStands(files'[storage][q], sent'[storage][q], lists'[q])
              /\ GenuineList(q, lists'[q], sent')
<1>1. ASSUME NEW q \in Configurations \ {p}, NEW d \in Directories
      PROVE  files'[d][q] = files[d][q] /\ sent'[d][q] = sent[d][q]
  BY <1>1 DEF Changes
<1>2. ASSUME NEW q \in PipelineParams \ {p}, pipelines'[q] = pipelines[q]
      PROVE  /\ is_setup' => PipelineStands(q, files'[storage][q], sent'[storage][q], pipelines'[q])
             /\ GenuinePipeline(q, pipelines'[q], sent')
  <2>1. q \in Configurations \ {p}
    BY DEF Configurations
  <2>2. is_setup => PipelineStands(q, files[storage][q], sent[storage][q], pipelines[q])
    BY DEF Entries, StandsFor
  <2>3. GenuinePipeline(q, pipelines[q], sent)
    BY DEF Entries
  <2> QED
    BY <1>1, <1>2, <2>1, <2>2, <2>3 DEF GenuinePipeline
<1>3. ASSUME NEW q \in ModuleParams \ {p}, lists'[q] = lists[q]
      PROVE  /\ is_setup' => ListStands(files'[storage][q], sent'[storage][q], lists'[q])
             /\ GenuineList(q, lists'[q], sent')
  <2>1. q \in Configurations \ {p}
    BY DEF Configurations
  <2>2. is_setup => ListStands(files[storage][q], sent[storage][q], lists[q])
    BY DEF Entries, StandsFor
  <2>3. GenuineList(q, lists[q], sent)
    BY DEF Entries
  <2> QED
    BY <1>1, <1>3, <2>1, <2>2, <2>3 DEF GenuineList
<1> QED
  BY <1>2, <1>3

\* A definition that does not overrun its entry fills no more than the entry has room for.
LEMMA BoundedEntry ==
  ASSUME NEW p, NEW value \in ConfigurationValues, ~Overruns(value),
         NEW entry, Bounded(entry.modules)
  PROVE  Bounded(PipelineFrom(p, value, entry).modules)
<1> PICK new : new = PipelineFrom(p, value, entry)
  OBVIOUS
<1>1. CASE IsPacked(value, PipelineContents) => ~Decodes(value)
  <2>1. new = entry \/ new = [pipeline_id |-> Index(p) + 1, modules |-> <<>>]
    BY <1>1, PipelineFromOther
  <2>2. Bounded(<<>>)
    BY DEF Bounded, MAX_MODULES
  <2> QED
    BY <2>1, <2>2
<1>2. CASE IsPacked(value, PipelineContents) /\ Decodes(value)
  <2>1. PICK content \in PipelineContents : value = Packed(content)
    BY <1>2 DEF IsPacked
  <2>2. new.modules = MeantModules(content)
    BY <1>2, <2>1, PipelineFromMeant
  <2> DEFINE items == [k \in DOMAIN content.wire |-> ModuleOf(content.wire[k].value)]
  <2>3. Buffer(value) = content.wire
    BY <1>2, <2>1 DEF Buffer, Packed
  <2>4. pipeline_definition__unpack(Buffer(value)) = {[modules |-> items]}
    BY <2>3, PipelineUnpacks
  <2>5. PICK size \in Nat : DOMAIN content.wire = 1 .. size
    <3>1. content.wire \in Message
      BY ContentsAssumption, OfEither
    <3> QED
      BY <3>1 DEF Message
  <2>6. Len(items) = size
    BY <2>5
  <2>7. size <= MAX_MODULES
    <3> HIDE DEF items
    <3>1. PICK modules : modules = items
      OBVIOUS
    <3>2. ~(Len(modules) > MAX_MODULES)
      BY <2>4, <3>1 DEF Overruns
    <3> QED
      BY <2>6, <3>1, <3>2 DEF MAX_MODULES
  <2>8. Len(MeantModules(content)) = size
    BY <2>5 DEF MeantModules
  <2> QED
    BY <2>2, <2>7, <2>8 DEF Bounded
<1> QED
  BY <1>1, <1>2

\* An entry that is set up anew stands for what the file holds.
LEMMA NewPipeline ==
  ASSUME NEW p \in PipelineParams, NEW d \in Directories, NEW value \in ConfigurationValues,
         NEW messages, Accounted(value, messages[d][p], PipelineContents), ~Overruns(value),
         NEW entry, GenuinePipeline(p, entry, messages)
  PROVE  /\ PipelineStands(p, value, messages[d][p], PipelineFrom(p, value, entry))
         /\ GenuinePipeline(p, PipelineFrom(p, value, entry), messages)
<1> PICK known : known = messages[d][p]
  OBVIOUS
<1>1. Accounted(value, known, PipelineContents)
  OBVIOUS
<1> PICK new : new = PipelineFrom(p, value, entry)
  OBVIOUS
<1>2. PipelineStands(p, value, known, new)
  BY <1>1, PipelineEntry
<1>3. new = entry \/ new.modules = <<>> \/ \E v \in known : new.modules = MeantModules(v.content)
  BY <1>1, PipelineEntry
<1>4. Bounded(new.modules)
  BY BoundedEntry DEF GenuinePipeline
<1>5. GenuinePipeline(p, new, messages)
  BY <1>3, <1>4 DEF GenuinePipeline
<1> QED
  BY <1>2, <1>5

LEMMA NewList ==
  ASSUME NEW p \in ModuleParams, NEW d \in Directories, NEW value \in ConfigurationValues,
         NEW messages, Accounted(value, messages[d][p], ModuleContents),
         NEW entry, GenuineList(p, entry, messages)
  PROVE  /\ ListStands(value, messages[d][p], ListFrom(value, entry))
         /\ GenuineList(p, ListFrom(value, entry), messages)
<1> PICK known : known = messages[d][p]
  OBVIOUS
<1>1. Accounted(value, known, ModuleContents)
  OBVIOUS
<1> PICK new : new = ListFrom(value, entry)
  OBVIOUS
<1>2. ListStands(value, known, new)
  BY <1>1, ListEntry
<1>3. new = entry \/ new = <<>> \/ IsMistaken(new) \/ \E v \in known : new = MeantParameters(v.content)
  BY <1>1, ListEntry
<1>4. GenuineList(p, new, messages)
  BY <1>3 DEF GenuineList
<1> QED
  BY <1>2, <1>4

LEMMA KindsOfConfigurations ==
  /\ \A p \in PipelineParams : p \in Configurations /\ p \notin ModuleParams
                                 /\ Right(p) = PipelineContents
  /\ \A p \in ModuleParams : p \in Configurations /\ p \notin PipelineParams
                               /\ Right(p) = ModuleContents
BY DEF Configurations, Right, PipelineParams, ModuleParams

LEMMA EntriesKept ==
  ASSUME EntriesInv, SentInv, SentInv', BootInv, BootTypes, TableTypes, [Next]_vars
  PROVE  EntriesInv'
<1>1. "router" \in threads => storage \in Directories /\ main \in {"create", "up"}
  BY DirectoryAskedFor DEF BootInv, BootTypes
<1>2. ASSUME UNCHANGED <<tableVars, fileVars>>,
             "router" \in threads => storage' = storage /\ "router" \in threads'
      PROVE  EntriesInv'
  BY <1>2 DEF EntriesInv, Entries, StandsFor, tableVars, fileVars
<1>3. ASSUME Dies PROVE EntriesInv'
  <2>1. /\ is_setup' = FALSE /\ \A p \in PipelineParams : pipelines'[p].modules = <<>>
        /\ \A p \in ModuleParams : lists'[p] = <<>>
    BY <1>3 DEF Dies, ClearedTables, NoPipeline
  <2>2. Bounded(<<>>)
    BY DEF Bounded, MAX_MODULES
  <2> QED
    BY <2>1, <2>2 DEF EntriesInv, Entries, GenuinePipeline, GenuineList
<1>4. CASE Boot
  <2>1. CASE IfaceFails
    BY <2>1, <1>3 DEF IfaceFails
  <2>2. CASE ~IfaceFails
    <3>1. UNCHANGED <<tableVars, fileVars>>
      BY <1>4, <2>2 DEF Boot, Start, IfaceInit, CanFails, SetVmemDir, vmem_file_init,
        vmem_ring_init, CreateThread, Keep
    <3>2. main \in {"create", "up"} => storage' = storage /\ threads \subseteq threads'
      BY <1>4, <2>2 DEF Boot, Start, IfaceInit, CanFails, SetVmemDir, vmem_file_init,
        vmem_ring_init, CreateThread
    <3> QED
      BY <1>1, <1>2, <3>1, <3>2
  <2> QED
    BY <2>1, <2>2
<1>5. ASSUME NEW p \in Params, NEW n, SetNumber(p, n), ~overrun PROVE Entries'
  <2>0. Entries
    BY <1>5 DEF EntriesInv
  <2> PICK value : value = Number(n)
    OBVIOUS
  <2> PICK right \in BOOLEAN : right = FALSE
    OBVIOUS
  <2>1. Write(p, value, right) /\ UNCHANGED tableVars /\ p.callback = "none"
    BY <1>5 DEF SetNumber
  <2>2. storage \in Directories /\ UNCHANGED <<bootVars, is_setup>>
    BY <1>1, <2>1 DEF Write, tableVars
  <2>3. Changes(p, value, right)
    BY <2>1, <2>2, WhatWriteChanges
  <2>4. p \notin PipelineParams /\ p \notin ModuleParams
    BY <2>1, PipelineParam, ModuleParam
  <2>5. /\ \A q \in PipelineParams :
             /\ is_setup' => PipelineStands(q, files'[storage][q], sent'[storage][q], pipelines'[q])
             /\ GenuinePipeline(q, pipelines'[q], sent')
        /\ \A q \in ModuleParams :
             /\ is_setup' => ListStands(files'[storage][q], sent'[storage][q], lists'[q])
             /\ GenuineList(q, lists'[q], sent')
    BY <2>0, <2>1, <2>2, <2>3, <2>4, OthersStand DEF tableVars
  <2>6. storage' = storage /\ threads' = threads /\ is_setup' = is_setup
    BY <2>2 DEF bootVars
  <2> QED
    BY <2>0, <2>5, <2>6 DEF Entries, StandsFor
<1>6. ASSUME NEW p \in Params, NEW value \in Contents, SetPipeline(p, value), ~overrun
      PROVE  Entries'
  <2>0. Entries /\ ~Overruns(value)
    BY <1>6 DEF EntriesInv, SetPipeline
  <2> PICK right \in BOOLEAN : right = (value.kind = "packed" /\ value.content \in PipelineContents)
    OBVIOUS
  <2>1. /\ Write(p, value, right) /\ p \in PipelineParams /\ UNCHANGED <<lists, is_setup>>
        /\ pipelines' = [pipelines EXCEPT ![p] = PipelineFrom(p, value, pipelines[p])]
    BY <1>6 DEF SetPipeline, WritePipeline
  <2>2. storage \in Directories /\ UNCHANGED <<bootVars, is_setup>>
    BY <1>1, <2>1 DEF Write
  <2>3. Changes(p, value, right)
    BY <2>1, <2>2, WhatWriteChanges
  <2>4. /\ \A q \in PipelineParams \ {p} : pipelines'[q] = pipelines[q]
        /\ pipelines'[p] = PipelineFrom(p, value, pipelines[p])
    BY <2>1 DEF TableTypes
  <2> PICK messages : messages = sent'
    OBVIOUS
  <2>5. /\ PipelineStands(p, value, messages[storage][p], pipelines'[p])
        /\ GenuinePipeline(p, pipelines'[p], messages) /\ files'[storage][p] = value
    <3>1. files'[storage][p] = value /\ Accounted(value, messages[storage][p], PipelineContents)
      <4>1. p \in Configurations /\ Right(p) = PipelineContents
        BY <2>1, KindsOfConfigurations
      <4>2. files'[storage][p] = value
        BY <2>2, <2>3, <4>1 DEF Changes
      <4>3. Accounted(files'[storage][p], sent'[storage][p], Right(p))
        BY <2>2, <4>1 DEF SentInv
      <4> QED
        BY <4>1, <4>2, <4>3
    <3>2. value \in ConfigurationValues
      BY DEF ConfigurationValues
    <3>3. GenuinePipeline(p, pipelines[p], messages)
      <4>1. \A d \in Directories : sent[d][p] \subseteq messages[d][p]
        BY <2>1, <2>3, KindsOfConfigurations DEF Changes
      <4>2. GenuinePipeline(p, pipelines[p], sent)
        BY <2>0, <2>1 DEF Entries
      <4> QED
        BY <4>1, <4>2 DEF GenuinePipeline
    <3> PICK entry, d : entry = pipelines[p] /\ d = storage
      OBVIOUS
    <3>4. /\ PipelineStands(p, value, messages[d][p], PipelineFrom(p, value, entry))
          /\ GenuinePipeline(p, PipelineFrom(p, value, entry), messages)
      BY <2>0, <2>1, <2>2, <3>1, <3>2, <3>3, NewPipeline
    <3> QED
      BY <2>4, <3>1, <3>4
  <2>6. /\ \A q \in PipelineParams \ {p} :
             /\ is_setup' => PipelineStands(q, files'[storage][q], sent'[storage][q], pipelines'[q])
             /\ GenuinePipeline(q, pipelines'[q], sent')
        /\ \A q \in ModuleParams :
             /\ is_setup' => ListStands(files'[storage][q], sent'[storage][q], lists'[q])
             /\ GenuineList(q, lists'[q], sent')
    <3>1. \A q \in ModuleParams : q \in ModuleParams \ {p} /\ lists'[q] = lists[q]
      BY <2>1, KindsOfConfigurations
    <3> QED
      BY <2>0, <2>2, <2>3, <2>4, <3>1, OthersStand
  <2>7. storage' = storage /\ threads' = threads /\ is_setup' = is_setup
    BY <2>2 DEF bootVars
  <2> QED
    BY <2>0, <2>5, <2>6, <2>7 DEF Entries, StandsFor
<1>7. ASSUME NEW p \in Params, NEW value \in Contents, SetModule(p, value), ~overrun
      PROVE  Entries'
  <2>0. Entries
    BY <1>7 DEF EntriesInv
  <2> PICK right \in BOOLEAN : right = (value.kind = "packed" /\ value.content \in ModuleContents)
    OBVIOUS
  <2>1. /\ Write(p, value, right) /\ p \in ModuleParams /\ UNCHANGED <<pipelines, is_setup>>
        /\ lists' = [lists EXCEPT ![p] = ListFrom(value, lists[p])]
    BY <1>7 DEF SetModule
  <2>2. storage \in Directories /\ UNCHANGED <<bootVars, is_setup>>
    BY <1>1, <2>1 DEF Write
  <2>3. Changes(p, value, right)
    BY <2>1, <2>2, WhatWriteChanges
  <2>4. /\ \A q \in ModuleParams \ {p} : lists'[q] = lists[q]
        /\ lists'[p] = ListFrom(value, lists[p])
    BY <2>1 DEF TableTypes
  <2> PICK messages : messages = sent'
    OBVIOUS
  <2>5. /\ ListStands(value, messages[storage][p], lists'[p])
        /\ GenuineList(p, lists'[p], messages) /\ files'[storage][p] = value
    <3>1. files'[storage][p] = value /\ Accounted(value, messages[storage][p], ModuleContents)
      <4>1. p \in Configurations /\ Right(p) = ModuleContents
        BY <2>1, KindsOfConfigurations
      <4>2. files'[storage][p] = value
        BY <2>2, <2>3, <4>1 DEF Changes
      <4>3. Accounted(files'[storage][p], sent'[storage][p], Right(p))
        BY <2>2, <4>1 DEF SentInv
      <4> QED
        BY <4>1, <4>2, <4>3
    <3>2. value \in ConfigurationValues
      BY DEF ConfigurationValues
    <3>3. GenuineList(p, lists[p], messages)
      <4>1. \A d \in Directories : sent[d][p] \subseteq messages[d][p]
        BY <2>1, <2>3, KindsOfConfigurations DEF Changes
      <4>2. GenuineList(p, lists[p], sent)
        BY <2>0, <2>1 DEF Entries
      <4> QED
        BY <4>1, <4>2 DEF GenuineList
    <3> PICK entry, d : entry = lists[p] /\ d = storage
      OBVIOUS
    <3>4. /\ ListStands(value, messages[d][p], ListFrom(value, entry))
          /\ GenuineList(p, ListFrom(value, entry), messages)
      BY <2>1, <2>2, <3>1, <3>2, <3>3, NewList
    <3> QED
      BY <2>4, <3>1, <3>4
  <2>6. /\ \A q \in PipelineParams :
             /\ is_setup' => PipelineStands(q, files'[storage][q], sent'[storage][q], pipelines'[q])
             /\ GenuinePipeline(q, pipelines'[q], sent')
        /\ \A q \in ModuleParams \ {p} :
             /\ is_setup' => ListStands(files'[storage][q], sent'[storage][q], lists'[q])
             /\ GenuineList(q, lists'[q], sent')
    <3>1. \A q \in PipelineParams : q \in PipelineParams \ {p} /\ pipelines'[q] = pipelines[q]
      BY <2>1, KindsOfConfigurations
    <3> QED
      BY <2>0, <2>2, <2>3, <2>4, <3>1, OthersStand
  <2>7. storage' = storage /\ threads' = threads /\ is_setup' = is_setup
    BY <2>2 DEF bootVars
  <2> QED
    BY <2>0, <2>5, <2>6, <2>7 DEF Entries, StandsFor
<1>8. ASSUME SetupCache, ~overrun' PROVE Entries'
  <2>1. /\ "router" \in threads /\ UNCHANGED <<bootVars, sent>> /\ storage \in Directories
        /\ storage' = storage /\ threads' = threads
    BY <1>1, <1>8 DEF SetupCache, bootVars
  <2> PICK file : file = files[storage]
    OBVIOUS
  <2>0. Entries /\ ~OverrunIn(file)
    BY <1>8 DEF SetupCache, EntriesInv
  <2>2. /\ \A p \in PipelineParams : pipelines'[p] = PipelineFrom(p, file[p], pipelines[p])
        /\ \A p \in ModuleParams : lists'[p] = ListFrom(file[p], lists[p])
    <3>1. /\ pipelines' = [p \in PipelineParams |-> RebuiltPipeline(file, p)]
          /\ lists' = [p \in ModuleParams |->
                         ListFrom(file[p], IF OverrunIn(file) THEN WreckedList ELSE lists[p])]
      BY <1>8 DEF SetupCache
    <3>2. \A p \in PipelineParams : pipelines'[p] = RebuiltPipeline(file, p)
      BY <3>1
    <3>3. \A p \in ModuleParams : lists'[p] = ListFrom(file[p], lists[p])
      BY <2>0, <3>1
    <3> QED
      BY <2>0, <3>2, <3>3, RebuiltAsWritten
  <2>3. \A q \in Configurations : files'[storage][q] = file[q]
    <3>1. CASE files' = files
      BY <3>1
    <3>2. CASE log_status \in Params /\ files' = [files EXCEPT ![storage] = Published(files[storage])]
      <4>1. \A q \in Configurations : Published(files[storage])[q] = files[storage][q]
        BY <3>2, ConfigurationParam, SetOthers DEF Published
      <4> QED
        BY <2>1, <3>2, <4>1 DEF SentInv
    <3> QED
      BY <1>8, <3>1, <3>2 DEF SetupCache, Reports
  <2> PICK d, messages : d = storage /\ messages = sent
    OBVIOUS
  <2>4. \A q \in Configurations :
          file[q] \in ConfigurationValues /\ Accounted(file[q], messages[d][q], Right(q))
    BY <2>1 DEF SentInv
  <2>5. ASSUME NEW p \in PipelineParams
        PROVE  /\ PipelineStands(p, file[p], messages[d][p], pipelines'[p])
               /\ GenuinePipeline(p, pipelines'[p], messages)
    <3> PICK entry, value : entry = pipelines[p] /\ value = file[p]
      OBVIOUS
    <3>1. value \in ConfigurationValues /\ Accounted(value, messages[d][p], PipelineContents)
      BY <2>4, KindsOfConfigurations
    <3>2. GenuinePipeline(p, entry, messages) /\ ~Overruns(value)
      BY <2>0 DEF Entries, OverrunIn
    <3>3. /\ PipelineStands(p, value, messages[d][p], PipelineFrom(p, value, entry))
          /\ GenuinePipeline(p, PipelineFrom(p, value, entry), messages)
      BY <2>1, <3>1, <3>2, NewPipeline
    <3> QED
      BY <2>2, <3>3
  <2>6. ASSUME NEW p \in ModuleParams
        PROVE  /\ ListStands(file[p], messages[d][p], lists'[p])
               /\ GenuineList(p, lists'[p], messages)
    <3> PICK entry, value : entry = lists[p] /\ value = file[p]
      OBVIOUS
    <3>1. value \in ConfigurationValues /\ Accounted(value, messages[d][p], ModuleContents)
      BY <2>4, KindsOfConfigurations
    <3>2. GenuineList(p, entry, messages)
      BY <2>0 DEF Entries
    <3>3. /\ ListStands(value, messages[d][p], ListFrom(value, entry))
          /\ GenuineList(p, ListFrom(value, entry), messages)
      BY <2>1, <3>1, <3>2, NewList
    <3> QED
      BY <2>2, <3>3
  <2> QED
    BY <2>1, <2>3, <2>5, <2>6, KindsOfConfigurations DEF Entries, StandsFor
<1>9. CASE Crash
  BY <1>9, <1>3 DEF Crash
<1>10. CASE UNCHANGED vars
  BY <1>10, <1>2 DEF vars, bootVars
<1>11. CASE overrun'
  BY <1>11 DEF EntriesInv
<1>12. CASE ~overrun'
  <2>1. ASSUME NEW p \in Params, NEW n, SetNumber(p, n) PROVE Entries'
    BY <1>5, <1>12, <2>1 DEF SetNumber, tableVars
  <2>2. ASSUME NEW p \in Params, NEW value \in Contents, SetPipeline(p, value) PROVE Entries'
    BY <1>6, <1>12, <2>2 DEF SetPipeline
  <2>3. ASSUME NEW p \in Params, NEW value \in Contents, SetModule(p, value) PROVE Entries'
    BY <1>7, <1>12, <2>3 DEF SetModule
  <2>4. ASSUME NEW p, NEW value, OverrunPipeline(p, value) PROVE FALSE
    BY <1>12, <2>4 DEF OverrunPipeline
  <2>5. CASE Router
    BY <2>1, <2>2, <2>3, <2>4, <2>5 DEF Router, EntriesInv
  <2>6. CASE SetupCache
    BY <1>8, <1>12, <2>6 DEF EntriesInv
  <2> QED
    BY <1>4, <1>9, <1>10, <2>5, <2>6 DEF Next
<1> QED
  BY <1>11, <1>12

ConfigurationInv == BootInv /\ BootTypes /\ TableTypes /\ SentInv /\ EntriesInv

LEMMA ConfigurationInvariant == Spec => []ConfigurationInv
<1>1. Init => ConfigurationInv
  BY BootInvInitially, BootTypesInitially, TableTypesInitially, SentInvInitially, EntriesInitially
     DEF ConfigurationInv
<1>2. ASSUME ConfigurationInv, [Next]_vars PROVE ConfigurationInv'
  <2>1. BootInv' /\ BootTypes' /\ TableTypes' /\ SentInv'
    BY <1>2, BootInvKept, BootTypesKept, TableTypesKept, SentInvKept DEF ConfigurationInv
  <2>2. EntriesInv'
    BY <1>2, <2>1, EntriesKept DEF ConfigurationInv
  <2> QED
    BY <2>1, <2>2 DEF ConfigurationInv
<1> QED
  BY <1>1, <1>2, PTL DEF Spec

\* Every variable keeps its type; in particular no pipeline has an id beyond those that a batch
\* can ask for (dipp_config.c:99), or more modules than its entry has room for, unless a
\* definition has overrun its entry (dipp_config.c:104); and main() creates no fifth thread.
THEOREM TypeCorrect == Spec => []TypeOK
<1>1. ConfigurationInv => TypeOK
  <2> SUFFICES ASSUME BootTypes, TableTypes, EntriesInv PROVE TypeOK
    BY DEF ConfigurationInv
  <2>1. threads \subseteq {Threads[k] : k \in DOMAIN Threads}
    <3>1. DOMAIN Threads = 1 .. 4
      BY DEF Threads
    <3>2. PICK n \in 0 .. 4 : threads = Created(n)
      BY DEF BootTypes
    <3>3. \A k \in 1 .. n : k \in DOMAIN Threads
      BY <3>1
    <3> QED
      BY <3>2, <3>3 DEF Created
  <2>2. ~overrun => \A p \in PipelineParams : Len(pipelines[p].modules) <= MAX_MODULES
    BY DEF EntriesInv, Entries, GenuinePipeline, Bounded
  <2> QED
    BY <2>1, <2>2 DEF TypeOK, BootTypes, TableTypes
<1> QED
  BY <1>1, ConfigurationInvariant, PTL

(***************************************************************************)
(* Once the tables are set up, in this life of the process or in a later   *)
(* one, and unless a definition has overrun its entry, modules get what    *)
(* the ground meant by the message that is stored.                         *)
(***************************************************************************)
THEOREM StoredConfigurationIsServed == Spec => []ConfigurationSurvives
<1>1. ConfigurationInv => ConfigurationSurvives
  BY DEF ConfigurationInv, EntriesInv, Entries, StandsFor, PipelineStands, ListStands,
    ConfigurationSurvives, Meant
<1> QED
  BY <1>1, ConfigurationInvariant, PTL

(***************************************************************************)
(* Unless a definition has overrun its entry, an entry is empty or what    *)
(* the ground meant by a message for it. No other bytes, and no message of *)
(* the other kind, are mistaken for one, but for a definition without any  *)
(* order, which can be a list of parameters.                               *)
(***************************************************************************)
THEOREM NoOtherMessageIsServed == Spec => []NothingMistaken
<1>1. ConfigurationInv => NothingMistaken
  <2> SUFFICES ASSUME ConfigurationInv PROVE NothingMistaken
    OBVIOUS
  <2>1. DOMAIN sent = Directories
    BY DEF ConfigurationInv, SentInv
  <2> QED
    BY <2>1 DEF ConfigurationInv, EntriesInv, Entries, GenuinePipeline, GenuineList, IsMistaken,
      NothingMistaken
<1> QED
  BY <1>1, ConfigurationInvariant, PTL
=============================================================================
