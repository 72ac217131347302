----------------------------- MODULE ParamStorage -----------------------------
(***************************************************************************)
(* From the start of DIPP to the configuration that its modules get:       *)
(* main() with its options, interface and threads (main.c), the file in    *)
(* which parameters survive a restart (vmem_storage.c, ParamLayout), and   *)
(* what becomes of a message that the ground writes to a parameter:        *)
(* decompressed, unpacked (DippMessages), and translated into the tables   *)
(* of dipp_config.c.                                                       *)
(*                                                                         *)
(* A callback is one step here, as is the rebuild of the tables; their     *)
(* interleaving, failing mallocs and missing modules are the subject of    *)
(* ConfigCache. The drivers of the file and of the interfaces are in       *)
(* libparam and libcsp, outside the repository.                            *)
(***************************************************************************)
EXTENDS DippMessages, ParamLayout, FiniteSets

CONSTANTS
  Params,            \* the stored parameters considered
  Options,           \* what a command line may hold: pairs of a letter and its argument
  MaxOptions,        \* bound on their number
  PipelineContents,  \* what the ground sends for a pipeline, and for a module: the packed
  ModuleContents,    \*   message (wire) and its size
  Numbers,           \* the values of the other parameters
  MaxCommands, MaxStarts   \* bounds

ASSUME StorageAssumption ==
  /\ Params \subseteq Stored
  /\ MaxOptions \in Nat /\ MaxCommands \in Nat /\ MaxStarts \in Nat
  /\ Numbers \subseteq Nat

(***************************************************************************)
(* What the ground means by a message, whatever tables DIPP has for it: of *)
(* the records of an item that set a field, or a member of a oneof, the    *)
(* last one counts, and what is not there is 0; a bool is whether its value *)
(* is 0. An item may have fields of a newer schema. A module has a name,   *)
(* and a parameter has a key.                                              *)
(***************************************************************************)
LastOf(item, numbers) ==
  LET at == {n \in DOMAIN item : item[n].number \in numbers} IN
  IF at = {} THEN [number |-> 0, value |-> 0]
  ELSE item[CHOOSE n \in at : \A m \in at : m <= n]

MeantModule(item) ==
  [name |-> LastOf(item, {2}).value, param_id |-> LastOf(item, {3}).value - 1]

Junk == -1    \* a parameter of an unknown kind gets no value

MeantParameter(item) ==
  LET set == LastOf(item, 2 .. 5) IN
  [key |-> LastOf(item, {1}).value, value_case |-> set.number,
   value |-> IF set.number = 0 THEN Junk
             ELSE IF set.number = 2 THEN Truth(set.value) ELSE set.value]

MeantModules(content) == [k \in DOMAIN content.wire |-> MeantModule(content.wire[k].value)]
MeantParameters(content) == [k \in DOMAIN content.wire |-> MeantParameter(content.wire[k].value)]

HasTypes(item, types) ==
  \A n \in DOMAIN item :
    item[n].number \in DOMAIN types => item[n].wire_type = types[item[n].number]

ModuleTypes == <<"VARINT", "LENGTH_PREFIXED", "VARINT">>
ParameterTypes == <<"LENGTH_PREFIXED", "VARINT", "VARINT", "32BIT", "LENGTH_PREFIXED">>

Message == Seq([number : {1}, wire_type : {"LENGTH_PREFIXED"}, value : Seq(Records(Int))])

ItemsAre(contents, types, required) ==
  \A content \in contents :
    /\ content.wire \in Message
    /\ \A k \in DOMAIN content.wire :
         LET item == content.wire[k].value IN
         HasTypes(item, types) /\ \E n \in DOMAIN item : item[n].number = required

ASSUME ContentsAssumption ==
  ItemsAre(PipelineContents, ModuleTypes, 2) /\ ItemsAre(ModuleContents, ParameterTypes, 1)

VARIABLES
  main,          \* where main() is: see Stages
  argv,          \* the command line
  iface,         \* the interface of the default route, or "none"
  storage,       \* the directory of the storage file that has been opened, or "none"
  images,        \* the same of the ring
  threads,       \* the threads created
  files,         \* directory -> parameter -> what its bytes in the file hold
  pipelines,     \* parameter -> entry of the table
  lists,         \*   "
  is_setup,
  overrun,       \* whether a definition has been written over the end of its entry
  written, sent, \* history: what was last written to a parameter, and the contents of its
                 \* kind that it has been sent, for each directory
  commands, starts

bootVars == <<main, argv, iface, storage, images, threads>>
tableVars == <<pipelines, lists, is_setup, overrun>>
fileVars == <<files, written, sent>>
vars == <<bootVars, tableVars, fileVars, commands, starts>>

Stages == {"down", "iface", "vmem_dir", "file_init", "ring_init", "create", "up"}
Threads == <<"router", "vmem_server", "dtp_server", "dtp_indeces_server">>

PipelineParams == {p \in Params : p.callback = "setup_pipeline"}
ModuleParams == {p \in Params : p.callback = "setup_module_config"}
Directories == {"."} \cup {o[2] : o \in {x \in Options : x[1] = "v"}}

(***************************************************************************)
(* What the bytes of a parameter hold. Blank is all zero, Noise does not   *)
(* decompress, Torn is a part of another parameter.                        *)
(***************************************************************************)
Number(n) == [kind |-> "number", value |-> n]
Packed(content) == [kind |-> "packed", content |-> content]
Noise == [kind |-> "noise"]
Torn == [kind |-> "torn"]
Blank(p) == IF p.callback = "none" THEN Number(0) ELSE [kind |-> "blank"]

BlankFile == [p \in Params |-> Blank(p)]
NoPipeline == [pipeline_id |-> 0, modules |-> <<>>]

\* Whatever is left of an entry, or of a list, that has been written over.
Wrecked == [pipeline_id |-> Junk, modules |-> <<>>]
WreckedList == << [key |-> Junk, value_case |-> Junk, value |-> Junk] >>

Overlap(p, q) == Bytes(p) \cap Bytes(q) # {}

\* The file after param_set: whatever lies across the bytes of p is not what it was.
Set(file, p, value) ==
  [q \in Params |-> IF q = p THEN value ELSE IF Overlap(p, q) THEN Torn ELSE file[q]]

(***************************************************************************)
(* get_param_buffer: the packed message, or no bytes at all if nothing was *)
(* written, or if decompression fails or needs more than DATA_PARAM_SIZE   *)
(* bytes; then an error is published.                                      *)
(***************************************************************************)
Decodes(value) == value.kind = "packed" /\ value.content.size <= DATA_PARAM_SIZE
Buffer(value) == IF Decodes(value) THEN value.content.wire ELSE <<>>
DecodeFails(value) == value.kind # "blank" /\ ~Decodes(value)

INTERNAL_BROTLI_DECODE == 516000

Reports(values) == log_status \in Params /\ \E v \in values : DecodeFails(v)

Published(file) == Set(file, log_status, Number(INTERNAL_BROTLI_DECODE))

(***************************************************************************)
(* setup_pipeline and setup_module_config: the entry of the table that     *)
(* results from the value of the parameter; a message that cannot be       *)
(* unpacked leaves the entry alone. The modules of a definition are copied *)
(* without regard to the MAX_MODULES that an entry has room for.           *)
(***************************************************************************)
Overruns(value) ==
  \E pdef \in pipeline_definition__unpack(Buffer(value)) : Len(pdef.modules) > MAX_MODULES

PipelineFrom(p, value, entry) ==
  LET pdefs == pipeline_definition__unpack(Buffer(value))
      pdef == CHOOSE d \in pdefs : TRUE
  IN  IF pdefs = {} THEN entry
      ELSE [pipeline_id |-> Index(p) + 1,
            modules |-> [k \in DOMAIN pdef.modules |->
                           [name |-> pdef.modules[k].name,
                            param_id |-> pdef.modules[k].param_id - 1]]]

\* Mutant: the case of a float is missing.
ModuleParameter_NoFloat(parameter) ==
  [key |-> parameter.key, value_case |-> parameter.value_case,
   value |-> IF parameter.value_case \in CONFIG_PARAMETER__VALUE \ {4} THEN parameter.value
                                                                     ELSE Junk]

ModuleParameter(parameter) ==
  [key |-> parameter.key, value_case |-> parameter.value_case,
   value |-> IF parameter.value_case \in CONFIG_PARAMETER__VALUE THEN parameter.value ELSE Junk]

ListFrom(value, entry) ==
  LET mcons == module_config__unpack(Buffer(value))
      mcon == CHOOSE c \in mcons : TRUE
  IN  IF mcons = {} THEN entry
      ELSE [k \in DOMAIN mcon.parameters |-> ModuleParameter(mcon.parameters[k])]

ClearedTables ==
  /\ pipelines' = [p \in PipelineParams |-> NoPipeline]
  /\ lists' = [p \in ModuleParams |-> <<>>] /\ is_setup' = FALSE /\ overrun' = FALSE

Init ==
  /\ main = "down" /\ argv = <<>> /\ iface = "none"
  /\ storage = "none" /\ images = "none" /\ threads = {}
  /\ files = [d \in Directories |-> BlankFile]
  /\ pipelines = [p \in PipelineParams |-> NoPipeline]
  /\ lists = [p \in ModuleParams |-> <<>>] /\ is_setup = FALSE /\ overrun = FALSE
  /\ written = files /\ sent = [d \in Directories |-> [p \in Params |-> {}]]
  /\ commands = 0 /\ starts = 0

(***************************************************************************)
(* main(). The last occurrence of an option counts.                        *)
(***************************************************************************)
Given(letter) == {k \in DOMAIN argv : argv[k][1] = letter}
Argument(letter, default) ==
  IF Given(letter) = {} THEN default
  ELSE argv[CHOOSE k \in Given(letter) : \A j \in Given(letter) : j <= k][2]

interface == Argument("i", "ZMQ")
vmem_dir == Argument("v", ".")

Keep == UNCHANGED <<fileVars, commands, starts>>

Start(options) ==
  /\ main = "down" /\ starts < MaxStarts /\ starts' = starts + 1
  /\ argv' = options /\ main' = "iface"
  /\ UNCHANGED <<iface, storage, images, threads, tableVars, fileVars, commands>>

\* The process ends: whatever is not in the files is lost.
Dies ==
  /\ main' = "down" /\ argv' = <<>> /\ iface' = "none"
  /\ storage' = "none" /\ images' = "none" /\ threads' = {}
  /\ ClearedTables /\ Keep

\* An option that is not known ends the process; so does an interface that is not, through the
\* null pointer, and one that fails, if it is not CAN.
UnknownOption == \E k \in DOMAIN argv : argv[k][1] \notin {"i", "p", "a", "v", "b", "m"}

IfaceFails ==
  /\ main = "iface" /\ (UnknownOption \/ interface # "CAN")
  /\ Dies

IfaceInit ==
  /\ main = "iface" /\ ~UnknownOption /\ interface \in {"ZMQ", "KISS", "CAN"}
  /\ iface' = interface /\ main' = "vmem_dir"
  /\ UNCHANGED <<argv, storage, images, threads, tableVars>> /\ Keep

\* Without a CAN device iface_init returns, and DIPP goes on without an interface.
CanFails ==
  /\ main = "iface" /\ ~UnknownOption /\ interface = "CAN"
  /\ main' = "vmem_dir"
  /\ UNCHANGED <<argv, iface, storage, images, threads, tableVars>> /\ Keep

\* Mutant: the threads are created before the files are opened.
SetVmemDir_ThreadsFirst ==
  /\ main = "vmem_dir" /\ main' = "create"
  /\ UNCHANGED <<argv, iface, storage, images, threads, tableVars>> /\ Keep

\* The two names are set, then the two files are opened with them.
SetVmemDir ==
  /\ main = "vmem_dir" /\ main' = "file_init"
  /\ UNCHANGED <<argv, iface, storage, images, threads, tableVars>> /\ Keep

vmem_file_init ==
  /\ main = "file_init" /\ main' = "ring_init" /\ storage' = vmem_dir
  /\ UNCHANGED <<argv, iface, images, threads, tableVars>> /\ Keep

vmem_ring_init ==
  /\ main = "ring_init" /\ main' = "create" /\ images' = vmem_dir
  /\ UNCHANGED <<argv, iface, storage, threads, tableVars>> /\ Keep

CreateThread ==
  /\ main = "create"
  /\ threads' = threads \cup {Threads[Cardinality(threads) + 1]}
  /\ main' = IF Cardinality(threads) + 1 = Len(Threads) THEN "up" ELSE "create"
  /\ UNCHANGED <<argv, iface, storage, images, tableVars>> /\ Keep

Crash == main # "down" /\ Dies

(***************************************************************************)
(* The router: a parameter is written, and its callback called.            *)
(***************************************************************************)
Write(p, value, right) ==
  /\ "router" \in threads /\ iface # "none"
  /\ commands < MaxCommands /\ commands' = commands + 1
  /\ LET d == storage
         file == Set(files[d], p, value)
         reports == p.callback # "none" /\ Reports({value})
     IN  /\ files' = [files EXCEPT ![d] = IF reports THEN Published(file) ELSE file]
         /\ written' = [written EXCEPT ![d] = [q \in Params |->
              IF q = log_status /\ reports THEN Number(INTERNAL_BROTLI_DECODE)
              ELSE IF q = p THEN value ELSE @[q]]]
         /\ sent' = IF right THEN [sent EXCEPT ![d][p] = @ \cup {value}] ELSE sent
  /\ UNCHANGED <<bootVars, starts>>

SetNumber(p, n) ==
  /\ p.callback = "none" /\ Write(p, Number(n), FALSE)
  /\ UNCHANGED tableVars

\* A pipeline: also a message that was meant for a module, and bytes that are none.
WritePipeline(p, value) ==
  /\ p \in PipelineParams
  /\ Write(p, value, value.kind = "packed" /\ value.content \in PipelineContents)

SetPipeline(p, value) ==
  /\ WritePipeline(p, value) /\ ~Overruns(value)
  /\ pipelines' = [pipelines EXCEPT ![p] = PipelineFrom(p, value, @)]
  /\ UNCHANGED <<lists, is_setup, overrun>>

\* What lies behind the entry is written over: the number of its modules, the entries of the
\* next pipelines, and the variables that the linker has placed behind the table.
OverrunPipeline(p, value) ==
  /\ WritePipeline(p, value) /\ Overruns(value)
  /\ overrun' = TRUE /\ is_setup' \in BOOLEAN
  /\ pipelines' = [q \in PipelineParams |-> IF Index(q) < Index(p) THEN pipelines[q] ELSE Wrecked]
  /\ lists' = [q \in ModuleParams |-> WreckedList]

SetModule(p, value) ==
  /\ p \in ModuleParams
  /\ Write(p, value, value.kind = "packed" /\ value.content \in ModuleContents)
  /\ lists' = [lists EXCEPT ![p] = ListFrom(value, @)]
  /\ UNCHANGED <<pipelines, is_setup, overrun>>

(***************************************************************************)
(* The first batch: setup_cache_if_needed, the pipelines in the order of   *)
(* the table, then the modules.                                            *)
(***************************************************************************)
RebuiltPipeline(file, q) ==
  LET hit == \E p \in PipelineParams : Index(p) < Index(q) /\ Overruns(file[p])
  IN  IF Overruns(file[q]) THEN Wrecked
      ELSE PipelineFrom(q, file[q], IF hit THEN Wrecked ELSE pipelines[q])

OverrunIn(file) == \E p \in PipelineParams : Overruns(file[p])

SetupCache ==
  /\ "router" \in threads /\ ~is_setup
  /\ is_setup' = TRUE
  /\ LET file == files[storage]
         reports == Reports({file[p] : p \in PipelineParams \cup ModuleParams})
     IN  /\ pipelines' = [p \in PipelineParams |-> RebuiltPipeline(file, p)]
         /\ lists' = [p \in ModuleParams |->
                         ListFrom(file[p], IF OverrunIn(file) THEN WreckedList ELSE lists[p])]
         /\ overrun' = (overrun \/ OverrunIn(file))
         /\ files' = IF reports THEN [files EXCEPT ![storage] = Published(file)] ELSE files
         /\ written' = IF reports
              THEN [written EXCEPT ![storage][log_status] = Number(INTERNAL_BROTLI_DECODE)]
              ELSE written
  /\ UNCHANGED <<bootVars, sent, commands, starts>>

Contents == {Packed(c) : c \in PipelineContents \cup ModuleContents} \cup {Noise}

Boot ==
  \/ \E n \in 0 .. MaxOptions : \E options \in [1 .. n -> Options] : Start(options)
  \/ IfaceFails \/ IfaceInit \/ CanFails
  \/ SetVmemDir \/ vmem_file_init \/ vmem_ring_init \/ CreateThread

Router ==
  \/ \E p \in Params, n \in Numbers : SetNumber(p, n)
  \/ \E p \in Params, value \in Contents :
       SetPipeline(p, value) \/ OverrunPipeline(p, value) \/ SetModule(p, value)

Next == Boot \/ Router \/ SetupCache \/ Crash

Spec == Init /\ [][Next]_vars

(***************************************************************************)
(* Properties                                                              *)
(***************************************************************************)
TypeOK ==
  /\ main \in Stages /\ iface \in {"none", "ZMQ", "KISS", "CAN"}
  /\ storage \in Directories \cup {"none"} /\ images \in Directories \cup {"none"}
  /\ threads \subseteq {Threads[k] : k \in DOMAIN Threads}
  /\ is_setup \in BOOLEAN /\ overrun \in BOOLEAN
  /\ ~overrun => \A p \in PipelineParams :
       pipelines[p].pipeline_id \in 0 .. MAX_PIPELINES /\ Len(pipelines[p].modules) <= MAX_MODULES
  /\ commands \in 0 .. MaxCommands /\ starts \in 0 .. MaxStarts

\* main.c:178: the router answers as soon as its thread exists. By then both files are open, and
\* they are those of the directory that the command line asks for.
ServedWhenReady == threads # {} => storage = vmem_dir /\ images = vmem_dir

\* vmem_storage.h: no parameter lies across another, so that each one keeps what was last written
\* to it, in its own directory, whatever else is written, published or restarted.
StoredAsWritten == \A d \in DOMAIN files : files[d] = written[d]

\* README.md:22, "All configurations are persistently stored in vmem, and do not have to be rerun
\* on startup": once the tables are set up, in this or in a later life of the process, modules
\* get what the ground meant by the message that is stored, if it is of the right kind and fits,
\* unless a definition of more than MAX_MODULES modules has been written over the tables.
Meant(p) == LET value == files[storage][p] IN value \in sent[storage][p] /\ Decodes(value)

ConfigurationSurvives ==
  is_setup /\ ~overrun =>
    /\ \A p \in {q \in PipelineParams : Meant(q)} :
         pipelines[p] = [pipeline_id |-> Index(p) + 1,
                         modules |-> MeantModules(files[storage][p].content)]
    /\ \A p \in {q \in ModuleParams : Meant(q)} :
         lists[p] = MeantParameters(files[storage][p].content)

\* dipp_config.c:88, :123: a message that was meant for the other kind of parameter, or for
\* none, is never mistaken for a configuration: an entry is empty or what the ground meant by
\* some message that it sent to this parameter. There is one message that is mistaken, and no
\* other: the definition of a pipeline in which no module has an order can be read as a list of
\* parameters, as libprotobuf-c takes the name of a module for a bool. Tables that have been
\* written over by a definition of more than MAX_MODULES modules are not considered.
Unordered(content) ==
  \A k \in DOMAIN content.wire : \A n \in DOMAIN content.wire[k].value :
    content.wire[k].value[n].number # 1

NothingMistaken ==
  ~overrun =>
    /\ \A p \in PipelineParams :
         pipelines[p].modules = <<>> \/ \E d \in DOMAIN sent : \E value \in sent[d][p] :
           pipelines[p].modules = MeantModules(value.content)
    /\ \A p \in ModuleParams :
         \/ lists[p] = <<>>
         \/ \E d \in DOMAIN sent : \E value \in sent[d][p] :
              lists[p] = MeantParameters(value.content)
         \/ \E content \in PipelineContents :
              Unordered(content) /\ lists[p] = MeantParameters(content)
=============================================================================
