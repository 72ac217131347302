--------------------------- MODULE ObservationServer ---------------------------
(***************************************************************************)
(* src/src/vmem/vmem_dtp_server.c: two servers that read observations from *)
(* the ring of images while upload writes to it. dtp_indeces_server        *)
(* answers how many there are and what one of them is; the DTP server      *)
(* transfers the contents of one with the callbacks get_payload_meta and   *)
(* observation_read. Neither takes a lock, and each read of an observation *)
(* translates its index anew, in a step before the read.                   *)
(*                                                                         *)
(* The ring is libparam's vmem_ring, which is not in the repository: the   *)
(* observations are numbered in the order in which they are written, of    *)
(* which tail .. head - 1 are in the ring, and number n takes the place n  *)
(* modulo Entries. Whether an index names a place or counts from the       *)
(* oldest, and whether a new observation is counted before or after its    *)
(* bytes are there, is left open. A write evicts the oldest observation    *)
(* when the ring is full. All of this survives the death of the process,   *)
(* which ends upload and both servers until somebody starts DIPP again.    *)
(***************************************************************************)
EXTENDS DippMessages, FiniteSets

Writer == INSTANCE CameraMetadata

CONSTANTS
  Entries,       \* places in the ring
  BYTE,          \* 2^8: an index is made of two bytes
  MaxWrites      \* bound on observations

ASSUME RingAssumption ==
  Entries \in Nat \ {0} /\ BYTE \in Nat \ {0} /\ MaxWrites \in Nat

VARIABLES
  numbering,     \* what an index means: "place" or "age"
  tail, head,    \* the observations in the ring
  bytes,         \* place -> the observation whose bytes are there, or Blank
  writer,        \* which parts of the write of observation head are left: see Write
  server,        \* where dtp_indeces_server is; "dead": the process is not running
  request,       \* index: of the packet that it has read
  place,         \* in observation_read: what the index has been translated to
  meta_size,     \* in observation_get_metadata
  metadata,      \* the message, once it has been unpacked
  response,      \* the answer to the current request
  dtp,           \* the transfer of the DTP server
  asked, evictions  \* history: the observation found when the index was checked, and how many
                 \* have been evicted since

ringVars == <<numbering, tail, head, bytes, writer>>
serverVars == <<server, request, place, meta_size, metadata, response, asked, evictions>>
vars == <<ringVars, serverVars, dtp>>

Blank == -1
NoPlace == -1
NoResponse == [kind |-> "none"]
NoTransfer == [phase |-> "idle"]

DIPP_DTP_OBSERVATION_AMOUNT_REQUEST == 0
DIPP_DTP_OBSERVATION_META_REQUEST == 1

(***************************************************************************)
(* Observation n as its module packed it: obid n, and a size that          *)
(* alternates. The obid 0 is not in the packed message, which is why the   *)
(* sizes of the metadata differ. An element is transferred in Size(n)      *)
(* chunks.                                                                 *)
(***************************************************************************)
Meta(n) == [metadata__init EXCEPT !.size = 1 + (n % 2), !.obid = n]
Packed == [n \in 0 .. MaxWrites |-> Writer!metadata__pack(Meta(n))]
Size(n) == 2 + (n % 2)

Place(n) == n % Entries

(***************************************************************************)
(* vmem_ring_is_valid_index and vmem_ring_offset.                          *)
(***************************************************************************)
ValidIndex(index) ==
  IF numbering = "age" THEN index < head - tail
  ELSE \E n \in tail .. head - 1 : Place(n) = index

PlaceOf(index) == IF numbering = "age" THEN Place(tail + index) ELSE Place(index)

\* The observation that a valid index names, unless its bytes are not there yet.
Named(index) ==
  {n \in tail .. head - 1 : Place(n) = PlaceOf(index) /\ bytes[Place(n)] = n}

Indices == 0 .. BYTE * BYTE - 1

Init ==
  /\ numbering \in {"place", "age"}
  /\ tail = 0 /\ head = 0 /\ bytes = [p \in 0 .. Entries - 1 |-> Blank] /\ writer = {}
  /\ server = "accept" /\ request = 0 /\ place = NoPlace /\ meta_size = 0
  /\ metadata = metadata__init /\ response = NoResponse
  /\ asked = {} /\ evictions = 0
  /\ dtp = NoTransfer

(***************************************************************************)
(* upload: vmem_ring_write of one image.                                   *)
(***************************************************************************)
Evict ==
  /\ tail' = IF head - tail = Entries THEN tail + 1 ELSE tail
  /\ evictions' = evictions + (tail' - tail)
  /\ dtp' = IF dtp.phase = "idle" THEN dtp ELSE [dtp EXCEPT !.evictions = @ + (tail' - tail)]

Running == server # "dead"

BeginWrite ==
  /\ Running /\ writer = {} /\ head < MaxWrites
  /\ Evict
  /\ writer' = {"bytes", "head"}
  /\ UNCHANGED <<numbering, head, bytes, server, request, place, meta_size, metadata,
                 response, asked>>

WriteBytes ==
  /\ "bytes" \in writer
  /\ LET n == IF "head" \in writer THEN head ELSE head - 1 IN
     bytes' = [bytes EXCEPT ![Place(n)] = n]
  /\ writer' = writer \ {"bytes"}
  /\ UNCHANGED <<numbering, tail, head, serverVars, dtp>>

WriteHead ==
  /\ "head" \in writer
  /\ head' = head + 1 /\ writer' = writer \ {"head"}
  /\ UNCHANGED <<numbering, tail, bytes, serverVars, dtp>>

(***************************************************************************)
(* The process dies, and nothing obliges anybody to start it again. A      *)
(* write that was under way stays half done.                               *)
(***************************************************************************)
Dies ==
  /\ writer' = {} /\ server' = "dead" /\ request' = 0 /\ place' = NoPlace /\ meta_size' = 0
  /\ metadata' = metadata__init /\ response' = NoResponse /\ asked' = {} /\ evictions' = 0
  /\ dtp' = NoTransfer
  /\ UNCHANGED <<numbering, tail, head, bytes>>

Crash == Running /\ Dies

Restart ==
  /\ server = "dead" /\ server' = "accept"
  /\ UNCHANGED <<ringVars, request, place, meta_size, metadata, response, asked, evictions, dtp>>

(***************************************************************************)
(* dtp_indeces_server.                                                     *)
(***************************************************************************)
Keep == UNCHANGED <<ringVars, dtp>>

Accept ==
  /\ server = "accept"
  /\ server' = "read" /\ response' = NoResponse
  /\ UNCHANGED <<request, place, meta_size, metadata, asked, evictions>> /\ Keep

\* csp_read gives up after 50 ms: the code reads through the null pointer.
ReadTimesOut == server = "read" /\ Dies

Respond(answer) == server' = "close" /\ response' = answer

ReadAmount ==
  /\ server = "read"
  /\ Respond([kind |-> "amount", amount |-> head - tail])
  /\ UNCHANGED <<request, place, meta_size, metadata, asked, evictions>> /\ Keep

\* Any other code is not answered.
ReadOther ==
  /\ server = "read"
  /\ Respond(NoResponse)
  /\ UNCHANGED <<request, place, meta_size, metadata, asked, evictions>> /\ Keep

\* Mutant: the high byte is shifted too far.
ReadMeta_Shifted(low, high) ==
  /\ server = "read"
  /\ server' = "check" /\ request' = low + high * BYTE * BYTE
  /\ UNCHANGED <<place, meta_size, metadata, response, asked, evictions>> /\ Keep

\* request->data[1] + (request->data[2] << 8). A request that is too short leaves the bytes to
\* what the packet held before.
ReadMeta(low, high) ==
  /\ server = "read"
  /\ server' = "check" /\ request' = low + high * BYTE
  /\ UNCHANGED <<place, meta_size, metadata, response, asked, evictions>> /\ Keep

\* Mutant: after an invalid index the server reads again.
CheckFails_Again ==
  /\ server = "check" /\ ~ValidIndex(request)
  /\ server' = "read" /\ response' = [kind |-> "invalid"]
  /\ UNCHANGED <<request, place, meta_size, metadata, asked, evictions>> /\ Keep

CheckFails ==
  /\ server = "check" /\ ~ValidIndex(request)
  /\ Respond([kind |-> "invalid"])
  /\ UNCHANGED <<request, place, meta_size, metadata, asked, evictions>> /\ Keep

CheckSucceeds ==
  /\ server = "check" /\ ValidIndex(request)
  /\ server' = "meta_size" /\ asked' = Named(request) /\ evictions' = 0
  /\ UNCHANGED <<request, place, meta_size, metadata, response>> /\ Keep

\* vmem_ring_offset in observation_read, before each of its two reads.
TranslateIndex ==
  /\ server \in {"meta_size", "metadata"} /\ place = NoPlace
  /\ place' = PlaceOf(request)
  /\ UNCHANGED <<server, request, meta_size, metadata, response, asked, evictions>> /\ Keep

\* Mutant: all metadata are taken to be as long as those of the first observation.
ReadMetaSize_Fixed ==
  /\ server = "meta_size" /\ place # NoPlace
  /\ server' = "metadata" /\ meta_size' = Len(Packed[0]) /\ place' = NoPlace
  /\ UNCHANGED <<request, metadata, response, asked, evictions>> /\ Keep

\* The word at the start of an element; where nothing was ever written it is 0.
WordAt(at) == IF bytes[at] = Blank THEN 0 ELSE Len(Packed[bytes[at]])

ReadMetaSize ==
  /\ server = "meta_size" /\ place # NoPlace
  /\ server' = "metadata" /\ meta_size' = WordAt(place) /\ place' = NoPlace
  /\ UNCHANGED <<request, metadata, response, asked, evictions>> /\ Keep

\* What the bytes behind the word unpack to: all of the metadata, its beginning, or more.
Read(n, length) ==
  IF n = Blank THEN metadata__unpack(<<>>)
  ELSE metadata__unpack(SubSeq(Packed[n], 1, IF length < Len(Packed[n]) THEN length
                                                                        ELSE Len(Packed[n])))

ReadMetadata ==
  /\ server = "metadata" /\ place # NoPlace
  /\ \E m \in Read(bytes[place], meta_size) : metadata' = m
  /\ server' = "answer" /\ place' = NoPlace
  /\ UNCHANGED <<request, meta_size, response, asked, evictions>> /\ Keep

\* Another length than that of the metadata may give NULL, which is used.
MetadataNull ==
  /\ server = "metadata" /\ place # NoPlace
  /\ meta_size # WordAt(place)
  /\ Dies

AnswerMeta ==
  /\ server = "answer"
  /\ Respond([kind |-> "meta", index |-> request, size |-> metadata.size, obid |-> metadata.obid])
  /\ UNCHANGED <<request, place, meta_size, metadata, asked, evictions>> /\ Keep

Close ==
  /\ server = "close"
  /\ server' = "accept" /\ request' = 0 /\ meta_size' = 0 /\ metadata' = metadata__init
  /\ asked' = {} /\ evictions' = 0
  /\ UNCHANGED <<place, response>> /\ Keep

(***************************************************************************)
(* The DTP server: get_payload_meta once, observation_read for each chunk. *)
(***************************************************************************)
KeepServer == UNCHANGED <<ringVars, serverVars>>

\* The index is valid...
GetPayloadMeta(payload_id) ==
  /\ Running /\ dtp.phase = "idle" /\ ValidIndex(payload_id)
  /\ dtp' = [phase |-> "checked", index |-> payload_id, size |-> 0, place |-> NoPlace,
             chunks |-> <<>>, asked |-> Named(payload_id), evictions |-> 0]
  /\ KeepServer

\* Mutant: the size is that of the element at index 0.
PayloadSize_First ==
  /\ dtp.phase = "checked"
  /\ LET n == bytes[PlaceOf(0)] IN
     dtp' = [dtp EXCEPT !.phase = "serving", !.size = IF n = Blank THEN 0 ELSE Size(n)]
  /\ KeepServer

\* ... and names an element of some size, perhaps another one by now.
PayloadSize ==
  /\ dtp.phase = "checked"
  /\ LET n == bytes[PlaceOf(dtp.index)] IN
     dtp' = [dtp EXCEPT !.phase = "serving", !.size = IF n = Blank THEN 0 ELSE Size(n)]
  /\ KeepServer

TranslateChunk ==
  /\ dtp.phase = "serving" /\ Len(dtp.chunks) < dtp.size /\ dtp.place = NoPlace
  /\ dtp' = [dtp EXCEPT !.place = PlaceOf(dtp.index)]
  /\ KeepServer

ReadChunk ==
  /\ dtp.phase = "serving" /\ dtp.place # NoPlace
  /\ dtp' = [dtp EXCEPT !.chunks = Append(@, bytes[dtp.place]), !.place = NoPlace]
  /\ KeepServer

TransferDone ==
  /\ dtp.phase = "serving" /\ Len(dtp.chunks) = dtp.size
  /\ dtp' = NoTransfer
  /\ KeepServer

UploadStep == BeginWrite \/ WriteBytes \/ WriteHead

\* The steps that the server takes once it has a connection.
Serve ==
  \/ ReadTimesOut \/ ReadAmount \/ ReadOther
  \/ \E low, high \in 0 .. BYTE - 1 : ReadMeta(low, high)
  \/ CheckFails \/ CheckSucceeds \/ TranslateIndex
  \/ ReadMetaSize \/ ReadMetadata \/ MetadataNull
  \/ AnswerMeta \/ Close

DtpStep ==
  \/ \E id \in Indices : GetPayloadMeta(id)
  \/ PayloadSize \/ TranslateChunk \/ ReadChunk \/ TransferDone

Next == UploadStep \/ Accept \/ Serve \/ DtpStep \/ Crash \/ Restart

\* The server's thread runs, and csp_read returns.
Spec == Init /\ [][Next]_vars /\ WF_vars(Serve)

(***************************************************************************)
(* Properties                                                              *)
(***************************************************************************)
TypeOK ==
  /\ numbering \in {"place", "age"}
  /\ tail \in Nat /\ head \in tail .. tail + Entries
  /\ bytes \in [0 .. Entries - 1 -> {Blank} \cup 0 .. MaxWrites]
  /\ writer \subseteq {"bytes", "head"}
  /\ server \in {"dead", "accept", "read", "check", "meta_size", "metadata", "answer", "close"}
  /\ request \in Indices /\ place \in {NoPlace} \cup 0 .. Entries - 1 /\ meta_size \in Nat
  /\ Cardinality(asked) <= 1 /\ evictions \in Nat

\* The observation that an index named still goes by that index.
StillNamed(observations, evicted) ==
  IF numbering = "age" THEN evicted = 0 ELSE observations \subseteq tail .. head - 1

\* vmem_dtp_server.c:115: between the check of the index and the answer the ring is translated
\* and read twice. As long as the observation goes by its index, the answer describes that one
\* observation, however many are being written.
AnswerOfOneObservation ==
  server = "close" /\ response.kind = "meta" /\ StillNamed(asked, evictions) =>
    \A n \in asked : response = [kind |-> "meta", index |-> request,
                                 size |-> Meta(n).size, obid |-> Meta(n).obid]

\* vmem_dtp_server.c:56: nor does metadata__unpack fail for such an observation, which would end
\* the process.
CrashOnlyWhenOvertaken ==
  [][MetadataNull => asked = {} \/ ~StillNamed(asked, evictions)]_vars

\* vmem_dtp_server.c:20: each chunk translates the index anew; the size was taken from the first
\* translation. Whoever receives all chunks has one whole observation, unless the ring moved on.
TransferOfOneObservation ==
  dtp.phase = "serving" /\ StillNamed(dtp.asked, dtp.evictions) =>
    \A n \in dtp.asked : /\ dtp.size = Size(n)
                         /\ \A k \in DOMAIN dtp.chunks : dtp.chunks[k] = n

\* vmem_dtp_server.c:129: only one connection may wait (csp_listen(&sock, 1)), so the server must
\* come back from every request, whatever it is, unless the process dies of it.
EveryRequestEnds == server \notin {"accept", "dead"} ~> server \in {"accept", "dead"}
=============================================================================
