----------------------------- MODULE ImageFraming -----------------------------
(***************************************************************************)
(* The layout of a batch in shared memory: for each image the size of its  *)
(* metadata, the packed metadata, the bytes of the image. A camera writes  *)
(* it (src/sim/camera_control.c), modules may replace it, and upload       *)
(* (src/src/vmem/vmem_upload_local.c) walks through it with nothing but    *)
(* the sizes it finds, two counters and the message.                       *)
(*                                                                         *)
(* One batch after the other; queue, segments and failures of the system   *)
(* calls are the subject of BatchProcessing. Reading what nobody has       *)
(* written gives any value of Garbage, or ends the process.                *)
(***************************************************************************)
EXTENDS DippMessages, FiniteSets

Camera == INSTANCE CameraMetadata

CONSTANTS
  UINT32,        \* 2^32: offsets and sizes are kept modulo UINT32
  WORD,          \* sizeof(uint32_t)
  IMAGE_SIZE,    \* height * width * channels * bytes of an image of the camera
  Counts,        \* the numbers of images a camera may be asked for
  ImageSizes,    \* the sizes of images that modules produce
  Deviations,    \* by how much a size or count of a module may be wrong
  Garbage,       \* what may be read where nobody has written
  MaxImages      \* bound on the images in a module's segment

ASSUME FramingAssumption ==
  /\ UINT32 \in Nat \ {0} /\ WORD \in Nat \ {0} /\ IMAGE_SIZE \in 0 .. UINT32 \div 2
  /\ MaxImages \in Nat
  /\ Counts \subseteq Int /\ ImageSizes \subseteq Nat
  /\ Deviations \subseteq Int /\ 0 \in Deviations /\ Garbage \subseteq Nat

VARIABLES
  pc,            \* who works on the batch: see Stages
  num_images,    \* the message: number of images
  batch_size,    \* the message: number of bytes
  size,          \* bytes of the segment
  blocks,        \* what has been written to it, in order
  filled,        \* the offset at which the writer goes on
  offset,        \* of upload, within the segment
  image_index,   \* of upload
  ring           \* the images of this batch written to the ring: from, to

vars == <<pc, num_images, batch_size, size, blocks, filled, offset, image_index, ring>>
message == <<num_images, batch_size>>
segment == <<size, blocks, filled>>
upload == <<offset, image_index, ring>>

Stages == {"camera", "fill", "queued", "module", "upload", "done", "crashed"}

(***************************************************************************)
(* A block: where it starts, the word before its metadata, the metadata as *)
(* packed, the bytes of its image.                                         *)
(***************************************************************************)
End(block) == block.start + WORD + Len(block.metadata) + block.image_size

NewBlock(meta_size, metadata, image_size) ==
  [start |-> filled, meta_size |-> meta_size, metadata |-> metadata, image_size |-> image_size]

Write(block) == blocks' = Append(blocks, block) /\ filled' = End(block)

Init ==
  /\ pc = "camera" /\ num_images = 0 /\ batch_size = 0
  /\ size = 0 /\ blocks = <<>> /\ filled = 0
  /\ offset = 0 /\ image_index = 0 /\ ring = <<>>

(***************************************************************************)
(* The metadata of the camera's images, all of one size, and those of a    *)
(* module's, which has its own copy of the schema, perhaps a newer one     *)
(* with a field 10, and may get the size wrong.                            *)
(***************************************************************************)
new_meta ==
  [metadata__init EXCEPT !.size = IMAGE_SIZE, !.width = 2464, !.height = 2056,
                         !.channels = 1, !.bits_pixel = 12, !.camera = 1]

meta_buf == Camera!metadata__pack(new_meta)

module_buf(image_size, wrong, newer) ==
  LET item == [key |-> 1, value_case |-> 3, value |-> 1]
      metadata == [metadata__init EXCEPT !.size = image_size + wrong, !.obid = 1,
                                         !.items = <<item>>]
  IN  Camera!metadata__pack(metadata) \o
        IF newer THEN <<[number |-> 10, wire_type |-> "VARINT", value |-> 1]>> ELSE <<>>

Packings == {meta_buf} \cup {module_buf(s, d, newer) :
                               s \in ImageSizes, d \in Deviations, newer \in BOOLEAN}

(***************************************************************************)
(* The camera.                                                             *)
(***************************************************************************)
CameraPrepare(n) ==
  /\ pc = "camera"
  /\ LET meta_size == Camera!metadata__get_packed_size(new_meta)
         bytes == ((IMAGE_SIZE + WORD + meta_size) * n) % UINT32
     IN  size' = bytes /\ batch_size' = bytes
  /\ num_images' = n
  /\ blocks' = <<>> /\ filled' = 0 /\ pc' = "fill"
  /\ UNCHANGED upload

\* i < data.num_images compares as size_t, so that a negative number is a large one.
ImagesLeft == num_images < 0 \/ Len(blocks) < num_images

(***************************************************************************)
(* The next block ends within the segment, and its image, the last of the  *)
(* three writes, begins at an offset that an int can hold: a larger one is *)
(* negative, and points to somewhere before the segment.                   *)
(***************************************************************************)
InSegment(block) ==
  /\ End(block) <= size
  /\ block.start + WORD + Len(block.metadata) < UINT32 \div 2

NextImage == NewBlock(Len(meta_buf), meta_buf, IMAGE_SIZE)

CameraWrites ==
  /\ pc = "fill" /\ ImagesLeft /\ InSegment(NextImage)
  /\ Write(NextImage)
  /\ UNCHANGED <<pc, message, size, upload>>

\* A write outside the segment kills the camera...
CameraOverruns ==
  /\ pc = "fill" /\ ImagesLeft /\ ~InSegment(NextImage)
  /\ pc' = "crashed"
  /\ UNCHANGED <<message, segment, upload>>

\* ... or hits something else, and fread only fails where it cannot write. The camera goes on to
\* the end of its loop and sends; offsets that have come round overwrite all but some blocks.
CameraStrays ==
  /\ pc = "fill" /\ ImagesLeft /\ ~InSegment(NextImage) /\ num_images >= 0
  /\ pc' = "queued"
  /\ \E k \in 0 .. Len(blocks) :
       blocks' = SubSeq(blocks, 1, k) /\ filled' = IF k = 0 THEN 0 ELSE End(blocks[k])
  /\ UNCHANGED <<message, size, upload>>

CameraSends ==
  /\ pc = "fill" /\ ~ImagesLeft
  /\ pc' = "queued"
  /\ UNCHANGED <<message, segment, upload>>

\* msgget or msgsnd fails, and nobody will ever know of the segment.
CameraGivesUp ==
  /\ pc = "fill" /\ ~ImagesLeft
  /\ pc' = "crashed"
  /\ UNCHANGED <<message, segment, upload>>

(***************************************************************************)
(* A module writes a segment of its own and describes it in the batch that *)
(* it returns.                                                             *)
(***************************************************************************)
ModuleStarts ==
  /\ pc = "queued"
  /\ pc' = "module" /\ blocks' = <<>> /\ filled' = 0 /\ size' = 0
  /\ UNCHANGED <<message, upload>>

ModuleWrites(image_size, wrong, wrong_word, newer) ==
  /\ pc = "module" /\ Len(blocks) < MaxImages
  /\ LET buf == module_buf(image_size, wrong, newer) IN
     Write(NewBlock(Len(buf) + wrong_word, buf, image_size))
  /\ UNCHANGED <<pc, message, size, upload>>

ModuleReturns(wrong_count, wrong_bytes) ==
  /\ pc = "module"
  /\ pc' = "queued" /\ size' = filled
  /\ num_images' = Len(blocks) + wrong_count
  /\ batch_size' = (filled + wrong_bytes) % UINT32
  /\ UNCHANGED <<blocks, filled, upload>>

(***************************************************************************)
(* upload(): data is the segment, num and len are in the message.          *)
(***************************************************************************)
StartUpload ==
  /\ pc = "queued"
  /\ pc' = "upload" /\ offset' = 0 /\ image_index' = 0 /\ ring' = <<>>
  /\ UNCHANGED <<message, segment>>

\* What may be read as a size at an offset.
WordAt(at) ==
  IF \E k \in DOMAIN blocks : blocks[k].start = at
  THEN {blocks[k].meta_size % UINT32 : k \in {j \in DOMAIN blocks : blocks[j].start = at}}
  ELSE Garbage

\* The sizes that metadata__unpack may find in so many bytes; none if it returns NULL. Bytes
\* that are not the metadata of a block may happen to be a message.
SizesAt(at, meta_size) ==
  LET here == {k \in DOMAIN blocks : /\ blocks[k].start + WORD = at
                                     /\ Len(blocks[k].metadata) = meta_size}
  IN  IF here = {} THEN Garbage
      ELSE UNION {{m.size : m \in metadata__unpack(blocks[k].metadata)} : k \in here}

\* Mutants: either bound keeps the loop going; only the bytes bound it; the last image is left.
LoopCondition_Either == image_index < num_images \/ offset < batch_size
LoopCondition_Bytes == offset < batch_size
LoopCondition_OneLess == image_index + 1 < num_images /\ offset < batch_size

LoopCondition == image_index < num_images /\ offset < batch_size

\* Mutant: the offset is wider than 32 bits.
UploadImage_Wider ==
  /\ pc = "upload" /\ LoopCondition
  /\ \E meta_size \in WordAt(offset) :
       \E bytes \in SizesAt((offset + WORD) % UINT32, meta_size) :
         LET end == offset + WORD + meta_size + bytes IN
         /\ offset' = end
         /\ ring' = Append(ring, [from |-> offset, to |-> end])
  /\ image_index' = image_index + 1
  /\ UNCHANGED <<pc, message, segment>>

UploadImage ==
  /\ pc = "upload" /\ LoopCondition
  /\ \E meta_size \in WordAt(offset) :
       \E bytes \in SizesAt((offset + WORD) % UINT32, meta_size) :
         LET end == (offset + WORD + meta_size + bytes) % UINT32 IN
         /\ offset' = end
         /\ ring' = Append(ring, [from |-> offset, to |-> end])
  /\ image_index' = image_index + 1
  /\ UNCHANGED <<pc, message, segment>>

\* Something outside the segment is read, by upload or by vmem_ring_write, or metadata is NULL.
UploadCrashes ==
  /\ pc = "upload" /\ LoopCondition
  /\ \/ offset + WORD > size
     \/ \E meta_size \in WordAt(offset) :
          LET at == (offset + WORD) % UINT32 IN
          \/ at + meta_size > size
          \/ ~\E k \in DOMAIN blocks : /\ blocks[k].start = offset
                                       /\ Len(blocks[k].metadata) = meta_size
          \/ SizesAt(at, meta_size) = {}
          \/ \E bytes \in SizesAt(at, meta_size) :
               LET end == (offset + WORD + meta_size + bytes) % UINT32 IN
               end < offset \/ end > size
  /\ pc' = "crashed"
  /\ UNCHANGED <<message, segment, upload>>

UploadDone ==
  /\ pc = "upload" /\ ~LoopCondition
  /\ pc' = "done"
  /\ UNCHANGED <<message, segment, upload>>

\* The segment is removed, or the process that has been killed starts again: the next batch.
NextBatch ==
  /\ pc \in {"done", "crashed"}
  /\ pc' = "camera" /\ num_images' = 0 /\ batch_size' = 0
  /\ size' = 0 /\ blocks' = <<>> /\ filled' = 0
  /\ offset' = 0 /\ image_index' = 0 /\ ring' = <<>>

CameraStep ==
  \/ \E n \in Counts : CameraPrepare(n)
  \/ CameraWrites \/ CameraOverruns \/ CameraStrays \/ CameraSends \/ CameraGivesUp

ModuleStep ==
  \/ ModuleStarts
  \/ \E s \in ImageSizes, d, w \in Deviations, newer \in BOOLEAN : ModuleWrites(s, d, w, newer)
  \/ \E c, b \in Deviations : ModuleReturns(c, b)

UploadStep == StartUpload \/ UploadImage \/ UploadCrashes \/ UploadDone

Next == CameraStep \/ ModuleStep \/ UploadStep \/ NextBatch

Spec == Init /\ [][Next]_vars

(***************************************************************************)
(* Properties                                                              *)
(***************************************************************************)
\* Counters and offsets stay in their C types, and no more images are written to the ring than
\* the message says.
TypeOK ==
  /\ pc \in Stages
  /\ num_images \in Int /\ batch_size \in 0 .. UINT32 - 1
  /\ size \in Nat /\ filled \in Nat
  /\ offset \in 0 .. UINT32 - 1
  /\ image_index \in Nat /\ Len(ring) = image_index
  /\ pc = "upload" => image_index = 0 \/ image_index <= num_images

\* The word before the metadata is its length, and the pipeline reads from the metadata the size
\* of the image that follows.
Truthful(block) ==
  /\ block.meta_size = Len(block.metadata)
  /\ {m.size : m \in metadata__unpack(block.metadata)} = {block.image_size}

\* A segment of truthful blocks that fit into 32 bits, and a message of which the number of
\* images or the number of bytes is not too large.
WellFormed ==
  /\ \A k \in DOMAIN blocks : Truthful(blocks[k])
  /\ filled < UINT32 /\ filled <= size
  /\ num_images <= Len(blocks) \/ batch_size <= filled

Uploaded == pc \in {"upload", "done"}

\* vmem_upload_local.c:20: one count that is right is enough. As long as the sizes in the segment
\* are truthful and one of the two bounds of the loop does not exceed what is there, the walk
\* never loses its step: each element of the ring is one whole block, in order.
FramesAreImages ==
  Uploaded /\ WellFormed =>
    /\ image_index <= Len(blocks)
    /\ \A k \in 1 .. image_index : ring[k] = [from |-> blocks[k].start, to |-> End(blocks[k])]

\* And if both are right, the loop ends with the last image, and not before.
AllImagesUploaded ==
  pc = "done" /\ WellFormed /\ num_images = Len(blocks) /\ batch_size = filled =>
    image_index = Len(blocks)

\* DIPP is never killed by such a batch.
UploadSurvives == [][UploadCrashes => ~WellFormed]_vars

\* camera_control.c:66: what a camera packs with its copy of the schema, the pipeline reads with
\* its own, and what it has filled the segment with is what its message says, as long as the
\* last of its images begins at less than 2^31 bytes.
CameraIsWellFormed ==
  [][pc = "fill" /\ pc' = "queued"
       /\ (IMAGE_SIZE + WORD + Len(meta_buf)) * num_images - IMAGE_SIZE < UINT32 \div 2
     => WellFormed' /\ num_images' = Len(blocks') /\ batch_size' = filled']_vars
=============================================================================
