-------------------------- MODULE ImageFramingProofs --------------------------
(***************************************************************************)
(* Proofs about ImageFraming, for images and metadata of any size, any     *)
(* number of them, and whatever a module gets wrong: upload never writes   *)
(* more images than the message says, and while the sizes in the segment   *)
(* are truthful and one of the two bounds of its loop holds, each image it *)
(* writes is one block, the walk ends with the last block, and nothing is  *)
(* read outside of the segment.                                            *)
(*                                                                         *)
(* What a camera packs with its copy of the schema the pipeline unpacks    *)
(* with its own (MessageProofs), so that a segment which a camera fills is *)
(* such a segment, if the last image begins at an offset that an int holds.*)
(***************************************************************************)
EXTENDS ImageFraming, MessageProofs, TLAPS

Block == [start : Nat, meta_size : Int, metadata : Packings, image_size : Nat]

Extent == [from : Int, to : Int]

\* Where the k-th block starts, or would start if there were one more.
Place(k) == IF k = Len(blocks) + 1 THEN filled ELSE blocks[k].start

(***************************************************************************)
(* The blocks lie one after the other without a gap.                       *)
(***************************************************************************)
BlocksInv ==
  /\ blocks \in Seq(Block) /\ filled \in Nat
  /\ Place(1) = 0
  /\ \A k \in 1 .. Len(blocks) : Place(k + 1) = End(blocks[k]) /\ End(blocks[k]) <= filled
  /\ \A j, k \in 1 .. Len(blocks) : j < k => End(blocks[j]) <= blocks[k].start

(***************************************************************************)
(* Before the k-th turn of its loop upload is at the k-th block.           *)
(***************************************************************************)
WalkInv ==
  /\ image_index <= Len(blocks)
  /\ offset = Place(image_index + 1)
  /\ \A k \in 1 .. image_index : ring[k] = [from |-> blocks[k].start, to |-> End(blocks[k])]

IInv ==
  /\ TypeOK
  /\ ring \in Seq(Extent)
  /\ BlocksInv
  /\ Uploaded /\ WellFormed => WalkInv
  /\ pc = "done" => ~LoopCondition

(***************************************************************************)
(* Arithmetic modulo UINT32.                                               *)
(***************************************************************************)
LEMMA Modulo ==
  /\ \A x \in Int : x % UINT32 \in 0 .. UINT32 - 1
  /\ \A x \in 0 .. UINT32 - 1 : x % UINT32 = x
BY FramingAssumption

(***************************************************************************)
(* The two copies of the schema agree, so that MetadataRoundTrip holds for *)
(* a camera that packs and a pipeline that unpacks.                        *)
(***************************************************************************)
LEMMA TablesAgree == Camera!metadata__descriptor = metadata__descriptor
BY Zenon DEF Camera!metadata__descriptor, metadata__descriptor,
   Camera!metadata__field_descriptors, metadata__field_descriptors,
   Camera!metadata__number_ranges, metadata__number_ranges, Camera!metadata__init, metadata__init,
   Camera!metadata_item__descriptor, metadata_item__descriptor,
   Camera!metadata_item__field_descriptors, metadata_item__field_descriptors,
   Camera!metadata_item__number_ranges, metadata_item__number_ranges,
   Camera!metadata_item__init, metadata_item__init, Camera!NOT_SET,
   Camera!Descriptor, Descriptor, Camera!Field, Field, Camera!Repeated, Repeated, Camera!OneOf, OneOf

LEMMA PackAgrees ==
  ASSUME NEW descriptor, NEW m
  PROVE  Camera!Pack(descriptor, m) = Pack(descriptor, m)
BY Zenon DEF Camera!Pack, Pack, Camera!PackMember, PackMember, Camera!PackItem, PackItem,
   Camera!PackField, PackField, Camera!Record, Record, Camera!WireType, WireType,
   Camera!FlattenSeq, FlattenSeq

LEMMA ReadAsPacked ==
  ASSUME NEW m \in Metadata(Int)
  PROVE  /\ Camera!metadata__pack(m) \in Seq(MetadataRecords(Int))
         /\ Unpack(metadata__descriptor, Camera!metadata__pack(m)) = {m}
<1>1. Camera!metadata__pack(m) = Pack(metadata__descriptor, m)
  BY TablesAgree, PackAgrees DEF Camera!metadata__pack
<1> QED
  BY <1>1, MetadataRoundTrip

\* The camera's metadata, and a module's with or without the field 10 of a newer schema, are read
\* as they were packed.
LEMMA CameraCodec ==
  Len(meta_buf) \in Nat /\ metadata__unpack(meta_buf) = {new_meta}
<1>1. new_meta \in Metadata(Int)
  <2>1. PICK half : half = [metadata__init EXCEPT !.size = IMAGE_SIZE, !.width = 2464, !.height = 2056]
    OBVIOUS
  <2>2. PICK m : m = [half EXCEPT !.channels = 1, !.bits_pixel = 12, !.camera = 1]
    OBVIOUS
  <2>3. DOMAIN half = DOMAIN metadata__init
    BY <2>1 DEF metadata__init
  <2>4. IsFunction(m) /\ DOMAIN m = DOMAIN metadata__init
    BY <2>2, <2>3 DEF metadata__init, IsFunction
  <2>5. /\ half.size = IMAGE_SIZE /\ half.height = 2056 /\ half.width = 2464 /\ half.timestamp = 0
        /\ half.obid = 0 /\ half.items = <<>>
    BY <2>1 DEF metadata__init
  <2>6. /\ m.size = half.size /\ m.height = half.height /\ m.width = half.width
        /\ m.channels = 1 /\ m.timestamp = half.timestamp /\ m.bits_pixel = 12
        /\ m.obid = half.obid /\ m.camera = 1 /\ m.items = half.items
    BY <2>2, <2>3 DEF metadata__init
  <2>7. new_meta = [[metadata__init EXCEPT !.size = IMAGE_SIZE, !.width = 2464, !.height = 2056]
                      EXCEPT !.channels = 1, !.bits_pixel = 12, !.camera = 1]
    BY DEF new_meta
  <2>8. new_meta = m
    BY <2>1, <2>2, <2>7
  <2>9. <<>> \in Seq(Items(Int))
    OBVIOUS
  <2>10. IMAGE_SIZE \in Int /\ 2056 \in Int /\ 2464 \in Int /\ 1 \in Int /\ 0 \in Int /\ 12 \in Int
    BY FramingAssumption
  <2>11. m \in Metadata(Int)
    <3>1. PICK items \in Seq(Items(Int)) : items = <<>>
      BY <2>9
    <3>2. /\ m.size = IMAGE_SIZE /\ m.height = 2056 /\ m.width = 2464 /\ m.channels = 1
          /\ m.timestamp = 0 /\ m.bits_pixel = 12 /\ m.obid = 0 /\ m.camera = 1 /\ m.items = items
      BY <2>5, <2>6, <3>1
    <3>3. /\ m.size \in Int /\ m.height \in Int /\ m.width \in Int /\ m.channels \in Int
          /\ m.timestamp \in Int /\ m.bits_pixel \in Int /\ m.obid \in Int /\ m.camera \in Int
      BY <2>10, <3>2
    <3>4. m.items \in Seq(Items(Int))
      BY <3>1, <3>2
    <3> QED
      BY <2>4, <3>3, <3>4, MetadataFields
  <2> QED
    BY <2>8, <2>11
<1>2. meta_buf \in Seq(MetadataRecords(Int)) /\ Unpack(metadata__descriptor, meta_buf) = {new_meta}
  BY <1>1, ReadAsPacked DEF meta_buf
<1>3. \A R : \A wire \in Seq(R) : Len(wire) \in Nat
  OBVIOUS
<1>4. Len(meta_buf) \in Nat
  <2>1. PICK wire : wire = meta_buf
    OBVIOUS
  <2>2. wire \in Seq(MetadataRecords(Int))
    BY <1>2, <2>1
  <2> QED
    BY <1>3, <2>1, <2>2
<1>5. metadata__unpack(meta_buf) = {new_meta}
  BY <1>2 DEF metadata__unpack
<1> QED
  BY <1>4, <1>5

LEMMA ModuleCodec ==
  ASSUME NEW image_size \in Int, NEW wrong \in Int, NEW newer \in BOOLEAN
  PROVE  /\ Len(module_buf(image_size, wrong, newer)) \in Nat
         /\ \A m \in metadata__unpack(module_buf(image_size, wrong, newer)) : m.size = image_size + wrong
<1> DEFINE item == [key |-> 1, value_case |-> 3, value |-> 1]
           m == [metadata__init EXCEPT !.size = image_size + wrong, !.obid = 1, !.items = <<item>>]
           wire == Camera!metadata__pack(m)
           record == [number |-> 10, wire_type |-> "VARINT", value |-> 1]
           R == MetadataRecords(Int)
<1>1. m \in Metadata(Int) /\ m.size = image_size + wrong
  <2>1. item \in Items(Int)
    BY DEF Items, CONFIG_PARAMETER__VALUE
  <2> HIDE DEF item
  <2>2. <<item>> \in Seq(Items(Int))
    BY <2>1
  <2>3. PICK items : items = <<item>>
    OBVIOUS
  <2>4. PICK sum \in Int : sum = image_size + wrong
    OBVIOUS
  <2>5. m = [metadata__init EXCEPT !.size = sum, !.obid = 1, !.items = items]
    BY <2>3, <2>4
  <2> HIDE DEF m
  <2>6. IsFunction(m) /\ DOMAIN m = DOMAIN metadata__init
    BY <2>5 DEF metadata__init, IsFunction
  <2>7. /\ m.size = sum /\ m.height = 0 /\ m.width = 0 /\ m.channels = 0 /\ m.timestamp = 0
        /\ m.bits_pixel = 0 /\ m.obid = 1 /\ m.camera = 0 /\ m.items = items
    BY <2>5 DEF metadata__init
  <2>8. 1 \in Int /\ 0 \in Int
    OBVIOUS
  <2> QED
    BY <2>2, <2>3, <2>4, <2>6, <2>7, <2>8, MetadataFields
<1>2. module_buf(image_size, wrong, newer) = wire \o (IF newer THEN <<record>> ELSE <<>>)
  BY DEF module_buf
<1> HIDE DEF m
<1>3. wire \in Seq(R) /\ Unpack(metadata__descriptor, wire) = {m}
  BY <1>1, ReadAsPacked
<1>4. record \in R
  BY DEF MetadataRecords, Records, WireTypes
<1>5. FieldOf(metadata__descriptor, record) = {}
  <2>1. 9 \in Nat /\ 10 \notin 1 .. 9 /\ record.number = 10 /\ record.number \in Int
    OBVIOUS
  <2> HIDE DEF record
  <2> QED
    BY <2>1, MetadataTable, FieldOfNumber
<1> HIDE DEF wire, record, R
<1>6. With(wire, record) \in Seq(R) /\ Unpack(metadata__descriptor, With(wire, record)) = {m}
  BY <1>3, <1>4, <1>5, UnpackUnknown
<1>7. module_buf(image_size, wrong, newer) = wire \/ module_buf(image_size, wrong, newer) = With(wire, record)
  <2>1. wire \o <<>> = wire /\ wire \o <<record>> = With(wire, record)
    BY <1>3, <1>4, WithRecord
  <2> QED
    BY <1>2, <2>1
<1> QED
  BY <1>1, <1>3, <1>6, <1>7 DEF metadata__unpack

\* Packing gives a sequence of bytes, and unpacking them the field size, which is a number.
LEMMA Codec ==
  /\ Camera!metadata__get_packed_size(new_meta) = Len(meta_buf) /\ Len(meta_buf) \in Nat
  /\ \A metadata \in Packings :
       Len(metadata) \in Nat /\ \A m \in metadata__unpack(metadata) : m.size \in Int
<1>1. Camera!metadata__get_packed_size(new_meta) = Len(meta_buf)
  BY DEF Camera!metadata__get_packed_size, Camera!PackedSize, meta_buf, Camera!metadata__pack
<1>2. ASSUME NEW metadata \in Packings
      PROVE  Len(metadata) \in Nat /\ \A m \in metadata__unpack(metadata) : m.size \in Int
  <2>1. CASE metadata = meta_buf
    <3>1. new_meta.size = IMAGE_SIZE
      BY DEF new_meta, metadata__init
    <3> QED
      BY <2>1, <3>1, CameraCodec, FramingAssumption
  <2>2. ASSUME NEW s \in ImageSizes, NEW d \in Deviations, NEW newer \in BOOLEAN,
               metadata = module_buf(s, d, newer)
        PROVE  Len(metadata) \in Nat /\ \A m \in metadata__unpack(metadata) : m.size \in Int
    <3>1. s \in Int /\ d \in Int /\ s + d \in Int
      BY FramingAssumption
    <3> QED
      BY <2>2, <3>1, ModuleCodec
  <2> QED
    BY <2>1, <2>2 DEF Packings
<1> QED
  BY <1>1, <1>2, CameraCodec

LEMMA BlockSize ==
  ASSUME NEW block \in Block
  PROVE  /\ Len(block.metadata) \in Nat /\ block.start \in Nat /\ block.image_size \in Nat
         /\ End(block) \in Nat
         /\ block.start + WORD <= End(block)
         /\ block.start + WORD + Len(block.metadata) <= End(block)
         /\ block.start < End(block)
BY FramingAssumption, Codec DEF Block, End

(***************************************************************************)
(* A block that is written behind the others.                              *)
(***************************************************************************)
LEMMA WriteKeepsBlocks ==
  ASSUME BlocksInv, NEW meta_size \in Int, NEW metadata \in Packings, NEW image_size \in Nat,
         Write(NewBlock(meta_size, metadata, image_size))
  PROVE  BlocksInv'
<1> DEFINE block == NewBlock(meta_size, metadata, image_size)
<1> PICK n \in Nat : n = Len(blocks)
  BY DEF BlocksInv
<1>1. block \in Block /\ block.start = filled
  BY DEF NewBlock, Block, BlocksInv
<1>2. /\ blocks' = Append(blocks, block) /\ filled' = End(block)
      /\ blocks \in Seq(Block) /\ filled \in Nat
  BY DEF Write, BlocksInv
<1> HIDE DEF block
<1>3. /\ blocks' \in Seq(Block) /\ Len(blocks') = n + 1 /\ blocks'[n + 1] = block
      /\ \A k \in 1 .. n : blocks'[k] = blocks[k] /\ blocks[k] \in Block
  BY <1>1, <1>2
<1>4. End(block) \in Nat /\ filled < End(block)
  BY <1>1, BlockSize
<1>5. \A k \in 1 .. n + 1 : Place(k)' = Place(k)
  BY <1>1, <1>2, <1>3 DEF Place
<1>6. Place(n + 2)' = End(block)
  BY <1>2, <1>3 DEF Place
<1>7. \A k \in 1 .. n : /\ Place(k + 1) = End(blocks[k]) /\ End(blocks[k]) <= filled
                        /\ End(blocks[k]) \in Nat
  BY <1>3, BlockSize DEF BlocksInv
<1>8. ASSUME NEW k \in 1 .. n + 1
      PROVE  Place(k + 1)' = End(blocks'[k]) /\ End(blocks'[k]) <= filled'
  <2>1. CASE k \in 1 .. n
    BY <1>2, <1>3, <1>4, <1>5, <1>7, <2>1
  <2>2. CASE k = n + 1
    BY <1>2, <1>3, <1>4, <1>6, <2>2
  <2> QED
    BY <1>2, <2>1, <2>2
<1>9. ASSUME NEW j \in 1 .. n + 1, NEW k \in 1 .. n + 1, j < k
      PROVE  End(blocks'[j]) <= blocks'[k].start
  <2>1. j \in 1 .. n
    BY <1>2, <1>9
  <2>2. CASE k \in 1 .. n
    BY <1>3, <1>9, <2>1, <2>2 DEF BlocksInv
  <2>3. CASE k = n + 1
    BY <1>1, <1>3, <1>7, <2>1, <2>3
  <2> QED
    BY <1>2, <2>2, <2>3
<1>10. Place(1)' = 0
  BY <1>2, <1>5 DEF BlocksInv
<1> QED
  BY <1>2, <1>3, <1>4, <1>8, <1>9, <1>10 DEF BlocksInv

LEMMA NoBlocks ==
  ASSUME blocks' = <<>>, filled' = 0
  PROVE  BlocksInv'
BY DEF BlocksInv, Place

\* The first blocks of a segment.
LEMMA PrefixKeepsBlocks ==
  ASSUME BlocksInv, NEW k \in 0 .. Len(blocks), blocks' = SubSeq(blocks, 1, k),
         filled' = IF k = 0 THEN 0 ELSE End(blocks[k])
  PROVE  BlocksInv'
<1>1. CASE k = 0
  <2>1. blocks' = <<>> /\ filled' = 0
    BY <1>1 DEF BlocksInv
  <2> QED
    BY <2>1, NoBlocks
<1>2. CASE k # 0
  <2> PICK n \in Nat : n = Len(blocks)
    BY DEF BlocksInv
  <2>1. k \in 1 .. n /\ filled' = End(blocks[k])
    BY <1>2
  <2>2. /\ blocks' \in Seq(Block) /\ Len(blocks') = k
        /\ \A j \in 1 .. k : blocks'[j] = blocks[j] /\ blocks[j] \in Block /\ j \in 1 .. n
    BY <2>1 DEF BlocksInv
  <2>3. filled' \in Nat
    BY <2>1, <2>2, BlockSize
  <2>4. \A j \in 1 .. k : Place(j)' = Place(j)
    BY <2>1, <2>2 DEF Place
  <2>5. Place(k + 1)' = End(blocks[k])
    BY <2>1, <2>2 DEF Place
  <2>6. Place(1)' = 0
    BY <2>1, <2>4 DEF BlocksInv
  <2>7. ASSUME NEW i \in 1 .. k, NEW j \in 1 .. k, i < j
        PROVE  End(blocks'[i]) <= blocks'[j].start
    BY <2>2, <2>7 DEF BlocksInv
  <2>8. ASSUME NEW j \in 1 .. k
        PROVE  Place(j + 1)' = End(blocks'[j]) /\ End(blocks'[j]) <= filled'
    <3>1. CASE j = k
      <4>1. End(blocks[k]) \in Nat
        BY <2>2, BlockSize
      <4> QED
        BY <2>1, <2>2, <2>5, <3>1, <4>1
    <3>2. CASE j # k
      <4>1. j < k /\ j + 1 \in 1 .. k
        BY <2>1, <3>2
      <4>2. Place(j + 1)' = End(blocks'[j])
        BY <2>2, <2>4, <4>1 DEF BlocksInv
      <4>3. /\ End(blocks[j]) <= blocks[k].start /\ blocks[k].start < End(blocks[k])
            /\ End(blocks[j]) \in Nat /\ blocks[k].start \in Nat /\ End(blocks[k]) \in Nat
        BY <2>1, <2>2, <4>1, BlockSize DEF BlocksInv
      <4>4. End(blocks'[j]) <= filled'
        BY <2>1, <2>2, <4>3
      <4> QED
        BY <4>2, <4>4
    <3> QED
      BY <3>1, <3>2
  <2> QED
    BY <2>2, <2>3, <2>6, <2>7, <2>8 DEF BlocksInv
<1> QED
  BY <1>1, <1>2

LEMMA SameBlocks ==
  ASSUME BlocksInv, UNCHANGED <<blocks, filled>>
  PROVE  BlocksInv'
BY DEF BlocksInv, Place

\* WellFormed and the invariants about blocks speak of the message and the segment only.
LEMMA SameSegment ==
  ASSUME UNCHANGED <<message, segment>>
  PROVE  WellFormed' = WellFormed
BY DEF WellFormed, Truthful, message, segment

LEMMA SamePlaces ==
  ASSUME UNCHANGED <<segment, upload>>, WalkInv
  PROVE  WalkInv'
BY DEF WalkInv, Place, segment, upload

(***************************************************************************)
(* What the loop of upload finds at the next block.                        *)
(***************************************************************************)
LEMMA NextBlock ==
  ASSUME IInv, pc = "upload", LoopCondition, WellFormed
  PROVE  \E k \in DOMAIN blocks :
           /\ k = image_index + 1 /\ k <= Len(blocks) /\ blocks[k] \in Block
           /\ offset = blocks[k].start
           /\ WordAt(offset) = {Len(blocks[k].metadata)}
           /\ (offset + WORD) % UINT32 = offset + WORD
           /\ SizesAt(offset + WORD, Len(blocks[k].metadata)) = {blocks[k].image_size}
           /\ End(blocks[k]) % UINT32 = End(blocks[k])
           /\ Place(k + 1) = End(blocks[k])
           /\ End(blocks[k]) <= filled /\ filled <= size
<1> PICK n \in Nat : n = Len(blocks) /\ DOMAIN blocks = 1 .. n
  BY DEF IInv, BlocksInv
<1>1. WalkInv
  BY DEF IInv, Uploaded
<1>2. /\ image_index \in Nat /\ num_images \in Int /\ batch_size \in Int /\ offset \in Int
      /\ size \in Nat /\ filled \in Nat /\ UINT32 \in Nat /\ WORD \in Nat \ {0}
  BY FramingAssumption DEF IInv, TypeOK
<1>3. image_index # n
  <2>1. ASSUME image_index = n PROVE offset = filled
    BY <1>1, <2>1 DEF WalkInv, Place
  <2> QED
    BY <1>2, <2>1 DEF LoopCondition, WellFormed
<1>4. image_index < n
  BY <1>1, <1>2, <1>3 DEF WalkInv
<1> DEFINE k == image_index + 1
           block == blocks[k]
<1>5. k \in 1 .. n /\ k # n + 1
  BY <1>2, <1>4
<1>6. block \in Block
  BY <1>5 DEF IInv, BlocksInv
<1>7. offset = block.start
  BY <1>1, <1>5 DEF WalkInv, Place
<1>8. Place(k + 1) = End(block) /\ End(block) <= filled
  BY <1>5 DEF IInv, BlocksInv
<1>9. /\ Truthful(block) /\ filled < UINT32 /\ filled <= size
  BY <1>5 DEF WellFormed
<1>10. ASSUME NEW j \in 1 .. n, j # k PROVE blocks[j].start # offset /\ blocks[j].start \in Nat
  <2>1. blocks[j] \in Block
    BY DEF IInv, BlocksInv
  <2>2. CASE j < k
    <3>1. End(blocks[j]) <= block.start
      BY <1>5, <2>2 DEF IInv, BlocksInv
    <3> QED
      BY <1>6, <1>7, <2>1, <3>1, BlockSize
  <2>3. CASE k < j
    <3>1. End(block) <= blocks[j].start
      BY <1>5, <2>3 DEF IInv, BlocksInv
    <3> QED
      BY <1>6, <1>7, <2>1, <3>1, BlockSize
  <2> QED
    BY <1>2, <1>10, <2>2, <2>3
<1> HIDE DEF k, block
<1>11. block = blocks[k] /\ k = image_index + 1
  BY DEF block, k
<1>12. /\ Len(block.metadata) \in 0 .. UINT32 - 1
       /\ offset + WORD \in 0 .. UINT32 - 1
       /\ End(block) \in 0 .. UINT32 - 1
  <2>1. /\ block.start \in Nat /\ Len(block.metadata) \in Nat /\ End(block) \in Nat
        /\ block.start + WORD + Len(block.metadata) <= End(block)
    BY <1>6, BlockSize
  <2>2. End(block) < UINT32
    BY <1>2, <1>8, <1>9, <2>1
  <2>3. offset = block.start /\ UINT32 \in Nat /\ WORD \in Nat
    BY <1>7, FramingAssumption
  <2>4. \A start, length, end, word, limit \in Nat :
          start + word + length <= end /\ end < limit =>
            length \in 0 .. limit - 1 /\ start + word \in 0 .. limit - 1 /\ end \in 0 .. limit - 1
    OBVIOUS
  <2> QED
    BY <2>1, <2>2, <2>3, <2>4
<1>13. WordAt(offset) = {Len(block.metadata)}
  <2>1. {j \in DOMAIN blocks : blocks[j].start = offset} = {k}
    BY <1>5, <1>7, <1>10, <1>11
  <2>2. block.meta_size % UINT32 = Len(block.metadata)
    BY <1>9, <1>12, Modulo DEF Truthful
  <2>3. \E j \in DOMAIN blocks : blocks[j].start = offset
    BY <1>5, <1>7, <1>11
  <2> QED
    BY <1>11, <2>1, <2>2, <2>3 DEF WordAt
<1>14. SizesAt(offset + WORD, Len(block.metadata)) = {block.image_size}
  <2> DEFINE here == {j \in DOMAIN blocks : /\ blocks[j].start + WORD = offset + WORD
                                            /\ Len(blocks[j].metadata) = Len(block.metadata)}
  <2>1. ASSUME NEW j \in DOMAIN blocks, j # k PROVE blocks[j].start + WORD # offset + WORD
    BY <1>2, <1>10, <2>1
  <2>2. here = {k}
    BY <1>5, <1>7, <1>11, <2>1
  <2>3. {m.size : m \in metadata__unpack(blocks[k].metadata)} = {block.image_size}
    BY <1>9, <1>11 DEF Truthful
  <2>4. SizesAt(offset + WORD, Len(block.metadata)) =
          UNION {{m.size : m \in metadata__unpack(blocks[j].metadata)} : j \in here}
    BY <2>2 DEF SizesAt
  <2> QED
    BY <2>2, <2>3, <2>4
<1>15. /\ (offset + WORD) % UINT32 = offset + WORD
       /\ End(block) % UINT32 = End(block)
  BY <1>12, Modulo
<1>16. k \in DOMAIN blocks /\ k <= Len(blocks)
  BY <1>5
<1> QED
  BY <1>6, <1>7, <1>8, <1>9, <1>11, <1>13, <1>14, <1>15, <1>16, Zenon

\* Whatever is read as a size is a number.
LEMMA ReadsNumbers ==
  ASSUME BlocksInv, NEW at, NEW meta_size
  PROVE  WordAt(at) \subseteq Int /\ SizesAt(at, meta_size) \subseteq Int
<1>1. Garbage \subseteq Int
  BY FramingAssumption
<1>2. \A k \in DOMAIN blocks : blocks[k] \in Block
  BY DEF BlocksInv
<1>3. \A k \in DOMAIN blocks : blocks[k].meta_size % UINT32 \in Int
  BY <1>2, Modulo DEF Block
<1>4. \A k \in DOMAIN blocks : \A m \in metadata__unpack(blocks[k].metadata) : m.size \in Int
  BY <1>2, Codec DEF Block
<1>5. WordAt(at) \subseteq Int
  BY <1>1, <1>3 DEF WordAt
<1>6. SizesAt(at, meta_size) \subseteq Int
  <2> DEFINE here == {k \in DOMAIN blocks : /\ blocks[k].start + WORD = at
                                            /\ Len(blocks[k].metadata) = meta_size}
  <2>1. CASE here = {}
    BY <1>1, <2>1 DEF SizesAt
  <2>2. CASE here # {}
    <3>1. SizesAt(at, meta_size) =
            UNION {{m.size : m \in metadata__unpack(blocks[k].metadata)} : k \in here}
      BY <2>2 DEF SizesAt
    <3>2. \A k \in here : {m.size : m \in metadata__unpack(blocks[k].metadata)} \subseteq Int
      BY <1>4
    <3> QED
      BY <3>1, <3>2
  <2> QED
    BY <2>1, <2>2
<1> QED
  BY <1>5, <1>6

LEMMA UploadImageInv ==
  ASSUME IInv, UploadImage
  PROVE  IInv'
<1>1. PICK meta_size \in WordAt(offset) :
        \E bytes \in SizesAt((offset + WORD) % UINT32, meta_size) :
          LET end == (offset + WORD + meta_size + bytes) % UINT32 IN
          offset' = end /\ ring' = Append(ring, [from |-> offset, to |-> end])
  BY DEF UploadImage
<1>2. PICK bytes \in SizesAt((offset + WORD) % UINT32, meta_size) :
        LET end == (offset + WORD + meta_size + bytes) % UINT32 IN
        offset' = end /\ ring' = Append(ring, [from |-> offset, to |-> end])
  BY <1>1
<1> DEFINE end == (offset + WORD + meta_size + bytes) % UINT32
<1>3. /\ pc = "upload" /\ pc' = "upload" /\ LoopCondition /\ image_index' = image_index + 1
      /\ UNCHANGED <<message, segment>> /\ UNCHANGED <<blocks, filled>>
      /\ offset' = end /\ ring' = Append(ring, [from |-> offset, to |-> end])
  BY <1>2 DEF UploadImage, segment
<1>4. end \in 0 .. UINT32 - 1
  <2>1. meta_size \in Int /\ bytes \in Int
    BY ReadsNumbers DEF IInv
  <2>2. offset + WORD + meta_size + bytes \in Int
    BY <2>1, FramingAssumption DEF IInv, TypeOK
  <2> QED
    BY <2>2, Modulo
<1>5. BlocksInv'
  BY <1>3, SameBlocks DEF IInv
<1> HIDE DEF end
<1>6. /\ ring \in Seq(Extent) /\ Len(ring) = image_index /\ image_index \in Nat
      /\ [from |-> offset, to |-> end] \in Extent
  BY <1>4, FramingAssumption DEF IInv, TypeOK, Extent
<1>7. /\ ring' \in Seq(Extent) /\ Len(ring') = image_index'
      /\ ring'[image_index + 1] = [from |-> offset, to |-> end]
      /\ \A k \in 1 .. image_index : ring'[k] = ring[k]
  BY <1>3, <1>6
<1>8. TypeOK'
  BY <1>3, <1>4, <1>6, <1>7 DEF IInv, TypeOK, LoopCondition, message, segment
<1>9. ASSUME WellFormed' PROVE WalkInv'
  <2>1. WellFormed /\ WalkInv
    BY <1>3, <1>9, SameSegment DEF IInv, Uploaded
  <2>2. PICK k \in DOMAIN blocks :
           /\ k = image_index + 1 /\ k <= Len(blocks) /\ blocks[k] \in Block
           /\ offset = blocks[k].start
           /\ WordAt(offset) = {Len(blocks[k].metadata)}
           /\ (offset + WORD) % UINT32 = offset + WORD
           /\ SizesAt(offset + WORD, Len(blocks[k].metadata)) = {blocks[k].image_size}
           /\ End(blocks[k]) % UINT32 = End(blocks[k])
           /\ Place(k + 1) = End(blocks[k])
    BY <1>3, <2>1, NextBlock
  <2>3. meta_size = Len(blocks[k].metadata)
    BY <2>2
  <2>4. bytes = blocks[k].image_size
    BY <2>2, <2>3
  <2>5. end = End(blocks[k])
    BY <2>2, <2>3, <2>4 DEF end, End
  <2>6. \A i \in 1 .. k : ring'[i] = [from |-> blocks[i].start, to |-> End(blocks[i])]
    <3>1. ASSUME NEW i \in 1 .. k
          PROVE  ring'[i] = [from |-> blocks[i].start, to |-> End(blocks[i])]
      <4>1. CASE i = k
        BY <1>7, <2>2, <2>5, <4>1
      <4>2. CASE i # k
        <5>1. i \in 1 .. image_index
          BY <1>6, <2>2, <4>2
        <5> QED
          BY <1>7, <2>1, <5>1 DEF WalkInv
      <4> QED
        BY <4>1, <4>2
    <3> QED
      BY <3>1
  <2>7. k = image_index' /\ Place(k + 1)' = Place(k + 1)
    BY <1>3, <2>2 DEF Place
  <2>8. offset' = Place(image_index + 1)'
    BY <1>3, <2>2, <2>5, <2>7
  <2> QED
    BY <1>3, <2>2, <2>6, <2>7, <2>8 DEF WalkInv, End
<1> QED
  BY <1>3, <1>5, <1>7, <1>8, <1>9 DEF IInv, Uploaded

LEMMA StepInv ==
  ASSUME IInv, [Next]_vars
  PROVE  IInv'
<1> USE DEF IInv, Uploaded
<1>1. /\ pc \in Stages /\ num_images \in Int /\ batch_size \in 0 .. UINT32 - 1
      /\ size \in Nat /\ filled \in Nat /\ offset \in 0 .. UINT32 - 1 /\ image_index \in Nat
      /\ Len(ring) = image_index /\ ring \in Seq(Extent)
      /\ UINT32 \in Nat \ {0}
  BY FramingAssumption DEF TypeOK
<1>2. ASSUME NEW n \in Counts, CameraPrepare(n) PROVE IInv'
  <2>1. BlocksInv'
    BY <1>2, NoBlocks DEF CameraPrepare
  <2>2. \A x \in Int : x % UINT32 \in 0 .. UINT32 - 1 /\ x % UINT32 \in Nat
    BY Modulo
  <2> DEFINE meta_size == Camera!metadata__get_packed_size(new_meta)
           bytes == (IMAGE_SIZE + WORD + meta_size) * n
  <2>3. bytes \in Int /\ n \in Int
    <3>1. IMAGE_SIZE + WORD + meta_size \in Int /\ n \in Int
      BY Codec, FramingAssumption
    <3> QED
      BY <3>1
  <2>4. /\ size' = bytes % UINT32 /\ batch_size' = bytes % UINT32 /\ num_images' = n
        /\ blocks' = <<>> /\ filled' = 0 /\ pc' = "fill" /\ UNCHANGED upload
    BY <1>2 DEF CameraPrepare
  <2> HIDE DEF bytes
  <2>5. TypeOK'
    BY <1>1, <2>2, <2>3, <2>4 DEF TypeOK, upload, Stages
  <2> QED
    BY <1>1, <2>1, <2>4, <2>5 DEF upload
<1>3. CASE CameraWrites
  <2>1. BlocksInv'
    <3>1. Write(NewBlock(Len(meta_buf), meta_buf, IMAGE_SIZE))
      BY <1>3 DEF CameraWrites, NextImage
    <3>2. Len(meta_buf) \in Int /\ meta_buf \in Packings /\ IMAGE_SIZE \in Nat
      BY Codec, FramingAssumption DEF Packings
    <3> QED
      BY <3>1, <3>2, WriteKeepsBlocks
  <2>2. pc = "fill" /\ pc' = "fill" /\ UNCHANGED <<message, size, upload>>
    BY <1>3 DEF CameraWrites
  <2>3. filled' \in Nat
    BY <2>1 DEF BlocksInv
  <2>4. TypeOK'
    BY <2>2, <2>3 DEF TypeOK, message, upload
  <2> QED
    BY <2>1, <2>2, <2>4 DEF upload
<1>4. CASE CameraOverruns \/ CameraSends \/ CameraGivesUp
  <2>1. pc' \in {"crashed", "queued"} /\ UNCHANGED <<message, segment, upload>>
    BY <1>4 DEF CameraOverruns, CameraSends, CameraGivesUp
  <2>2. BlocksInv'
    BY <2>1, SameBlocks DEF segment
  <2> QED
    BY <2>1, <2>2 DEF TypeOK, Stages, message, segment, upload
<1>4a. CASE CameraStrays
  <2>1. BlocksInv'
    BY <1>4a, PrefixKeepsBlocks DEF CameraStrays
  <2>2. pc' = "queued" /\ UNCHANGED <<message, size, upload>>
    BY <1>4a DEF CameraStrays
  <2>3. filled' \in Nat
    BY <2>1 DEF BlocksInv
  <2>4. TypeOK'
    BY <2>2, <2>3 DEF TypeOK, Stages, message, upload
  <2> QED
    BY <2>1, <2>2, <2>4 DEF upload
<1>5. CASE ModuleStarts
  <2>1. BlocksInv'
    BY <1>5, NoBlocks DEF ModuleStarts
  <2> QED
    BY <1>5, <2>1 DEF ModuleStarts, TypeOK, Stages, message, upload
<1>6. ASSUME NEW s \in ImageSizes, NEW d \in Deviations, NEW w \in Deviations,
             NEW newer \in BOOLEAN, ModuleWrites(s, d, w, newer)
      PROVE  IInv'
  <2> DEFINE buf == module_buf(s, d, newer)
  <2>1. BlocksInv'
    <3>1. Write(NewBlock(Len(buf) + w, buf, s))
      BY <1>6 DEF ModuleWrites
    <3>2. buf \in Packings
      BY DEF Packings
    <3> HIDE DEF buf
    <3>3. Len(buf) + w \in Int /\ s \in Nat
      BY <3>2, Codec, FramingAssumption
    <3> QED
      BY <3>1, <3>2, <3>3, WriteKeepsBlocks
  <2>2. pc = "module" /\ pc' = "module" /\ UNCHANGED <<message, size, upload>>
    BY <1>6 DEF ModuleWrites
  <2>3. filled' \in Nat
    BY <2>1 DEF BlocksInv
  <2>4. TypeOK'
    BY <2>2, <2>3 DEF TypeOK, message, upload
  <2> QED
    BY <2>1, <2>2, <2>4 DEF upload
<1>7. ASSUME NEW c \in Deviations, NEW b \in Deviations, ModuleReturns(c, b) PROVE IInv'
  <2>1. BlocksInv'
    BY <1>7, SameBlocks DEF ModuleReturns
  <2>2. Len(blocks) + c \in Int /\ filled + b \in Int
    BY <1>1, FramingAssumption DEF BlocksInv
  <2>3. TypeOK'
    BY <1>7, <2>2, Modulo DEF ModuleReturns, TypeOK, Stages, upload
  <2> QED
    BY <1>7, <2>1, <2>3 DEF ModuleReturns, upload
<1>8. CASE StartUpload
  <2>1. BlocksInv'
    BY <1>8, SameBlocks DEF StartUpload, segment
  <2>2. TypeOK'
    BY <1>1, <1>8 DEF StartUpload, TypeOK, Stages, message, segment
  <2>3. Place(1) = 0 /\ Len(blocks) \in Nat /\ Place(1)' = Place(1)
    BY <1>8 DEF BlocksInv, StartUpload, segment, Place
  <2>4. WalkInv'
    BY <1>8, <2>3 DEF StartUpload, WalkInv, segment
  <2> QED
    BY <1>8, <2>1, <2>2, <2>4 DEF StartUpload
<1>9. CASE UploadImage
  BY <1>9, UploadImageInv
<1>10. CASE UploadCrashes
  <2>1. pc' = "crashed" /\ UNCHANGED <<message, segment, upload>>
    BY <1>10 DEF UploadCrashes
  <2>2. BlocksInv'
    BY <2>1, SameBlocks DEF segment
  <2> QED
    BY <2>1, <2>2 DEF TypeOK, Stages, message, segment, upload
<1>11. CASE UploadDone
  <2>1. /\ pc = "upload" /\ pc' = "done" /\ UNCHANGED <<message, segment, upload>>
        /\ ~LoopCondition
    BY <1>11 DEF UploadDone
  <2>2. BlocksInv'
    BY <2>1, SameBlocks DEF segment
  <2>3. TypeOK' /\ ring' \in Seq(Extent)
    BY <2>1 DEF TypeOK, Stages, message, segment, upload
  <2>4. WellFormed' => WalkInv'
    BY <2>1, SameSegment, SamePlaces
  <2>5. ~LoopCondition'
    BY <2>1 DEF LoopCondition, message, upload
  <2> QED
    BY <2>1, <2>2, <2>3, <2>4, <2>5
<1>12. CASE NextBatch
  <2>1. BlocksInv'
    BY <1>12, NoBlocks DEF NextBatch
  <2>2. ring' \in Seq(Extent) /\ Len(ring') = 0
    BY <1>12 DEF NextBatch
  <2> QED
    BY <1>1, <1>12, <2>1, <2>2 DEF NextBatch, TypeOK, Stages
<1>13. CASE UNCHANGED vars
  <2>1. /\ pc' = pc /\ UNCHANGED <<message, segment, upload>>
    BY <1>13 DEF vars, message, segment, upload
  <2>2. BlocksInv'
    BY <2>1, SameBlocks DEF segment
  <2>3. TypeOK' /\ ring' \in Seq(Extent)
    BY <2>1 DEF TypeOK, message, segment, upload
  <2>4. WellFormed' /\ Uploaded' => WalkInv'
    BY <2>1, SameSegment, SamePlaces
  <2>5. pc' = "done" => ~LoopCondition'
    BY <2>1 DEF LoopCondition, message, upload
  <2> QED
    BY <2>2, <2>3, <2>4, <2>5
<1> QED
  BY <1>2, <1>3, <1>4, <1>4a, <1>5, <1>6, <1>7, <1>8, <1>9, <1>10, <1>11, <1>12, <1>13
  DEF Next, CameraStep, ModuleStep, UploadStep

\* The invariant of upload holds whatever the modules and the cameras have put into segments.
THEOREM FramingInvariant == Spec => []IInv
<1>1. Init => IInv
  <2>1. ASSUME Init PROVE BlocksInv
    BY <2>1 DEF Init, BlocksInv, Place
  <2> QED
    BY <2>1, FramingAssumption DEF Init, IInv, TypeOK, Stages, Uploaded
<1>2. IInv /\ [Next]_vars => IInv'
  BY StepInv
<1> QED
  BY <1>1, <1>2, PTL DEF Spec

\* Counters and offsets stay in their C types, and no more images are written to the ring than
\* the message says.
THEOREM UploadTypes == Spec => []TypeOK
<1>1. IInv => TypeOK
  BY DEF IInv
<1> QED
  BY <1>1, FramingInvariant, PTL

(***************************************************************************)
(* As long as the sizes in the segment are truthful and one of the bounds  *)
(* of the loop does not exceed what is there, every element of the ring is *)
(* one whole block, in order.                                              *)
(***************************************************************************)
THEOREM WalkKeepsStep == Spec => []FramesAreImages
<1>1. IInv => FramesAreImages
  BY DEF IInv, WalkInv, FramesAreImages
<1> QED
  BY <1>1, FramingInvariant, PTL

(***************************************************************************)
(* If both bounds are right, the loop ends with the last image.            *)
(***************************************************************************)
THEOREM WalkIsComplete == Spec => []AllImagesUploaded
<1>1. IInv => AllImagesUploaded
  <2> SUFFICES ASSUME IInv, pc = "done", WellFormed, num_images = Len(blocks), batch_size = filled
               PROVE  image_index = Len(blocks)
    BY DEF AllImagesUploaded
  <2> PICK n \in Nat : n = Len(blocks) /\ DOMAIN blocks = 1 .. n
    BY DEF IInv, BlocksInv
  <2>1. WalkInv /\ ~LoopCondition /\ image_index \in Nat
    BY DEF IInv, Uploaded, TypeOK
  <2>2. CASE image_index < n
    <3>1. image_index + 1 \in 1 .. n /\ image_index + 1 # n + 1
      BY <2>1, <2>2
    <3>2. /\ offset = blocks[image_index + 1].start
          /\ End(blocks[image_index + 1]) <= filled /\ blocks[image_index + 1] \in Block
      BY <2>1, <3>1 DEF WalkInv, Place, IInv, BlocksInv
    <3>3. offset < batch_size
      BY <3>2, BlockSize DEF IInv, BlocksInv
    <3> QED
      BY <2>1, <2>2, <3>3 DEF LoopCondition
  <2> QED
    BY <2>1, <2>2 DEF WalkInv
<1> QED
  BY <1>1, FramingInvariant, PTL

(***************************************************************************)
(* Nothing outside of such a segment is read, and no NULL followed.        *)
(***************************************************************************)
THEOREM UploadIsSafe == Spec => UploadSurvives
<1>1. ASSUME IInv, UploadCrashes, WellFormed PROVE FALSE
  <2>1. pc = "upload" /\ LoopCondition
    BY <1>1 DEF UploadCrashes
  <2>2. PICK k \in DOMAIN blocks :
           /\ k = image_index + 1 /\ k <= Len(blocks) /\ blocks[k] \in Block
           /\ offset = blocks[k].start
           /\ WordAt(offset) = {Len(blocks[k].metadata)}
           /\ (offset + WORD) % UINT32 = offset + WORD
           /\ SizesAt(offset + WORD, Len(blocks[k].metadata)) = {blocks[k].image_size}
           /\ End(blocks[k]) % UINT32 = End(blocks[k])
           /\ End(blocks[k]) <= filled /\ filled <= size
    BY <1>1, <2>1, NextBlock
  <2> DEFINE n == Len(blocks[k].metadata)
  <2>3. /\ size \in Nat /\ filled \in Nat /\ offset \in Nat /\ WORD \in Nat
        /\ n \in Nat /\ End(blocks[k]) \in Nat
    BY <1>1, <2>2, BlockSize, FramingAssumption DEF IInv, TypeOK
  <2>4. offset + WORD <= size /\ offset + WORD + n <= size
    <3>1. offset + WORD + n <= End(blocks[k])
      BY <2>2, BlockSize
    <3> HIDE DEF n
    <3> QED
      BY <2>2, <2>3, <3>1
  <2>5. SizesAt((offset + WORD) % UINT32, n) = {blocks[k].image_size}
    BY <2>2
  <2>6. (offset + WORD + n + blocks[k].image_size) % UINT32 = End(blocks[k])
    BY <2>2 DEF End
  <2>7. End(blocks[k]) <= size /\ offset <= End(blocks[k])
    BY <1>1, <2>2, BlockSize DEF IInv, TypeOK
  <2>8. ~(offset + WORD > size)
    BY <1>1, <2>4, FramingAssumption DEF IInv, TypeOK
  <2>9. PICK meta_size \in WordAt(offset) :
          LET at == (offset + WORD) % UINT32 IN
          \/ at + meta_size > size
          \/ ~\E j \in DOMAIN blocks : /\ blocks[j].start = offset
                                       /\ Len(blocks[j].metadata) = meta_size
          \/ SizesAt(at, meta_size) = {}
          \/ \E bytes \in SizesAt(at, meta_size) :
               LET end == (offset + WORD + meta_size + bytes) % UINT32 IN
               end < offset \/ end > size
    BY <1>1, <2>8 DEF UploadCrashes
  <2>10. meta_size = n
    BY <2>2
  <2>11. ~(((offset + WORD) % UINT32) + meta_size > size)
    <3>1. ((offset + WORD) % UINT32) + meta_size = offset + WORD + n
      BY <2>2, <2>10
    <3>2. offset + WORD + n \in Int /\ size \in Int
      BY <2>3, FramingAssumption
    <3> QED
      BY <2>4, <3>1, <3>2
  <2>12. PICK bytes \in SizesAt((offset + WORD) % UINT32, meta_size) :
           LET end == (offset + WORD + meta_size + bytes) % UINT32 IN
           end < offset \/ end > size
    BY <2>2, <2>5, <2>9, <2>10, <2>11
  <2>13. bytes = blocks[k].image_size
    BY <2>5, <2>10
  <2>14. End(blocks[k]) < offset \/ End(blocks[k]) > size
    BY <2>6, <2>10, <2>12, <2>13
  <2> QED
    BY <1>1, <2>2, <2>7, <2>14, BlockSize DEF IInv, TypeOK
<1>2. IInv /\ [Next]_vars => [UploadCrashes => ~WellFormed]_vars
  BY <1>1
<1> QED
  BY <1>2, FramingInvariant, PTL DEF Spec, UploadSurvives

(***************************************************************************)
(* While a camera fills its segment: all blocks are alike, there are no    *)
(* more than it was asked for, and they fit into the number of bytes that  *)
(* the message says.                                                       *)
(***************************************************************************)
BlockBytes == IMAGE_SIZE + WORD + Len(meta_buf)

CameraBlock(block) ==
  block.meta_size = Len(meta_buf) /\ block.metadata = meta_buf /\ block.image_size = IMAGE_SIZE

CameraInv ==
  pc = "fill" =>
    /\ \A k \in DOMAIN blocks : CameraBlock(blocks[k])
    /\ size = batch_size /\ batch_size = (BlockBytes * num_images) % UINT32
    /\ filled = BlockBytes * Len(blocks) /\ filled <= size
    /\ num_images >= 0 => Len(blocks) <= num_images

LEMMA BlockBytesIsANumber == BlockBytes \in Nat
BY Codec, FramingAssumption DEF BlockBytes

\* The size that a camera packs is the size that the pipeline unpacks.
LEMMA CameraBlocksAreTruthful ==
  ASSUME NEW block, CameraBlock(block)
  PROVE  Truthful(block)
<1>1. new_meta.size = IMAGE_SIZE
  BY DEF new_meta, metadata__init
<1>2. {m.size : m \in metadata__unpack(meta_buf)} = {IMAGE_SIZE}
  BY <1>1, CameraCodec
<1> QED
  BY <1>2 DEF CameraBlock, Truthful

LEMMA CameraWritesInv ==
  ASSUME IInv, CameraInv, CameraWrites
  PROVE  CameraInv'
<1> DEFINE block == NextImage
<1> PICK n \in Nat : n = Len(blocks) /\ DOMAIN blocks = 1 .. n
  BY DEF IInv, BlocksInv
<1>1. block.start = filled /\ CameraBlock(block)
  BY DEF NextImage, NewBlock, CameraBlock
<1>2. /\ pc = "fill" /\ ImagesLeft /\ End(block) <= size
      /\ blocks' = Append(blocks, block) /\ filled' = End(block)
      /\ UNCHANGED <<message, size>>
  BY DEF CameraWrites, InSegment, Write
<1>3. End(block) = filled + BlockBytes
  <2>1. End(block) = filled + WORD + Len(meta_buf) + IMAGE_SIZE
    BY <1>1 DEF End, CameraBlock
  <2>2. \A a, b, c, d \in Int : a + b + c + d = a + (d + b + c)
    OBVIOUS
  <2>3. filled \in Int /\ WORD \in Int /\ Len(meta_buf) \in Int /\ IMAGE_SIZE \in Int
    BY Codec, FramingAssumption DEF IInv, BlocksInv
  <2> QED
    BY <2>1, <2>2, <2>3 DEF BlockBytes
<1> HIDE DEF block
<1>4. /\ Len(blocks') = n + 1 /\ DOMAIN blocks' = 1 .. n + 1 /\ blocks'[n + 1] = block
      /\ \A k \in 1 .. n : blocks'[k] = blocks[k]
  BY <1>2 DEF IInv, BlocksInv
<1>5. \A k \in DOMAIN blocks' : CameraBlock(blocks'[k])
  BY <1>1, <1>2, <1>4 DEF CameraInv
<1>6. filled + BlockBytes = BlockBytes * (n + 1)
  <2>1. \A u, m \in Int : (u * m) + u = u * (m + 1)
    OBVIOUS
  <2> QED
    BY <1>2, <2>1, BlockBytesIsANumber DEF CameraInv
<1>7. num_images >= 0 => n + 1 <= num_images
  BY <1>2 DEF ImagesLeft, IInv, TypeOK
<1>8. num_images' = num_images /\ batch_size' = batch_size /\ size' = size
  BY <1>2 DEF message
<1>9. size = batch_size /\ batch_size = (BlockBytes * num_images) % UINT32
  BY <1>2 DEF CameraInv
<1>10. /\ filled' = BlockBytes * Len(blocks') /\ filled' <= size'
       /\ num_images' >= 0 => Len(blocks') <= num_images'
  BY <1>2, <1>3, <1>4, <1>6, <1>7, <1>8
<1>11. size' = batch_size' /\ batch_size' = (BlockBytes * num_images') % UINT32
  BY <1>8, <1>9
<1> QED
  BY <1>5, <1>10, <1>11 DEF CameraInv, CameraBlock, BlockBytes, meta_buf, new_meta

\* While a camera fills its segment, its blocks are alike and the message announces the size of
\* all of them, modulo UINT32.
THEOREM CameraInvariant == Spec => []CameraInv
<1>1. Init => CameraInv
  BY DEF Init, CameraInv
<1>2. ASSUME IInv, CameraInv, [Next]_vars PROVE CameraInv'
  <2>1. ASSUME NEW n \in Counts, CameraPrepare(n) PROVE CameraInv'
    <3>1. /\ blocks' = <<>> /\ filled' = 0 /\ num_images' = n /\ size' = batch_size'
          /\ batch_size' = (BlockBytes * n) % UINT32
      BY <2>1, Codec DEF CameraPrepare, BlockBytes
    <3>2. n \in Int /\ BlockBytes * n \in Int /\ BlockBytes * 0 = 0
      BY FramingAssumption, BlockBytesIsANumber
    <3>3. (BlockBytes * n) % UINT32 >= 0
      BY <3>2, Modulo
    <3>4. Len(<<>>) = 0 /\ DOMAIN <<>> = {}
      OBVIOUS
    <3> QED
      BY <3>1, <3>2, <3>3, <3>4 DEF CameraInv, CameraBlock, BlockBytes, meta_buf, new_meta
  <2>2. CASE CameraWrites
    BY <1>2, <2>2, CameraWritesInv
  <2>3. CASE CameraOverruns \/ CameraStrays \/ CameraSends \/ CameraGivesUp
    BY <2>3 DEF CameraOverruns, CameraStrays, CameraSends, CameraGivesUp, CameraInv
  <2>4. CASE ModuleStep
    BY <2>4 DEF ModuleStep, ModuleStarts, ModuleWrites, ModuleReturns, CameraInv
  <2>5. CASE UploadStep
    BY <2>5 DEF UploadStep, StartUpload, UploadImage, UploadCrashes, UploadDone, CameraInv
  <2>6. CASE NextBatch
    BY <2>6 DEF NextBatch, CameraInv
  <2>7. CASE UNCHANGED vars
    BY <1>2, <2>7 DEF vars, CameraInv, CameraBlock, BlockBytes, meta_buf, new_meta
  <2> QED
    BY <1>2, <2>1, <2>2, <2>3, <2>4, <2>5, <2>6, <2>7 DEF Next, CameraStep
<1> QED
  BY <1>1, <1>2, FramingInvariant, PTL DEF Spec

(***************************************************************************)
(* Arithmetic of the next image: if the last one begins at less than half  *)
(* of UINT32, nothing wraps, and the next one, too, lies in the segment.   *)
(***************************************************************************)
LEMMA NextImageInSegment ==
  ASSUME IInv, CameraInv, pc = "fill", ImagesLeft, num_images >= 0,
         BlockBytes * num_images - IMAGE_SIZE < UINT32 \div 2
  PROVE  InSegment(NextImage)
<1> DEFINE Half == UINT32 \div 2
<1> PICK n \in Nat : n = Len(blocks)
  BY DEF IInv, BlocksInv
<1> PICK c \in Nat : c = num_images
  BY DEF IInv, TypeOK
<1> PICK bb \in Nat : bb = BlockBytes
  BY BlockBytesIsANumber
<1>1. Half \in Nat /\ IMAGE_SIZE \in Nat /\ IMAGE_SIZE <= Half /\ Half + Half <= UINT32
      /\ UINT32 \in Nat
  BY FramingAssumption
<1>2. bb * c - IMAGE_SIZE < Half
  OBVIOUS
<1> HIDE DEF Half
<1>3. n + 1 <= c
  BY DEF ImagesLeft
<1>4. bb * n \in Nat /\ bb * c \in Nat /\ bb * n + bb <= bb * c
  <2>1. \A u, v, w \in Nat : v + 1 <= w => u * v + u <= u * w
    <3>1. \A u, v, d \in Nat : u * ((v + 1) + d) = (u * v + u) + u * d /\ u * d \in Nat
      OBVIOUS
    <3>2. ASSUME NEW u \in Nat, NEW v \in Nat, NEW w \in Nat, v + 1 <= w
          PROVE  u * v + u <= u * w
      <4> PICK d \in Nat : w = (v + 1) + d
        <5>1. w - (v + 1) \in Nat /\ w = (v + 1) + (w - (v + 1))
          BY <3>2
        <5> QED
          BY <5>1
      <4>1. u * v \in Nat /\ u * d \in Nat /\ u * w = (u * v + u) + u * d
        BY <3>1
      <4> QED
        BY <4>1
    <3> QED
      BY <3>2
  <2>2. bb * n \in Nat /\ bb * c \in Nat
    OBVIOUS
  <2> QED
    BY <1>3, <2>1, <2>2
<1> PICK total \in Nat : total = bb * c
  BY <1>4
<1> PICK before \in Nat : before = bb * n
  BY <1>4
<1>5. total \in 0 .. UINT32 - 1
  BY <1>1, <1>2
<1>6. size = total
  <2>1. size = (BlockBytes * num_images) % UINT32
    BY DEF CameraInv
  <2> QED
    BY <1>5, <2>1, Modulo
<1>7. filled = before
  BY DEF CameraInv
<1>8. /\ NextImage.start = before /\ NextImage.metadata = meta_buf
      /\ NextImage.image_size = IMAGE_SIZE
  BY <1>7 DEF NextImage, NewBlock
<1> PICK m \in Nat : m = Len(meta_buf)
  BY Codec
<1>9. bb = IMAGE_SIZE + WORD + m /\ WORD \in Nat
  BY FramingAssumption DEF BlockBytes
<1>10. before + WORD + m + IMAGE_SIZE <= total /\ before + WORD + m < Half
  BY <1>1, <1>2, <1>4, <1>9
<1> QED
  BY <1>6, <1>8, <1>10 DEF InSegment, End, Half

(***************************************************************************)
(* A segment that a camera sends is what its message says, for images of   *)
(* any size up to 2^31 and any number of them, as long as the last one     *)
(* begins at an offset that an int can hold.                               *)
(***************************************************************************)
THEOREM CameraSendsWhatItAnnounces == Spec => CameraIsWellFormed
<1>1. ASSUME IInv, CameraInv, pc = "fill", ~ImagesLeft
      PROVE  WellFormed /\ num_images = Len(blocks) /\ batch_size = filled
  <2> PICK n \in Nat : n = Len(blocks)
    BY <1>1 DEF IInv, BlocksInv
  <2>1. num_images = n
    BY <1>1 DEF ImagesLeft, CameraInv, IInv, TypeOK
  <2>2. filled \in Nat /\ filled <= batch_size /\ size = batch_size /\ batch_size \in 0 .. UINT32 - 1
    BY <1>1 DEF CameraInv, IInv, TypeOK
  <2>3. filled \in 0 .. UINT32 - 1
    BY <2>2, FramingAssumption
  <2>4. batch_size = filled % UINT32
    BY <1>1, <2>1 DEF CameraInv
  <2>5. batch_size = filled
    BY <2>3, <2>4, Modulo
  <2>6. \A k \in DOMAIN blocks : Truthful(blocks[k])
    BY <1>1, CameraBlocksAreTruthful DEF CameraInv
  <2>7. filled < UINT32 /\ filled <= size /\ num_images <= Len(blocks)
    BY <2>1, <2>2, <2>3, FramingAssumption
  <2> QED
    BY <2>1, <2>5, <2>6, <2>7 DEF WellFormed
<1>2. ASSUME IInv, CameraInv, [Next]_vars, pc = "fill", pc' = "queued",
             BlockBytes * num_images - IMAGE_SIZE < UINT32 \div 2
      PROVE  WellFormed' /\ num_images' = Len(blocks') /\ batch_size' = filled'
  <2>1. CASE CameraSends
    <3>1. ~ImagesLeft /\ UNCHANGED <<message, segment>>
      BY <2>1 DEF CameraSends
    <3>2. WellFormed /\ num_images = Len(blocks) /\ batch_size = filled
      BY <1>1, <1>2, <3>1
    <3> QED
      BY <3>1, <3>2, SameSegment DEF message, segment
  <2>2. CASE CameraStrays
    BY <1>2, <2>2, NextImageInSegment DEF CameraStrays
  <2>3. CameraSends \/ CameraStrays
    BY <1>2 DEF Next, CameraStep, CameraPrepare, CameraWrites, CameraOverruns, CameraGivesUp,
       ModuleStep, ModuleStarts, ModuleWrites, ModuleReturns,
       UploadStep, StartUpload, UploadImage, UploadCrashes, UploadDone, NextBatch, vars
  <2> QED
    BY <2>1, <2>2, <2>3
<1>3. ASSUME IInv, CameraInv, [Next]_vars
      PROVE  [pc = "fill" /\ pc' = "queued"
                /\ (IMAGE_SIZE + WORD + Len(meta_buf)) * num_images - IMAGE_SIZE < UINT32 \div 2
              => WellFormed' /\ num_images' = Len(blocks') /\ batch_size' = filled']_vars
  BY <1>2, <1>3 DEF BlockBytes
<1> QED
  BY <1>3, FramingInvariant, CameraInvariant, PTL DEF Spec, CameraIsWellFormed
=============================================================================
