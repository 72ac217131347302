------------------------ MODULE ObservationServerProofs ------------------------
(***************************************************************************)
(* Proofs about ObservationServer, for a ring of any size and any number   *)
(* of writes and crashes: unless it is overtaken, what a server reads      *)
(* through its index is the one observation that it was asked for.         *)
(***************************************************************************)
EXTENDS ObservationServer, MessageProofs, FiniteSetTheorems, TLAPS

(***************************************************************************)
(* The module that packed an observation and the server that unpacks it    *)
(* use copies of one schema.                                               *)
(***************************************************************************)
LEMMA TablesAgree == Writer!metadata__descriptor = metadata__descriptor
BY Zenon DEF Writer!metadata__descriptor, metadata__descriptor,
   Writer!metadata__field_descriptors, metadata__field_descriptors,
   Writer!metadata__number_ranges, metadata__number_ranges, Writer!metadata__init, metadata__init,
   Writer!metadata_item__descriptor, metadata_item__descriptor,
   Writer!metadata_item__field_descriptors, metadata_item__field_descriptors,
   Writer!metadata_item__number_ranges, metadata_item__number_ranges,
   Writer!metadata_item__init, metadata_item__init, Writer!NOT_SET,
   Writer!Descriptor, Descriptor, Writer!Field, Field, Writer!Repeated, Repeated, Writer!OneOf, OneOf

LEMMA PackAgrees ==
  ASSUME NEW descriptor, NEW m
  PROVE  Writer!Pack(descriptor, m) = Pack(descriptor, m)
BY Zenon DEF Writer!Pack, Pack, Writer!PackMember, PackMember, Writer!PackItem, PackItem,
   Writer!PackField, PackField, Writer!Record, Record, Writer!WireType, WireType,
   Writer!FlattenSeq, FlattenSeq

\* The pipeline reads from a packed observation what its module packed.
LEMMA Codec ==
  ASSUME NEW n \in 0 .. MaxWrites
  PROVE  /\ Len(Packed[n]) \in Nat
         /\ metadata__unpack(SubSeq(Packed[n], 1, Len(Packed[n]))) = {Meta(n)}
<1>1. PICK sum \in Int : sum = 1 + (n % 2)
  BY RingAssumption
<1>2. PICK m : m = [metadata__init EXCEPT !.size = sum, !.obid = n]
  OBVIOUS
<1>3. Meta(n) = m
  BY <1>1, <1>2 DEF Meta
<1>4. m \in Metadata(Int)
  <2>1. IsFunction(m) /\ DOMAIN m = DOMAIN metadata__init
    BY <1>2 DEF metadata__init, IsFunction
  <2>2. PICK items \in Seq(Items(Int)) : items = <<>>
    <3>1. <<>> \in Seq(Items(Int))
      OBVIOUS
    <3> QED
      BY <3>1
  <2>3. /\ m.size = sum /\ m.height = 0 /\ m.width = 0 /\ m.channels = 0 /\ m.timestamp = 0
        /\ m.bits_pixel = 0 /\ m.obid = n /\ m.camera = 0 /\ m.items = items
    BY <1>2, <2>2 DEF metadata__init
  <2>4. 0 \in Int /\ n \in Int
    BY RingAssumption
  <2>5. /\ m.size \in Int /\ m.height \in Int /\ m.width \in Int /\ m.channels \in Int
        /\ m.timestamp \in Int /\ m.bits_pixel \in Int /\ m.obid \in Int /\ m.camera \in Int
    BY <2>3, <2>4
  <2>6. m.items \in Seq(Items(Int))
    BY <2>2, <2>3
  <2> QED
    BY <2>1, <2>5, <2>6, MetadataFields
<1>5. PICK wire : wire = Packed[n]
  OBVIOUS
<1>6. wire = Pack(metadata__descriptor, m)
  <2>1. Packed[n] = Writer!metadata__pack(Meta(n))
    BY DEF Packed
  <2> QED
    BY <1>3, <1>5, <2>1, TablesAgree, PackAgrees DEF Writer!metadata__pack
<1>7. wire \in Seq(MetadataRecords(Int)) /\ Unpack(metadata__descriptor, wire) = {m}
  BY <1>4, <1>6, MetadataRoundTrip
<1>8. \A R : \A w \in Seq(R) : Len(w) \in Nat /\ SubSeq(w, 1, Len(w)) = w
  OBVIOUS
<1>9. Len(wire) \in Nat /\ SubSeq(wire, 1, Len(wire)) = wire
  BY <1>7, <1>8
<1> QED
  BY <1>3, <1>5, <1>7, <1>9 DEF metadata__unpack

(***************************************************************************)
(* Arithmetic.                                                             *)
(***************************************************************************)
LEMMA Remainder ==
  ASSUME NEW a \in Nat, NEW n \in Nat \ {0}
  PROVE  a % n \in 0 .. n - 1
OBVIOUS

\* Two numbers that are less than n apart have different remainders.
LEMMA RemaindersDiffer ==
  ASSUME NEW a \in Nat, NEW b \in Nat, NEW n \in Nat \ {0}, a < b, b < a + n
  PROVE  a % n # b % n
<1> DEFINE p == a \div n
           q == b \div n
<1>1. p \in Int /\ q \in Int /\ a % n \in Int
  OBVIOUS
<1>2. a = n * p + (a % n) /\ b = n * q + (b % n)
  OBVIOUS
<1> HIDE DEF p, q
<1>3. SUFFICES ASSUME a % n = b % n PROVE FALSE
  OBVIOUS
<1>4. b - a = n * (q - p)
  BY <1>1, <1>2, <1>3
<1>5. q - p \in Int /\ 0 < n * (q - p) /\ n * (q - p) < n
  BY <1>1, <1>4
<1>6. \A d \in Int : d <= 0 => n * d <= 0
  OBVIOUS
<1>7. \A d \in Int : d >= 1 => n * d >= n
  OBVIOUS
<1> QED
  BY <1>5, <1>6, <1>7

\* The two bytes of a request make an index.
LEMMA TwoBytes ==
  ASSUME NEW low \in 0 .. BYTE - 1, NEW high \in 0 .. BYTE - 1
  PROVE  low + high * BYTE \in Indices
<1>1. BYTE \in Nat \ {0}
  BY RingAssumption
<1>2. high * BYTE >= 0 /\ high * BYTE <= (BYTE - 1) * BYTE
  BY <1>1
<1>3. (BYTE - 1) * BYTE = BYTE * BYTE - BYTE
  BY <1>1
<1> QED
  BY <1>1, <1>2, <1>3 DEF Indices

LEMMA PlaceType == \A n \in Nat : Place(n) \in 0 .. Entries - 1
BY Remainder, RingAssumption DEF Place

LEMMA PlacesDiffer ==
  ASSUME NEW a \in Nat, NEW b \in Nat, a < b, b < a + Entries
  PROVE  Place(a) # Place(b)
BY RemaindersDiffer, RingAssumption DEF Place

(***************************************************************************)
(* The ring holds at most Entries observations, and has room for the one   *)
(* that is being written.                                                  *)
(***************************************************************************)
RingInv ==
  /\ numbering \in {"place", "age"}
  /\ tail \in Nat /\ head \in Nat /\ tail <= head /\ head <= tail + Entries
  /\ head <= MaxWrites
  /\ bytes \in [0 .. Entries - 1 -> {Blank} \cup 0 .. MaxWrites]
  /\ writer \subseteq {"bytes", "head"}
  /\ "head" \in writer => head < tail + Entries /\ head < MaxWrites
  /\ "bytes" \in writer /\ "head" \notin writer => tail < head

(***************************************************************************)
(* What an index stands for, with the state of the ring as parameters.     *)
(***************************************************************************)
At(t, index) == IF numbering = "age" THEN Place(t + index) ELSE Place(index)

Stays(t, h, observations, evicted) ==
  IF numbering = "age" THEN evicted = 0 ELSE observations \subseteq t .. h - 1

\* As long as they go by their index, the observations are in the ring, at its place.
Follows(t, h, b, observations, index, evicted) ==
  Stays(t, h, observations, evicted) =>
    \A n \in observations : n \in t .. h - 1 /\ Place(n) = At(t, index) /\ b[Place(n)] = n

LEMMA AtPlace ==
  /\ \A index : PlaceOf(index) = At(tail, index)
  /\ \A observations, evicted :
       StillNamed(observations, evicted) = Stays(tail, head, observations, evicted)
BY DEF PlaceOf, At, StillNamed, Stays

LEMMA NamedFollows ==
  ASSUME RingInv, NEW index \in Indices
  PROVE  /\ Follows(tail, head, bytes, Named(index), index, 0)
         /\ \A n \in Named(index) : n \in Nat /\ n < head /\ bytes[PlaceOf(index)] = n
         /\ Named(index) = {} \/ \E n : Named(index) = {n}
<1>1. \A n \in Named(index) : /\ n \in tail .. head - 1 /\ Place(n) = At(tail, index)
                              /\ bytes[Place(n)] = n /\ bytes[PlaceOf(index)] = n
  BY AtPlace DEF Named
<1>2. \A n \in tail .. head - 1 : n \in Nat /\ n < head
  BY DEF RingInv
<1>3. \A m, n \in Named(index) : m = n
  BY <1>1
<1> QED
  BY <1>1, <1>2, <1>3 DEF Follows

LEMMA IndexPlace ==
  ASSUME RingInv, NEW index \in Indices
  PROVE  PlaceOf(index) \in 0 .. Entries - 1
<1>1. index \in Nat /\ tail + index \in Nat
  BY RingAssumption DEF Indices, RingInv
<1> QED
  BY <1>1, PlaceType DEF PlaceOf

\* The ring only moves on.
LEMMA UploadMoves ==
  ASSUME RingInv, UploadStep
  PROVE  tail' \in Nat /\ head' \in Nat /\ tail <= tail' /\ head <= head'
<1>1. tail \in Nat /\ head \in Nat /\ Entries \in Nat \ {0}
  BY RingAssumption DEF RingInv
<1>2. CASE BeginWrite
  BY <1>1, <1>2 DEF BeginWrite, Evict
<1>3. CASE WriteBytes \/ WriteHead
  BY <1>1, <1>3 DEF WriteBytes, WriteHead
<1> QED
  BY <1>2, <1>3 DEF UploadStep

\* A step of upload does not take the bytes of an observation that goes by its index after it.
LEMMA UploadFollows ==
  ASSUME RingInv, UploadStep, NEW observations, NEW index, NEW evicted \in Nat,
         \A n \in observations : n \in Nat /\ n < head,
         Follows(tail, head, bytes, observations, index, evicted)
  PROVE  LET now == evicted + (tail' - tail) IN
         /\ Follows(tail', head', bytes', observations, index, now)
         /\ Stays(tail', head', observations, now) => Stays(tail, head, observations, evicted)
<1>1. tail \in Nat /\ head \in Nat /\ Entries \in Nat \ {0}
  BY RingAssumption DEF RingInv
<1> DEFINE now == evicted + (tail' - tail)
<1>2. PICK t2 \in Nat, h2 \in Nat : t2 = tail' /\ h2 = head' /\ tail <= t2 /\ head <= h2
  BY UploadMoves
<1>3. tail <= t2 /\ head <= h2
  BY <1>2
<1>4. ASSUME Stays(tail', head', observations, now)
      PROVE  /\ Stays(tail, head, observations, evicted)
             /\ At(tail', index) = At(tail, index)
             /\ \A n \in observations : n \in tail .. head - 1 => n \in tail' .. head' - 1
  <2>1. Stays(t2, h2, observations, evicted + (t2 - tail))
    BY <1>2, <1>4
  <2> HIDE DEF now
  <2>2. CASE numbering = "age"
    <3>1. evicted = 0 /\ t2 = tail
      BY <1>1, <1>3, <2>1, <2>2 DEF Stays
    <3>2. \A n \in tail .. head - 1 : n \in t2 .. h2 - 1
      BY <1>1, <1>3, <3>1
    <3> QED
      BY <1>2, <2>2, <3>1, <3>2 DEF Stays, At
  <2>3. CASE numbering # "age"
    <3>1. \A n \in observations : n \in t2 .. h2 - 1
      BY <2>1, <2>3 DEF Stays
    <3>2. \A n \in observations : n \in tail .. head - 1
      BY <1>1, <1>3, <3>1
    <3> QED
      BY <1>2, <2>3, <3>1, <3>2 DEF Stays, At
  <2> QED
    BY <2>2, <2>3
<1>5. ASSUME Stays(tail', head', observations, now), NEW n \in observations
      PROVE  n \in tail' .. head' - 1 /\ Place(n) = At(tail', index) /\ bytes'[Place(n)] = n
  <2> HIDE DEF now
  <2>1. n \in tail .. head - 1 /\ Place(n) = At(tail, index) /\ bytes[Place(n)] = n
    BY <1>4, <1>5 DEF Follows
  <2>2. bytes'[Place(n)] = n
    <3>1. CASE bytes' = bytes
      BY <2>1, <3>1
    <3>2. CASE WriteBytes
      <4> DEFINE m == IF "head" \in writer THEN head ELSE head - 1
      <4>1. bytes' = [bytes EXCEPT ![Place(m)] = m]
        BY <3>2 DEF WriteBytes
      <4>2. m \in Nat /\ n \in Nat /\ m < n + Entries /\ n <= m
        BY <1>1, <2>1, <3>2 DEF RingInv, WriteBytes
      <4> HIDE DEF m
      <4>3. Place(m) \in 0 .. Entries - 1 /\ Place(n) \in 0 .. Entries - 1
        BY <4>2, PlaceType
      <4>4. n # m => Place(n) # Place(m)
        BY <4>2, PlacesDiffer
      <4> QED
        BY <2>1, <4>1, <4>3, <4>4 DEF RingInv
    <3> QED
      BY <3>1, <3>2 DEF UploadStep, BeginWrite, WriteHead
  <2> QED
    BY <1>4, <1>5, <2>1, <2>2
<1> QED
  BY <1>4, <1>5 DEF Follows

(***************************************************************************)
(* The inductive invariant.                                                *)
(***************************************************************************)
ServerTypes ==
  /\ server \in {"dead", "accept", "read", "check", "meta_size", "metadata", "answer", "close"}
  /\ request \in Indices /\ meta_size \in Nat /\ evictions \in Nat
  /\ place \in {NoPlace} \cup 0 .. Entries - 1
  /\ server \in {"meta_size", "metadata"} \/ place = NoPlace

\* What the server holds of the observation asked for, at each place of its way.
Collected ==
  \A n \in asked :
    /\ place # NoPlace => place = Place(n)
    /\ server = "metadata" => meta_size = Len(Packed[n])
    /\ server = "answer" => metadata = Meta(n)
    /\ server = "close" /\ response.kind = "meta" =>
         response = [kind |-> "meta", index |-> request, size |-> Meta(n).size,
                     obid |-> Meta(n).obid]

AskedInv ==
  /\ asked = {} \/ \E n : asked = {n}
  /\ \A n \in asked : n \in Nat /\ n < head
  /\ server \in {"dead", "accept", "read", "check"} => asked = {}
  /\ Follows(tail, head, bytes, asked, request, evictions)
  /\ Stays(tail, head, asked, evictions) => Collected

\* Of the transfer, the size once it is known, the place and all chunks so far.
Transferred(transfer, n) ==
  /\ transfer.phase = "serving" => transfer.size = Size(n)
  /\ transfer.place # NoPlace => transfer.place = Place(n)
  /\ \A k \in DOMAIN transfer.chunks : transfer.chunks[k] = n

DtpInv ==
  dtp # NoTransfer =>
    /\ dtp = [phase |-> dtp.phase, index |-> dtp.index, size |-> dtp.size, place |-> dtp.place,
              chunks |-> dtp.chunks, asked |-> dtp.asked, evictions |-> dtp.evictions]
    /\ dtp.phase \in {"checked", "serving"}
    /\ dtp.index \in Indices /\ dtp.chunks \in Seq(Int) /\ dtp.evictions \in Nat
    /\ dtp.place \in {NoPlace} \cup 0 .. Entries - 1
    /\ \A n \in dtp.asked : n \in Nat /\ n < head
    /\ Follows(tail, head, bytes, dtp.asked, dtp.index, dtp.evictions)
    /\ Stays(tail, head, dtp.asked, dtp.evictions) => \A n \in dtp.asked : Transferred(dtp, n)

Inv == RingInv /\ ServerTypes /\ AskedInv /\ DtpInv

LEMMA InitInv == Init => Inv
<1> SUFFICES ASSUME Init PROVE Inv
  OBVIOUS
<1> USE DEF Init
<1>1. RingInv
  BY RingAssumption DEF RingInv
<1>2. ServerTypes
  BY RingAssumption DEF ServerTypes, Indices
<1>3. AskedInv
  BY DEF AskedInv, Follows, Collected
<1>4. DtpInv
  BY DEF DtpInv
<1> QED
  BY <1>1, <1>2, <1>3, <1>4 DEF Inv

LEMMA UploadInv == ASSUME Inv, UploadStep PROVE Inv'
<1> USE DEF Inv
<1>1. /\ numbering' = numbering
      /\ UNCHANGED <<server, request, place, meta_size, metadata, response, asked>>
      /\ evictions' = evictions + (tail' - tail)
      /\ dtp = NoTransfer => dtp' = NoTransfer
      /\ dtp # NoTransfer => dtp' = [dtp EXCEPT !.evictions = @ + (tail' - tail)]
  <2>0. dtp # NoTransfer => dtp.phase # "idle" /\ dtp = [dtp EXCEPT !.evictions = @ + 0]
    BY DEF DtpInv
  <2>1. CASE BeginWrite
    BY <2>0, <2>1 DEF BeginWrite, Evict, NoTransfer
  <2>2. CASE WriteBytes \/ WriteHead
    <3>1. tail' - tail = 0 /\ evictions + 0 = evictions
      BY <2>2 DEF WriteBytes, WriteHead, RingInv, ServerTypes
    <3> QED
      BY <2>0, <2>2, <3>1 DEF WriteBytes, WriteHead, serverVars
  <2> QED
    BY <2>1, <2>2 DEF UploadStep
<1>2. RingInv'
  <2> USE RingAssumption DEF RingInv
  <2>1. CASE BeginWrite
    BY <2>1 DEF BeginWrite, Evict
  <2>2. CASE WriteBytes
    <3> DEFINE m == IF "head" \in writer THEN head ELSE head - 1
    <3>1. m \in 0 .. MaxWrites /\ bytes' = [bytes EXCEPT ![Place(m)] = m]
      BY <2>2 DEF WriteBytes
    <3> HIDE DEF m
    <3>2. bytes' \in [0 .. Entries - 1 -> {Blank} \cup 0 .. MaxWrites]
      BY <3>1
    <3> QED
      BY <2>2, <3>2 DEF WriteBytes
  <2>3. CASE WriteHead
    BY <2>3 DEF WriteHead
  <2> QED
    BY <2>1, <2>2, <2>3 DEF UploadStep
<1>3. tail' \in Nat /\ head' \in Nat /\ tail <= tail' /\ head <= head'
  BY UploadMoves
<1>4. PICK moved \in Nat : moved = tail' - tail
  <2>1. PICK t \in Nat : t = tail'
    BY <1>3
  <2>2. tail <= t
    BY <1>3, <2>1
  <2>3. t - tail \in Nat
    BY <2>2 DEF RingInv
  <2> QED
    BY <2>1, <2>3
<1>5. ServerTypes'
  BY <1>1, <1>4 DEF ServerTypes
<1>6. AskedInv'
  <2>1. \A n \in asked : n \in Nat /\ n < head'
    BY <1>3 DEF AskedInv, RingInv
  <2>2. /\ Follows(tail', head', bytes', asked, request, evictions')
        /\ Stays(tail', head', asked, evictions') => Stays(tail, head, asked, evictions)
    BY <1>1, UploadFollows DEF AskedInv, ServerTypes
  <2> QED
    BY <1>1, <2>1, <2>2 DEF AskedInv, Collected, Follows, Stays, At
<1>7. DtpInv'
  <2>1. SUFFICES ASSUME dtp # NoTransfer PROVE DtpInv'
    BY <1>1 DEF DtpInv
  <2>2. /\ dtp.index \in Indices /\ dtp.chunks \in Seq(Int) /\ dtp.evictions \in Nat
        /\ dtp.phase \in {"checked", "serving"} /\ dtp.place \in {NoPlace} \cup 0 .. Entries - 1
        /\ \A n \in dtp.asked : n \in Nat /\ n < head
        /\ Follows(tail, head, bytes, dtp.asked, dtp.index, dtp.evictions)
    BY <2>1 DEF DtpInv
  <2>3. dtp' = [phase |-> dtp.phase, index |-> dtp.index, size |-> dtp.size,
                place |-> dtp.place, chunks |-> dtp.chunks, asked |-> dtp.asked,
                evictions |-> dtp.evictions + (tail' - tail)]
    BY <1>1, <2>1 DEF DtpInv
  <2>4. dtp.evictions + (tail' - tail) \in Nat
    BY <1>4, <2>2
  <2>5. \A n \in dtp.asked : n \in Nat /\ n < head'
    BY <1>3, <2>2 DEF RingInv
  <2>6. LET now == dtp.evictions + (tail' - tail) IN
        /\ Follows(tail', head', bytes', dtp.asked, dtp.index, now)
        /\ Stays(tail', head', dtp.asked, now) =>
             Stays(tail, head, dtp.asked, dtp.evictions)
    BY <2>2, UploadFollows
  <2>7. Stays(tail', head', dtp.asked, dtp.evictions + (tail' - tail)) =>
          \A n \in dtp.asked : Transferred(dtp, n)
    BY <2>1, <2>6 DEF DtpInv
  <2>8. \A n : Transferred(dtp', n) = Transferred(dtp, n)
    BY <2>3 DEF Transferred
  <2> QED
    BY <1>1, <2>2, <2>3, <2>4, <2>5, <2>6, <2>7, <2>8 DEF DtpInv, Follows, Stays, At
<1> QED
  BY <1>2, <1>5, <1>6, <1>7

LEMMA DiesInv == ASSUME Inv, Dies PROVE Inv'
<1> USE DEF Inv, Dies
<1>1. RingInv'
  BY DEF RingInv
<1>2. ServerTypes'
  BY RingAssumption DEF ServerTypes, Indices
<1>3. AskedInv'
  BY DEF AskedInv, Follows, Collected
<1>4. DtpInv'
  BY DEF DtpInv
<1> QED
  BY <1>1, <1>2, <1>3, <1>4

\* The server's own steps leave the ring and the transfer alone.
LEMMA KeepInv == ASSUME Inv, Keep PROVE RingInv' /\ DtpInv'
<1> USE DEF Inv, Keep, ringVars
<1>1. RingInv'
  BY DEF RingInv
<1>2. DtpInv'
  BY DEF DtpInv, Transferred, Follows, Stays, At
<1> QED
  BY <1>1, <1>2

LEMMA RestartInv == ASSUME Inv, Restart PROVE Inv'
<1>1. Keep /\ RingInv' /\ DtpInv'
  BY KeepInv DEF Restart, Keep
<1>2. ServerTypes' /\ AskedInv'
  BY DEF Inv, ServerTypes, AskedInv, Restart, ringVars, Follows, Stays, At, Collected
<1> QED
  BY <1>1, <1>2 DEF Inv

\* Where the server has not checked an index, nothing is asserted about one.
LEMMA NothingAsked ==
  ASSUME Inv, Keep, asked' = {} PROVE AskedInv'
BY DEF AskedInv, Follows, Collected

\* A step of the server between the check and the answer.
LEMMA StillAsked ==
  ASSUME Inv, Keep, asked' = asked, evictions' = evictions, request' = request,
         server' \notin {"dead", "accept", "read", "check"},
         Stays(tail, head, asked, evictions) => Collected'
  PROVE  AskedInv'
<1> USE DEF Inv, Keep, ringVars
<1>1. Follows(tail, head, bytes, asked, request, evictions)'
  BY DEF AskedInv, Follows, Stays, At
<1>2. (Stays(tail, head, asked, evictions) => Collected)'
  BY DEF Stays
<1> QED
  BY <1>1, <1>2 DEF AskedInv

LEMMA ServeInv == ASSUME Inv, Accept \/ Serve PROVE Inv'
<1> USE DEF Inv
<1>1. CASE Accept
  <2>1. ServerTypes' /\ asked' = {} /\ Keep
    BY <1>1, KeepInv DEF Accept, ServerTypes, AskedInv
  <2> QED
    BY <2>1, KeepInv, NothingAsked
<1>2. CASE ReadTimesOut \/ MetadataNull
  BY <1>2, DiesInv DEF ReadTimesOut, MetadataNull
<1>3. CASE ReadAmount \/ ReadOther \/ CheckFails
  <2>1. ServerTypes' /\ asked' = {} /\ Keep
    BY <1>3, KeepInv DEF ReadAmount, ReadOther, CheckFails, Respond, ServerTypes, AskedInv
  <2> QED
    BY <2>1, KeepInv, NothingAsked
<1>4. ASSUME NEW low \in 0 .. BYTE - 1, NEW high \in 0 .. BYTE - 1, ReadMeta(low, high)
      PROVE  Inv'
  <2>1. request' \in Indices
    BY <1>4, TwoBytes DEF ReadMeta
  <2>2. ServerTypes' /\ asked' = {} /\ Keep
    BY <1>4, <2>1, KeepInv DEF ReadMeta, ServerTypes, AskedInv
  <2> QED
    BY <2>2, KeepInv, NothingAsked
<1>5. CASE CheckSucceeds
  <2>1. ServerTypes' /\ Keep
    BY <1>5, KeepInv DEF CheckSucceeds, ServerTypes
  <2>2. /\ Follows(tail, head, bytes, Named(request), request, 0)
        /\ \A n \in Named(request) : n \in Nat /\ n < head
        /\ Named(request) = {} \/ \E n : Named(request) = {n}
    BY NamedFollows DEF ServerTypes
  <2>3. /\ UNCHANGED <<numbering, tail, head, bytes, request>>
        /\ server' = "meta_size" /\ asked' = Named(request) /\ evictions' = 0
    BY <1>5 DEF CheckSucceeds, Keep, ringVars
  <2>4. AskedInv'
    <3>1. place' = NoPlace
      BY <1>5 DEF CheckSucceeds, ServerTypes
    <3>2. Collected'
      BY <2>3, <3>1 DEF Collected
    <3> QED
      BY <2>2, <2>3, <3>2 DEF AskedInv, Follows, Stays, At
  <2> QED
    BY <2>1, <2>4, KeepInv
<1>6. ASSUME Stays(tail, head, asked, evictions), NEW n \in asked
      PROVE  /\ n \in 0 .. MaxWrites /\ bytes[Place(n)] = n /\ PlaceOf(request) = Place(n)
             /\ WordAt(Place(n)) = Len(Packed[n])
  <2>1. n \in tail .. head - 1 /\ Place(n) = At(tail, request) /\ bytes[Place(n)] = n
    BY <1>6 DEF AskedInv, Follows
  <2>2. n \in 0 .. MaxWrites /\ n # Blank
    BY <2>1, RingAssumption DEF RingInv, Blank
  <2>3. PlaceOf(request) = Place(n)
    BY <2>1, AtPlace
  <2> QED
    BY <2>1, <2>2, <2>3 DEF WordAt
<1>6a. CASE TranslateIndex
  <2>1. ServerTypes' /\ Keep
    BY <1>6a, IndexPlace DEF TranslateIndex, ServerTypes
  <2>2. Stays(tail, head, asked, evictions) => Collected'
    BY <1>6, <1>6a DEF TranslateIndex, AskedInv, Collected
  <2>3. AskedInv'
    BY <1>6a, <2>1, <2>2, StillAsked DEF TranslateIndex
  <2> QED
    BY <2>1, <2>3, KeepInv
<1>7. CASE ReadMetaSize
  <2>1. WordAt(place) \in Nat
    <3>1. bytes[place] \in {Blank} \cup 0 .. MaxWrites
      BY <1>7 DEF ReadMetaSize, ServerTypes, RingInv
    <3> QED
      BY <3>1, Codec DEF WordAt
  <2>2. ServerTypes' /\ Keep
    BY <1>7, <2>1, KeepInv DEF ReadMetaSize, ServerTypes
  <2>3. Stays(tail, head, asked, evictions) => Collected'
    BY <1>6, <1>7 DEF ReadMetaSize, AskedInv, Collected
  <2>4. AskedInv'
    BY <1>7, <2>2, <2>3, StillAsked DEF ReadMetaSize
  <2> QED
    BY <2>2, <2>4, KeepInv
<1>8. CASE ReadMetadata
  <2>1. ServerTypes' /\ Keep
    BY <1>8, KeepInv DEF ReadMetadata, ServerTypes
  <2>2. ASSUME Stays(tail, head, asked, evictions), NEW n \in asked PROVE metadata' = Meta(n)
    <3>1. /\ meta_size = Len(Packed[n]) /\ place = Place(n) /\ bytes[Place(n)] = n
          /\ n \in 0 .. MaxWrites
      BY <1>6, <1>8, <2>2 DEF AskedInv, Collected, ReadMetadata
    <3>2. Len(Packed[n]) \in Nat /\ metadata__unpack(SubSeq(Packed[n], 1, Len(Packed[n]))) = {Meta(n)}
      BY <3>1, Codec
    <3>3. n # Blank
      BY <3>1, RingAssumption DEF Blank
    <3>4. Read(n, Len(Packed[n])) = {Meta(n)}
      BY <3>2, <3>3 DEF Read
    <3>5. metadata' \in Read(n, Len(Packed[n]))
      BY <1>8, <3>1 DEF ReadMetadata
    <3> QED
      BY <3>4, <3>5
  <2>3. Stays(tail, head, asked, evictions) => Collected'
    BY <1>8, <2>2 DEF ReadMetadata, Collected
  <2>4. AskedInv'
    BY <1>8, <2>1, <2>3, StillAsked DEF ReadMetadata
  <2> QED
    BY <2>1, <2>4, KeepInv
<1>9. CASE AnswerMeta
  <2>1. ServerTypes' /\ Keep
    BY <1>9, KeepInv DEF AnswerMeta, Respond, ServerTypes
  <2>2. Stays(tail, head, asked, evictions) => Collected'
    BY <1>9 DEF AnswerMeta, Respond, AskedInv, Collected
  <2>3. AskedInv'
    BY <1>9, <2>1, <2>2, StillAsked DEF AnswerMeta, Respond
  <2> QED
    BY <2>1, <2>3, KeepInv
<1>10. CASE Close
  <2>1. ServerTypes' /\ asked' = {} /\ Keep
    BY <1>10, KeepInv, RingAssumption DEF Close, ServerTypes, Indices
  <2> QED
    BY <2>1, KeepInv, NothingAsked
<1> QED
  BY <1>1, <1>2, <1>3, <1>4, <1>5, <1>6a, <1>7, <1>8, <1>9, <1>10 DEF Serve

LEMMA DtpStepInv == ASSUME Inv, DtpStep PROVE Inv'
<1> USE DEF Inv
<1>1. KeepServer
  BY DEF DtpStep, GetPayloadMeta, PayloadSize, TranslateChunk, ReadChunk, TransferDone
<1>2. RingInv' /\ ServerTypes' /\ AskedInv'
  BY <1>1 DEF KeepServer, ringVars, serverVars, RingInv, ServerTypes, AskedInv, Collected,
              Follows, Stays, At
<1>3. ASSUME TransferDone PROVE DtpInv'
  BY <1>3 DEF TransferDone, DtpInv
<1>4. ASSUME NEW id \in Indices, GetPayloadMeta(id) PROVE DtpInv'
  <2>1. dtp' = [phase |-> "checked", index |-> id, size |-> 0, place |-> NoPlace, chunks |-> <<>>,
                asked |-> Named(id), evictions |-> 0]
    BY <1>4 DEF GetPayloadMeta
  <2>2. /\ Follows(tail, head, bytes, Named(id), id, 0)
        /\ \A n \in Named(id) : n \in Nat /\ n < head
    BY NamedFollows
  <2>3. <<>> \in Seq(Int) /\ DOMAIN <<>> = {}
    OBVIOUS
  <2>4. \A n : Transferred(dtp', n)
    BY <2>1, <2>3 DEF Transferred
  <2> QED
    BY <1>1, <2>1, <2>2, <2>3, <2>4 DEF DtpInv, KeepServer, ringVars, Follows, Stays, At
\* The steps of a transfer keep its index, what was asked for and what was evicted.
<1>5. ASSUME dtp # NoTransfer, NEW phase \in {"checked", "serving"}, NEW size, NEW chunks \in Seq(Int),
             NEW spot \in {NoPlace} \cup 0 .. Entries - 1,
             dtp' = [phase |-> phase, index |-> dtp.index, size |-> size, place |-> spot,
                     chunks |-> chunks, asked |-> dtp.asked, evictions |-> dtp.evictions],
             Stays(tail, head, dtp.asked, dtp.evictions) =>
               \A n \in dtp.asked : Transferred(dtp', n)
      PROVE  DtpInv'
  <2>1. /\ dtp.index \in Indices /\ dtp.evictions \in Nat
        /\ \A n \in dtp.asked : n \in Nat /\ n < head
        /\ Follows(tail, head, bytes, dtp.asked, dtp.index, dtp.evictions)
    BY <1>5 DEF DtpInv
  <2> QED
    BY <1>1, <1>5, <2>1 DEF DtpInv, KeepServer, ringVars, Follows, Stays, At
<1>6. ASSUME dtp # NoTransfer, Stays(tail, head, dtp.asked, dtp.evictions), NEW n \in dtp.asked
      PROVE  Transferred(dtp, n) /\ bytes[Place(n)] = n /\ PlaceOf(dtp.index) = Place(n) /\ n # Blank
  <2>1. Place(n) = At(tail, dtp.index) /\ bytes[Place(n)] = n /\ n \in Nat
    BY <1>6 DEF DtpInv, Follows
  <2> QED
    BY <1>6, <2>1, AtPlace DEF DtpInv, Blank
<1>7. dtp # NoTransfer =>
        /\ dtp.index \in Indices /\ dtp.chunks \in Seq(Int)
        /\ dtp.phase \in {"checked", "serving"} /\ dtp.place \in {NoPlace} \cup 0 .. Entries - 1
  BY DEF DtpInv
<1>8. ASSUME PayloadSize PROVE DtpInv'
  <2> DEFINE size == IF bytes[PlaceOf(dtp.index)] = Blank THEN 0 ELSE Size(bytes[PlaceOf(dtp.index)])
  <2>1. dtp # NoTransfer
    BY <1>8 DEF PayloadSize, NoTransfer
  <2>2. dtp' = [phase |-> "serving", index |-> dtp.index, size |-> size, place |-> dtp.place,
                chunks |-> dtp.chunks, asked |-> dtp.asked, evictions |-> dtp.evictions]
    BY <1>8, <2>1 DEF PayloadSize, DtpInv
  <2>3. ASSUME Stays(tail, head, dtp.asked, dtp.evictions), NEW n \in dtp.asked
        PROVE  Transferred(dtp', n)
    <3>1. size = Size(n)
      BY <1>6, <2>1, <2>3
    <3> HIDE DEF size
    <3> QED
      BY <1>6, <2>1, <2>2, <2>3, <3>1 DEF Transferred
  <2> HIDE DEF size
  <2> QED
    BY <1>5, <1>7, <2>1, <2>2, <2>3
<1>9. ASSUME TranslateChunk PROVE DtpInv'
  <2>1. dtp # NoTransfer
    BY <1>9 DEF TranslateChunk, NoTransfer
  <2>2. dtp' = [phase |-> dtp.phase, index |-> dtp.index, size |-> dtp.size,
                place |-> PlaceOf(dtp.index),
                chunks |-> dtp.chunks, asked |-> dtp.asked, evictions |-> dtp.evictions]
    BY <1>9, <2>1 DEF TranslateChunk, DtpInv
  <2>3. PlaceOf(dtp.index) \in 0 .. Entries - 1
    BY <1>7, <2>1, IndexPlace
  <2>4. ASSUME Stays(tail, head, dtp.asked, dtp.evictions), NEW n \in dtp.asked
        PROVE  Transferred(dtp', n)
    BY <1>6, <2>1, <2>2, <2>4 DEF Transferred
  <2> QED
    BY <1>5, <1>7, <2>1, <2>2, <2>3, <2>4
<1>10. ASSUME ReadChunk PROVE DtpInv'
  <2> DEFINE chunk == bytes[dtp.place]
  <2>1. dtp # NoTransfer /\ dtp.place # NoPlace
    BY <1>10 DEF ReadChunk, NoTransfer
  <2>2. dtp' = [phase |-> dtp.phase, index |-> dtp.index, size |-> dtp.size, place |-> NoPlace,
                chunks |-> Append(dtp.chunks, chunk), asked |-> dtp.asked,
                evictions |-> dtp.evictions]
    BY <1>10, <2>1 DEF ReadChunk, DtpInv
  <2>3. chunk \in Int
    BY <1>7, <2>1, RingAssumption DEF RingInv, Blank
  <2>4. ASSUME Stays(tail, head, dtp.asked, dtp.evictions), NEW n \in dtp.asked
        PROVE  Transferred(dtp', n)
    <3>1. Transferred(dtp, n) /\ chunk = n
      BY <1>6, <2>1, <2>4 DEF Transferred
    <3> HIDE DEF chunk
    <3>2. \A k \in DOMAIN Append(dtp.chunks, chunk) : Append(dtp.chunks, chunk)[k] = n
      BY <1>7, <2>1, <2>3, <3>1 DEF Transferred
    <3> QED
      BY <2>2, <3>1, <3>2 DEF Transferred
  <2>5. Append(dtp.chunks, chunk) \in Seq(Int)
    BY <1>7, <2>1, <2>3
  <2> HIDE DEF chunk
  <2> QED
    BY <1>5, <1>7, <2>1, <2>2, <2>4, <2>5
<1>11. DtpInv'
  BY <1>3, <1>4, <1>8, <1>9, <1>10 DEF DtpStep
<1> QED
  BY <1>2, <1>11

LEMMA StepInv == ASSUME Inv, [Next]_vars PROVE Inv'
<1>1. CASE UNCHANGED vars
  <2> USE <1>1 DEF vars, ringVars, serverVars, Inv
  <2>1. RingInv' /\ ServerTypes'
    BY DEF RingInv, ServerTypes
  <2>2. AskedInv'
    BY DEF AskedInv, Collected, Follows, Stays, At
  <2>3. DtpInv'
    BY DEF DtpInv, Transferred, Follows, Stays, At
  <2> QED
    BY <2>1, <2>2, <2>3
<1> QED
  BY <1>1, UploadInv, DiesInv, RestartInv, ServeInv, DtpStepInv DEF Next, Crash

LEMMA Invariance == Spec => []Inv
BY InitInv, StepInv, PTL DEF Spec

(***************************************************************************)
(* What follows from it.                                                   *)
(***************************************************************************)
\* Counters, places and indices keep their types, and an index names one observation at most.
THEOREM ObservationTypes == Spec => []TypeOK
<1>1. ASSUME Inv PROVE TypeOK
  <2>1. Cardinality(asked) <= 1
    <3>1. CASE asked = {}
      BY <3>1, FS_EmptySet
    <3>2. ASSUME NEW n, asked = {n} PROVE Cardinality(asked) <= 1
      <4>1. Cardinality({n}) = 1
        BY FS_Singleton, Zenon
      <4> QED
        BY <3>2, <4>1
    <3> QED
      BY <1>1, <3>1, <3>2 DEF Inv, AskedInv
  <2>2. head \in tail .. tail + Entries
    BY <1>1, RingAssumption DEF Inv, RingInv
  <2> QED
    BY <1>1, <2>1, <2>2 DEF Inv, RingInv, ServerTypes, TypeOK
<1> QED
  BY <1>1, Invariance, PTL

\* Between check and answer the server reads the ring twice, while upload writes: the answer is
\* about the observation asked for, unless that has lost its index.
THEOREM AnswersDescribeOne == Spec => []AnswerOfOneObservation
<1>1. Inv => AnswerOfOneObservation
  BY AtPlace DEF Inv, AskedInv, Collected, AnswerOfOneObservation
<1> QED
  BY <1>1, Invariance, PTL

\* So do all chunks of a transfer, and their number.
THEOREM TransfersAreWhole == Spec => []TransferOfOneObservation
<1>1. Inv => TransferOfOneObservation
  BY AtPlace DEF Inv, DtpInv, Transferred, TransferOfOneObservation, NoTransfer
<1> QED
  BY <1>1, Invariance, PTL

\* The server dies of the metadata of an observation only if that has lost its index.
THEOREM DeathsExplained == Spec => CrashOnlyWhenOvertaken
<1>1. ASSUME Inv, MetadataNull PROVE asked = {} \/ ~StillNamed(asked, evictions)
  <2> SUFFICES ASSUME NEW n \in asked, Stays(tail, head, asked, evictions) PROVE FALSE
    BY AtPlace
  <2>1. bytes[Place(n)] = n /\ n \in Nat
    BY <1>1 DEF Inv, AskedInv, Follows
  <2>2. meta_size = Len(Packed[n]) /\ place = Place(n)
    BY <1>1 DEF Inv, AskedInv, Collected, MetadataNull
  <2>3. WordAt(Place(n)) = Len(Packed[n])
    BY <2>1 DEF WordAt, Blank
  <2> QED
    BY <1>1, <2>2, <2>3 DEF MetadataNull
<1>2. Inv /\ [Next]_vars => [MetadataNull => asked = {} \/ ~StillNamed(asked, evictions)]_vars
  BY <1>1
<1> QED
  BY <1>2, Invariance, PTL DEF Spec, CrashOnlyWhenOvertaken
=============================================================================
