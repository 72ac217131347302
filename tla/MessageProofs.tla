----------------------------- MODULE MessageProofs -----------------------------
(***************************************************************************)
(* Proofs about the messages that DIPP packs and unpacks with the tables   *)
(* that protoc-c generates (Protobuf, DippMessages), whatever the number   *)
(* of their records: what is packed with the table of the metadata is      *)
(* unpacked as it was; and what comes of messages that others have packed, *)
(* with fields that the table does not know, or values of another type.    *)
(*                                                                         *)
(* The proofs go from one record to the next, by induction on the length   *)
(* of what has been read (Induction, which follows from the least element  *)
(* of a set of naturals); the functions that recurse over records, Scan    *)
(* and FlattenSeq, are first shown to satisfy their equations.             *)
(***************************************************************************)
EXTENDS DippMessages, WellFoundedInduction, TLAPS

LEMMA NatWellFounded == IsWellFoundedOn({ss \in Nat \X Nat : ss[1] < ss[2]}, Nat)
BY NatLessThanWellFounded DEF OpToRel

LEMMA LeastElement ==
  ASSUME NEW T \in SUBSET Nat, T # {}
  PROVE  \E n \in T : \A m \in T : n <= m
<1> DEFINE R == {ss \in Nat \X Nat : ss[1] < ss[2]}
<1>1. IsWellFoundedOn(R, Nat)
  BY NatWellFounded
<1> HIDE DEF R
<1>2. PICK n \in T : \A m \in T : ~(<<m, n>> \in R)
  BY <1>1, WFMin
<1>3. ASSUME NEW m \in T PROVE n <= m
  <2>1. <<m, n>> \in Nat \X Nat /\ <<m, n>>[1] = m /\ <<m, n>>[2] = n
    OBVIOUS
  <2>2. ~(m < n)
    BY <1>2, <2>1 DEF R
  <2> QED
    BY <2>2
<1> QED
  BY <1>3

LEMMA Induction ==
  ASSUME NEW T, 0 \in T, \A n \in Nat : n \in T => n + 1 \in T
  PROVE  Nat \subseteq T
<1> SUFFICES ASSUME Nat \ T # {} PROVE FALSE
  OBVIOUS
<1>1. PICK n \in Nat \ T : \A m \in Nat \ T : n <= m
  BY LeastElement
<1>2. n # 0 /\ n - 1 \in Nat
  OBVIOUS
<1>3. n - 1 \in T
  BY <1>1, <1>2
<1> QED
  BY <1>1, <1>2, <1>3

\* One record, for each of the messages so far.
ParseAll(descriptor, record, values, messages) ==
  UNION {Parse(descriptor, record, values, message) : message \in messages}

LEMMA ParseAllOfOne ==
  ASSUME NEW descriptor, NEW record, NEW values, NEW message
  PROVE  /\ ParseAll(descriptor, record, values, {message}) =
              Parse(descriptor, record, values, message)
         /\ ParseAll(descriptor, record, values, {}) = {}
<1> DEFINE parsed(m) == Parse(descriptor, record, values, m)
<1>1. UNION {parsed(m) : m \in {message}} = parsed(message) /\ UNION {parsed(m) : m \in {}} = {}
  <2> HIDE DEF parsed
  <2> QED
    OBVIOUS
<1> QED
  BY <1>1 DEF ParseAll

LEMMA ScanIsDefined ==
  ASSUME NEW descriptor, NEW wire, NEW values, Len(wire) \in Nat
  PROVE  /\ Scan(descriptor, wire, values)[0] = {descriptor.init}
         /\ \A n \in 1 .. Len(wire) :
              Scan(descriptor, wire, values)[n] =
                ParseAll(descriptor, wire[n], values[n], Scan(descriptor, wire, values)[n - 1])
<1> DEFINE Next(n, messages) == UNION {Parse(descriptor, wire[n], values[n], message) : message \in messages}
           IsScan(f, size) == f = [n \in 0 .. size |-> IF n = 0 THEN {descriptor.init} ELSE Next(n, f[n - 1])]
           Sizes == {size \in Nat : \E f : IsScan(f, size)}
<1>1. 0 \in Sizes
  <2> DEFINE f == [n \in 0 .. 0 |-> {descriptor.init}]
  <2>1. \A n \in 0 .. 0 : n = 0
    OBVIOUS
  <2>2. IsScan(f, 0)
    BY <2>1
  <2> QED
    BY <2>2
<1>2. ASSUME NEW size \in Nat, size \in Sizes PROVE size + 1 \in Sizes
  <2>1. PICK f : IsScan(f, size)
    BY <1>2
  <2> DEFINE g == [n \in 0 .. size + 1 |-> IF n <= size THEN f[n] ELSE Next(n, f[n - 1])]
  <2> HIDE DEF Next
  <2>2. ASSUME NEW n \in 0 .. size + 1
        PROVE  g[n] = IF n = 0 THEN {descriptor.init} ELSE Next(n, g[n - 1])
    <3>1. CASE n = 0
      BY <2>1, <3>1
    <3>2. CASE n # 0 /\ n <= size
      <4>1. n - 1 \in 0 .. size /\ n \in 0 .. size /\ n - 1 \in 0 .. size + 1
        BY <3>2
      <4>2. g[n] = f[n] /\ g[n - 1] = f[n - 1]
        BY <4>1
      <4> QED
        BY <2>1, <3>2, <4>1, <4>2
    <3>3. CASE n = size + 1
      <4>1. n - 1 = size /\ n - 1 \in 0 .. size + 1 /\ ~(n <= size) /\ n # 0
        BY <3>3
      <4> QED
        BY <4>1
    <3> QED
      BY <3>1, <3>2, <3>3
  <2>3. IsScan(g, size + 1)
    BY <2>2
  <2> HIDE DEF g, IsScan
  <2> QED
    BY <2>3
<1>3. PICK f : IsScan(f, Len(wire))
  <2> HIDE DEF Sizes
  <2>1. Nat \subseteq Sizes
    BY <1>1, <1>2, Induction
  <2> QED
    BY <2>1 DEF Sizes
<1>4. IsScan(Scan(descriptor, wire, values), Len(wire))
  BY <1>3 DEF Scan
<1> HIDE DEF Next
<1>5. \A n \in 1 .. Len(wire) : n \in 0 .. Len(wire) /\ n # 0
  OBVIOUS
<1>6. \A n \in 1 .. Len(wire) :
        Scan(descriptor, wire, values)[n] = Next(n, Scan(descriptor, wire, values)[n - 1])
  BY <1>4, <1>5
<1>7. Scan(descriptor, wire, values)[0] = {descriptor.init}
  BY <1>4
<1> QED
  BY <1>6, <1>7, Zenon DEF Next, ParseAll

\* Two scans agree as long as they meet the same records.
LEMMA ScanPrefix ==
  ASSUME NEW descriptor, NEW wire, NEW values, NEW longer, NEW others,
         Len(wire) \in Nat, Len(longer) \in Nat, Len(wire) <= Len(longer),
         \A n \in 1 .. Len(wire) : wire[n] = longer[n] /\ values[n] = others[n]
  PROVE  \A n \in 0 .. Len(wire) :
           Scan(descriptor, wire, values)[n] = Scan(descriptor, longer, others)[n]
<1> DEFINE a == Scan(descriptor, wire, values)
           b == Scan(descriptor, longer, others)
           Agree == {n \in Nat : n <= Len(wire) => a[n] = b[n]}
<1>1. 0 \in Agree
  <2>1. a[0] = {descriptor.init}
    BY ScanIsDefined
  <2>2. b[0] = {descriptor.init}
    BY ScanIsDefined
  <2> HIDE DEF a, b
  <2> QED
    BY <2>1, <2>2
<1>2. ASSUME NEW n \in Nat, n \in Agree PROVE n + 1 \in Agree
  <2>1. CASE n + 1 <= Len(wire)
    <3>1. n + 1 \in 1 .. Len(wire) /\ n + 1 \in 1 .. Len(longer) /\ (n + 1) - 1 = n
      BY <2>1
    <3>2. a[n] = b[n]
      BY <1>2, <2>1
    <3>3. a[n + 1] = ParseAll(descriptor, wire[n + 1], values[n + 1], a[n])
      BY <3>1, ScanIsDefined
    <3>4. b[n + 1] = ParseAll(descriptor, longer[n + 1], others[n + 1], b[n])
      BY <3>1, ScanIsDefined
    <3>5. wire[n + 1] = longer[n + 1] /\ values[n + 1] = others[n + 1]
      BY <3>1
    <3>6. b[n + 1] = ParseAll(descriptor, wire[n + 1], values[n + 1], a[n])
      <4> HIDE DEF a, b
      <4> QED
        BY <3>2, <3>4, <3>5
    <3>7. a[n + 1] = b[n + 1]
      <4> HIDE DEF a, b
      <4> QED
        BY <3>3, <3>6
    <3> HIDE DEF a, b
    <3> QED
      BY <3>7
  <2>2. CASE ~(n + 1 <= Len(wire))
    BY <2>2
  <2> QED
    BY <2>1, <2>2
<1> HIDE DEF a, b
<1>3. Nat \subseteq Agree
  <2> HIDE DEF Agree
  <2> QED
    BY <1>1, <1>2, Induction
<1>4. \A n \in 0 .. Len(wire) : n \in Nat /\ n <= Len(wire)
  OBVIOUS
<1> QED
  BY <1>3, <1>4 DEF a, b

\* One record more.
With(wire, record) == Append(wire, record)

LEMMA WithRecord ==
  ASSUME NEW R, NEW wire \in Seq(R), NEW record \in R
  PROVE  /\ With(wire, record) = wire \o <<record>>
         /\ With(wire, record) \in Seq(R)
         /\ Len(wire) \in Nat /\ Len(With(wire, record)) = Len(wire) + 1
         /\ DOMAIN wire = 1 .. Len(wire) /\ DOMAIN With(wire, record) = 1 .. Len(wire) + 1
         /\ With(wire, record)[Len(wire) + 1] = record
         /\ \A n \in 1 .. Len(wire) : With(wire, record)[n] = wire[n]
BY DEF With

\* The last record of a packed message is the last to be stored.
LEMMA UnpackAppend ==
  ASSUME NEW descriptor, NEW R, NEW wire \in Seq(R), NEW record \in R
  PROVE  /\ Unpack(descriptor, With(wire, record)) =
              ParseAll(descriptor, record, Values(descriptor, record), Unpack(descriptor, wire))
         /\ UnpackItem(descriptor, With(wire, record)) =
              ParseAll(descriptor, record, {record.value}, UnpackItem(descriptor, wire))
<1> DEFINE size == Len(wire)
           longer == With(wire, record)
<1>1. /\ size \in Nat /\ Len(longer) = size + 1 /\ longer[size + 1] = record
      /\ DOMAIN wire = 1 .. size /\ DOMAIN longer = 1 .. size + 1
      /\ \A n \in 1 .. size : wire[n] = longer[n]
  BY DEF With
<1>2. size + 1 \in 1 .. Len(longer) /\ (size + 1) - 1 = size /\ size \in 0 .. size /\ size <= Len(longer)
      /\ \A n \in 1 .. size : n \in 1 .. size + 1
  BY <1>1
<1> HIDE DEF size, longer
<1>3. ASSUME NEW values, NEW others, \A n \in 1 .. size : values[n] = others[n]
      PROVE  Scan(descriptor, longer, others)[size + 1] =
               ParseAll(descriptor, record, others[size + 1], Scan(descriptor, wire, values)[size])
  <2>1. Scan(descriptor, wire, values)[size] = Scan(descriptor, longer, others)[size]
    <3>1. Len(wire) = size
      BY DEF size
    <3>2. \A n \in 0 .. Len(wire) : Scan(descriptor, wire, values)[n] = Scan(descriptor, longer, others)[n]
      BY <1>1, <1>2, <1>3, <3>1, ScanPrefix
    <3> QED
      BY <1>2, <3>1, <3>2
  <2>2. Scan(descriptor, longer, others)[size + 1] =
          ParseAll(descriptor, longer[size + 1], others[size + 1],
                   Scan(descriptor, longer, others)[(size + 1) - 1])
    <3>1. PICK last : last = size + 1
      OBVIOUS
    <3>2. last \in 1 .. Len(longer) /\ Len(longer) \in Nat
      BY <1>1, <1>2, <3>1
    <3>3. Scan(descriptor, longer, others)[last] =
            ParseAll(descriptor, longer[last], others[last], Scan(descriptor, longer, others)[last - 1])
      BY <3>2, ScanIsDefined
    <3> QED
      BY <3>1, <3>3
  <2>3. (size + 1) - 1 = size /\ longer[size + 1] = record
    BY <1>1, <1>2
  <2> QED
    BY <2>1, <2>2, <2>3
<1>4. Unpack(descriptor, longer) =
        ParseAll(descriptor, record, Values(descriptor, record), Unpack(descriptor, wire))
  <2> DEFINE values == [n \in DOMAIN wire |-> Values(descriptor, wire[n])]
             others == [n \in DOMAIN longer |-> Values(descriptor, longer[n])]
  <2>1. \A n \in 1 .. size : values[n] = others[n]
    BY <1>1, <1>2
  <2>2. others[size + 1] = Values(descriptor, record)
    BY <1>1, <1>2
  <2>3. Unpack(descriptor, longer) = Scan(descriptor, longer, others)[size + 1]
    BY <1>1 DEF Unpack
  <2>4. Unpack(descriptor, wire) = Scan(descriptor, wire, values)[size]
    BY DEF Unpack, size
  <2> HIDE DEF values, others
  <2> QED
    BY <1>3, <2>1, <2>2, <2>3, <2>4
<1>5. UnpackItem(descriptor, longer) =
        ParseAll(descriptor, record, {record.value}, UnpackItem(descriptor, wire))
  <2> DEFINE values == [n \in DOMAIN wire |-> {wire[n].value}]
             others == [n \in DOMAIN longer |-> {longer[n].value}]
  <2>1. \A n \in 1 .. size : values[n] = others[n]
    BY <1>1, <1>2
  <2>2. others[size + 1] = {record.value}
    BY <1>1, <1>2
  <2>3. UnpackItem(descriptor, longer) = Scan(descriptor, longer, others)[size + 1]
    BY <1>1 DEF UnpackItem
  <2>4. UnpackItem(descriptor, wire) = Scan(descriptor, wire, values)[size]
    BY DEF UnpackItem, size
  <2> HIDE DEF values, others
  <2> QED
    BY <1>3, <2>1, <2>2, <2>3, <2>4
<1> QED
  BY <1>4, <1>5 DEF longer

LEMMA UnpackAppendMessage ==
  ASSUME NEW descriptor, NEW R, NEW wire \in Seq(R), NEW record \in R
  PROVE  Unpack(descriptor, With(wire, record)) =
           ParseAll(descriptor, record, Values(descriptor, record), Unpack(descriptor, wire))
BY UnpackAppend, Zenon

LEMMA UnpackAppendItem ==
  ASSUME NEW descriptor, NEW R, NEW wire \in Seq(R), NEW record \in R
  PROVE  UnpackItem(descriptor, With(wire, record)) =
           ParseAll(descriptor, record, {record.value}, UnpackItem(descriptor, wire))
BY UnpackAppend, Zenon

\* Without records the message is what its init function leaves.
LEMMA UnpackNothing ==
  ASSUME NEW descriptor
  PROVE  Unpack(descriptor, <<>>) = {descriptor.init} /\ UnpackItem(descriptor, <<>>) = {descriptor.init}
<1>1. Len(<<>>) = 0
  OBVIOUS
<1> QED
  BY <1>1, ScanIsDefined DEF Unpack, UnpackItem

-----------------------------------------------------------------------------
(* Packing: FlattenSeq, and the parts it is made of.                       *)

Joined(wire, part) == wire \o part

LEMMA JoinedParts ==
  ASSUME NEW R, NEW wire \in Seq(R)
  PROVE  /\ Joined(wire, <<>>) = wire
         /\ \A record \in R : Joined(wire, <<record>>) = With(wire, record)
BY DEF Joined, With

\* FlattenSeq joins the sequences one after the other.
LEMMA FlattenIsDefined ==
  ASSUME NEW seqs, Len(seqs) \in Nat \ {0}
  PROVE  \E f : /\ FlattenSeq(seqs) = f[Len(seqs)]
                /\ f[1] = seqs[1]
                /\ \A n \in 2 .. Len(seqs) : f[n] = Joined(f[n - 1], seqs[n])
<1> DEFINE Join(before, n) == before \o seqs[n]
           IsFlat(f, size) == f = [n \in 1 .. size |-> IF n = 1 THEN seqs[n] ELSE Join(f[n - 1], n)]
           Sizes == {size \in Nat : \E f : IsFlat(f, size + 1)}
<1>1. 0 \in Sizes
  <2> DEFINE f == [n \in 1 .. 1 |-> seqs[n]]
  <2>1. \A n \in 1 .. 1 : n = 1
    OBVIOUS
  <2>2. IsFlat(f, 1)
    BY <2>1
  <2> HIDE DEF f, IsFlat
  <2> QED
    BY <2>2
<1>2. ASSUME NEW size \in Nat, size \in Sizes PROVE size + 1 \in Sizes
  <2> DEFINE last == size + 1
  <2>1. PICK f : IsFlat(f, last)
    BY <1>2
  <2>2. last \in Nat \ {0}
    OBVIOUS
  <2> HIDE DEF last
  <2> DEFINE g == [n \in 1 .. last + 1 |-> IF n <= last THEN f[n] ELSE Join(f[n - 1], n)]
  <2> HIDE DEF Join
  <2>3. ASSUME NEW n \in 1 .. last + 1
        PROVE  g[n] = IF n = 1 THEN seqs[n] ELSE Join(g[n - 1], n)
    <3>1. CASE n = 1
      <4>1. n \in 1 .. last /\ n <= last
        BY <2>2, <3>1
      <4>2. g[n] = f[n]
        BY <4>1
      <4> QED
        BY <2>1, <3>1, <4>1, <4>2
    <3>2. CASE n # 1 /\ n <= last
      <4>1. n - 1 \in 1 .. last /\ n \in 1 .. last /\ n - 1 \in 1 .. last + 1
        BY <2>2, <3>2
      <4>2. g[n] = f[n] /\ g[n - 1] = f[n - 1]
        BY <2>2, <4>1
      <4> QED
        BY <2>1, <3>2, <4>1, <4>2
    <3>3. CASE n = last + 1
      <4>1. n - 1 = last /\ n - 1 \in 1 .. last + 1 /\ ~(n <= last) /\ n # 1
        BY <2>2, <3>3
      <4>2. g[n - 1] = f[n - 1] /\ g[n] = Join(f[n - 1], n)
        BY <2>2, <4>1
      <4> QED
        BY <4>1, <4>2
    <3> QED
      BY <2>2, <3>1, <3>2, <3>3
  <2>4. IsFlat(g, last + 1)
    BY <2>3
  <2> HIDE DEF g, IsFlat
  <2> QED
    BY <2>4 DEF last
<1>3. PICK f : IsFlat(f, Len(seqs))
  <2>1. Len(seqs) - 1 \in Nat /\ (Len(seqs) - 1) + 1 = Len(seqs)
    OBVIOUS
  <2> HIDE DEF Sizes
  <2>2. Nat \subseteq Sizes
    BY <1>1, <1>2, Induction
  <2>3. Len(seqs) - 1 \in Sizes
    BY <2>1, <2>2
  <2> HIDE DEF IsFlat
  <2> QED
    BY <2>1, <2>3 DEF Sizes
<1> DEFINE flatten == CHOOSE g : IsFlat(g, Len(seqs))
<1>4. IsFlat(flatten, Len(seqs))
  BY <1>3
<1>5. FlattenSeq(seqs) = flatten[Len(seqs)]
  BY DEF FlattenSeq
<1>6. flatten[1] = seqs[1] /\ \A n \in 2 .. Len(seqs) : flatten[n] = Join(flatten[n - 1], n)
  <2>1. 1 \in 1 .. Len(seqs) /\ \A n \in 2 .. Len(seqs) : n \in 1 .. Len(seqs) /\ n # 1
    OBVIOUS
  <2> HIDE DEF flatten, Join
  <2> QED
    BY <1>4, <2>1
<1> HIDE DEF flatten
<1> QED
  BY <1>5, <1>6 DEF Joined

-----------------------------------------------------------------------------
(* The tables: all number their fields from 1.                             *)

LEMMA IndexOfNumber ==
  ASSUME NEW descriptor, NEW size \in Nat, descriptor.number_ranges = << <<1, 0>>, <<0, size>> >>,
         NEW number \in Int
  PROVE  IndexOf(descriptor, number) = IF number \in 1 .. size THEN {number} ELSE {}
<1>1. Len(descriptor.number_ranges) - 1 = 1
      /\ descriptor.number_ranges[1] = <<1, 0>> /\ descriptor.number_ranges[2] = <<0, size>>
  OBVIOUS
<1>2. /\ descriptor.number_ranges[1][1] = 1 /\ descriptor.number_ranges[1][2] = 0
      /\ descriptor.number_ranges[1 + 1][2] = size
  BY <1>1
<1>3. \A r : r \in 1 .. Len(descriptor.number_ranges) - 1 <=> r = 1
  BY <1>1
<1>4. number - 1 \in 0 .. size - 0 - 1 <=> number \in 1 .. size
  OBVIOUS
<1>5. number - 1 + 0 + 1 = number
  OBVIOUS
<1> QED
  BY <1>2, <1>3, <1>4, <1>5 DEF IndexOf

LEMMA FieldOfNumber ==
  ASSUME NEW descriptor, NEW size \in Nat, descriptor.number_ranges = << <<1, 0>>, <<0, size>> >>,
         NEW record, record.number \in Int
  PROVE  FieldOf(descriptor, record) =
           IF record.number \in 1 .. size THEN {descriptor.fields[record.number]} ELSE {}
BY IndexOfNumber DEF FieldOf

-----------------------------------------------------------------------------
(* One record of a packed message: it is parsed as the field it was packed *)
(* from.                                                                   *)

\* The types of the generated tables; a field that is neither repeated nor in a oneof.
Types == {"BOOL", "INT32", "FLOAT", "STRING", "MESSAGE"}

LEMMA WireTypeOfType ==
  ASSUME NEW type \in Types PROVE WireType(type) \in WireTypes
BY DEF Types, WireType, WireTypes

\* A table that has this field at the place of its number.
Has(descriptor, field) ==
  /\ field.number \in Nat \ {0}
  /\ \E size \in Nat :
       descriptor.number_ranges = << <<1, 0>>, <<0, size>> >> /\ field.number <= size
  /\ descriptor.fields[field.number] = field

LEMMA ParseOwn ==
  ASSUME NEW descriptor, NEW field, Has(descriptor, field), NEW value, NEW values, NEW message
  PROVE  /\ FieldOf(descriptor, Record(field, value)) = {field}
         /\ Matching(descriptor, Record(field, value)) = {field}
         /\ Parse(descriptor, Record(field, value), values, message) =
              {Store(field, v, message) : v \in values}
<1> DEFINE record == Record(field, value)
<1>1. record.number = field.number /\ record.wire_type = WireType(field.type)
  BY DEF Record
<1>2. PICK size \in Nat :
        descriptor.number_ranges = << <<1, 0>>, <<0, size>> >> /\ field.number <= size
  BY DEF Has
<1>3. field.number \in Nat \ {0} /\ descriptor.fields[field.number] = field
  BY DEF Has
<1>4. record.number \in Int /\ record.number \in 1 .. size
  BY <1>1, <1>2, <1>3
<1> HIDE DEF record
<1>5. FieldOf(descriptor, record) = {descriptor.fields[record.number]}
  BY <1>2, <1>4, FieldOfNumber
<1>6. FieldOf(descriptor, record) = {field}
  BY <1>1, <1>3, <1>5
<1>7. Matching(descriptor, record) = {field}
  BY <1>1, <1>6 DEF Matching, Accepts
<1>8. Parse(descriptor, record, values, message) = {Store(field, v, message) : v \in values}
  <2>1. Parse(descriptor, record, values, message) =
          {Store(f, v, message) : f \in Matching(descriptor, record), v \in values}
    BY <1>6 DEF Parse
  <2> QED
    BY <1>7, <2>1
<1> QED
  BY <1>6, <1>7, <1>8 DEF record

\* What one more record does to what has been unpacked.
LEMMA ParseScalar ==
  ASSUME NEW descriptor, NEW field, Has(descriptor, field), NEW value, NEW message
  PROVE  ParseAll(descriptor, Record(field, value), {value}, {message}) = {Store(field, value, message)}
<1>1. \A values : Parse(descriptor, Record(field, value), values, message) =
                    {Store(field, v, message) : v \in values}
  BY ParseOwn
<1>2. Parse(descriptor, Record(field, value), {value}, message) = {Store(field, value, message)}
  BY <1>1
<1> QED
  BY <1>2, ParseAllOfOne

LEMMA UnpackScalar ==
  ASSUME NEW descriptor, NEW R, NEW wire \in Seq(R), NEW field, Has(descriptor, field),
         field.label # "REPEATED", NEW value, Record(field, value) \in R,
         NEW message, Unpack(descriptor, wire) = {message}
  PROVE  Unpack(descriptor, With(wire, Record(field, value))) = {Store(field, value, message)}
<1>1. PICK record \in R : record = Record(field, value)
  OBVIOUS
<1>2. Matching(descriptor, record) = {field} /\ record.value = value
  BY <1>1, ParseOwn DEF Record
<1>3. Values(descriptor, record) = {value}
  BY <1>2 DEF Values
<1>4. Unpack(descriptor, With(wire, record)) =
        ParseAll(descriptor, record, Values(descriptor, record), Unpack(descriptor, wire))
  BY UnpackAppendMessage, Zenon
<1>5. Unpack(descriptor, With(wire, record)) = ParseAll(descriptor, record, {value}, {message})
  BY <1>3, <1>4
<1> QED
  BY <1>1, <1>5, ParseScalar

LEMMA UnpackItemScalar ==
  ASSUME NEW descriptor, NEW R, NEW wire \in Seq(R), NEW field, Has(descriptor, field),
         NEW value, Record(field, value) \in R,
         NEW message, UnpackItem(descriptor, wire) = {message}
  PROVE  UnpackItem(descriptor, With(wire, Record(field, value))) = {Store(field, value, message)}
<1>1. PICK record \in R : record = Record(field, value)
  OBVIOUS
<1>2. record.value = value
  BY <1>1 DEF Record
<1>3. UnpackItem(descriptor, With(wire, record)) =
        ParseAll(descriptor, record, {record.value}, UnpackItem(descriptor, wire))
  BY UnpackAppendItem, Zenon
<1>4. UnpackItem(descriptor, With(wire, record)) = ParseAll(descriptor, record, {value}, {message})
  BY <1>2, <1>3
<1> QED
  BY <1>1, <1>4, ParseScalar

-----------------------------------------------------------------------------
(* The fields of a message, one after the other.                           *)

\* A message of which only the fields of these names have been unpacked.
Filled(descriptor, message, names) ==
  [x \in DOMAIN descriptor.init |-> IF x \in names THEN message[x] ELSE descriptor.init[x]]

IsScalar(descriptor, field) ==
  /\ Has(descriptor, field) /\ ~field.oneof /\ field.label # "REPEATED" /\ field.type # "BOOL"
  /\ field.name \in DOMAIN descriptor.init /\ descriptor.init[field.name] = 0

\* A scalar that is 0 is left out, and its field stays as init has left it.
LEMMA ScalarPart ==
  ASSUME NEW descriptor, NEW field, IsScalar(descriptor, field),
         NEW message, NEW names, field.name \notin names
  PROVE  \/ /\ PackField(field, message) = <<>>
            /\ Filled(descriptor, message, names \cup {field.name}) = Filled(descriptor, message, names)
         \/ /\ PackField(field, message) = <<Record(field, message[field.name])>>
            /\ Store(field, message[field.name], Filled(descriptor, message, names)) =
                 Filled(descriptor, message, names \cup {field.name})
<1> USE DEF IsScalar
<1>1. CASE message[field.name] = 0
  <2>1. PackField(field, message) = <<>>
    BY <1>1 DEF PackField
  <2>2. Filled(descriptor, message, names \cup {field.name}) = Filled(descriptor, message, names)
    BY <1>1 DEF Filled
  <2> QED
    BY <2>1, <2>2
<1>2. CASE message[field.name] # 0
  <2>1. PackField(field, message) = <<Record(field, message[field.name])>>
    BY <1>2 DEF PackField
  <2>2. Store(field, message[field.name], Filled(descriptor, message, names)) =
          Filled(descriptor, message, names \cup {field.name})
    BY DEF Store, Parsed, Filled
  <2> QED
    BY <2>1, <2>2
<1> QED
  BY <1>1, <1>2

LEMMA ScalarStep ==
  ASSUME NEW descriptor, NEW R, NEW wire \in Seq(R), NEW field, IsScalar(descriptor, field),
         NEW message, NEW names, field.name \notin names, Record(field, message[field.name]) \in R,
         Unpack(descriptor, wire) = {Filled(descriptor, message, names)}
  PROVE  /\ Joined(wire, PackField(field, message)) \in Seq(R)
         /\ Unpack(descriptor, Joined(wire, PackField(field, message))) =
              {Filled(descriptor, message, names \cup {field.name})}
<1> DEFINE before == Filled(descriptor, message, names)
           after == Filled(descriptor, message, names \cup {field.name})
           value == message[field.name]
<1> HIDE DEF before, after, value
<1>1. \/ PackField(field, message) = <<>> /\ after = before
      \/ PackField(field, message) = <<Record(field, value)>> /\ Store(field, value, before) = after
  BY ScalarPart DEF before, after, value
<1>2. CASE PackField(field, message) = <<>> /\ after = before
  <2>1. Joined(wire, PackField(field, message)) = wire
    BY <1>2, JoinedParts
  <2> QED
    BY <1>2, <2>1 DEF before, after
<1>3. CASE PackField(field, message) = <<Record(field, value)>> /\ Store(field, value, before) = after
  <2>1. PICK record \in R : record = Record(field, value)
    BY DEF value
  <2>2. Joined(wire, PackField(field, message)) = With(wire, record) /\ With(wire, record) \in Seq(R)
    BY <1>3, <2>1, JoinedParts, WithRecord
  <2>3. Unpack(descriptor, With(wire, Record(field, value))) = {Store(field, value, before)}
    <3>1. Unpack(descriptor, wire) = {before} /\ Record(field, value) \in R
      BY <2>1 DEF before
    <3>2. Has(descriptor, field) /\ field.label # "REPEATED"
      BY DEF IsScalar
    <3> QED
      BY <3>1, <3>2, UnpackScalar
  <2> QED
    BY <1>3, <2>1, <2>2, <2>3 DEF after
<1> QED
  BY <1>1, <1>2, <1>3

LEMMA ItemScalarStep ==
  ASSUME NEW descriptor, NEW R, NEW wire \in Seq(R), NEW field, IsScalar(descriptor, field),
         NEW message, NEW names, field.name \notin names, Record(field, message[field.name]) \in R,
         UnpackItem(descriptor, wire) = {Filled(descriptor, message, names)}
  PROVE  /\ Joined(wire, PackField(field, message)) \in Seq(R)
         /\ UnpackItem(descriptor, Joined(wire, PackField(field, message))) =
              {Filled(descriptor, message, names \cup {field.name})}
<1> DEFINE before == Filled(descriptor, message, names)
           after == Filled(descriptor, message, names \cup {field.name})
           value == message[field.name]
<1> HIDE DEF before, after, value
<1>1. \/ PackField(field, message) = <<>> /\ after = before
      \/ PackField(field, message) = <<Record(field, value)>> /\ Store(field, value, before) = after
  BY ScalarPart DEF before, after, value
<1>2. CASE PackField(field, message) = <<>> /\ after = before
  <2>1. Joined(wire, PackField(field, message)) = wire
    BY <1>2, JoinedParts
  <2> QED
    BY <1>2, <2>1 DEF before, after
<1>3. CASE PackField(field, message) = <<Record(field, value)>> /\ Store(field, value, before) = after
  <2>1. PICK record \in R : record = Record(field, value)
    BY DEF value
  <2>2. Joined(wire, PackField(field, message)) = With(wire, record) /\ With(wire, record) \in Seq(R)
    BY <1>3, <2>1, JoinedParts, WithRecord
  <2>3. UnpackItem(descriptor, With(wire, Record(field, value))) = {Store(field, value, before)}
    <3>1. UnpackItem(descriptor, wire) = {before} /\ Record(field, value) \in R
      BY <2>1 DEF before
    <3>2. Has(descriptor, field) /\ field.label # "REPEATED"
      BY DEF IsScalar
    <3> QED
      BY <3>1, <3>2, UnpackItemScalar
  <2> QED
    BY <1>3, <2>1, <2>2, <2>3 DEF after
<1> QED
  BY <1>1, <1>2, <1>3

\* The names of an item once its key and the members of these numbers have been unpacked.
Known(item, numbers) ==
  IF item.value_case \in numbers THEN {"key", "value_case", "value"} ELSE {"key"}

IsMember(descriptor, field) ==
  /\ Has(descriptor, field) /\ field.oneof
  /\ DOMAIN descriptor.init = {"key", "value_case", "value"}

LEMMA OneOfStep ==
  ASSUME NEW descriptor, NEW R, NEW wire \in Seq(R), NEW field, IsMember(descriptor, field),
         NEW item, NEW numbers, field.number \notin numbers,
         item.value_case = field.number =>
           /\ Record(field, item.value) \in R
           /\ field.type = "STRING" => item.value # 0
           /\ field.type = "BOOL" => item.value \in {0, 1},
         UnpackItem(descriptor, wire) = {Filled(descriptor, item, Known(item, numbers))}
  PROVE  /\ Joined(wire, PackField(field, item)) \in Seq(R)
         /\ UnpackItem(descriptor, Joined(wire, PackField(field, item))) =
              {Filled(descriptor, item, Known(item, numbers \cup {field.number}))}
<1> DEFINE before == Filled(descriptor, item, Known(item, numbers))
           after == Filled(descriptor, item, Known(item, numbers \cup {field.number}))
<1> USE DEF IsMember
<1>1. CASE item.value_case # field.number
  <2>1. PackField(field, item) = <<>>
    BY <1>1 DEF PackField
  <2>2. Known(item, numbers \cup {field.number}) = Known(item, numbers)
    BY <1>1 DEF Known
  <2>3. Joined(wire, PackField(field, item)) = wire
    BY <2>1, JoinedParts
  <2> QED
    BY <2>2, <2>3
<1>2. CASE item.value_case = field.number
  <2> DEFINE value == item.value
             record == Record(field, value)
  <2>1. PackField(field, item) = <<record>>
    BY <1>2 DEF PackField
  <2>2. record \in R
    BY <1>2
  <2>3. Store(field, value, before) = after
    <3>1. Parsed(field, value) = value
      BY <1>2 DEF Parsed, Truth
    <3> HIDE DEF value
    <3>2. Store(field, value, before) =
            [before EXCEPT !.value_case = field.number, !.value = value]
      BY <3>1 DEF Store
    <3> QED
      BY <1>2, <3>2 DEF Filled, Known, value
  <2> HIDE DEF value, before, after
  <2>4. Joined(wire, PackField(field, item)) = With(wire, record) /\ With(wire, record) \in Seq(R)
    <3> HIDE DEF record
    <3> QED
      BY <2>1, <2>2, JoinedParts, WithRecord
  <2>5. UnpackItem(descriptor, With(wire, record)) = {Store(field, value, before)}
    <3>1. UnpackItem(descriptor, wire) = {before}
      BY DEF before
    <3> QED
      BY <2>2, <3>1, UnpackItemScalar
  <2> HIDE DEF record
  <2> QED
    BY <2>3, <2>4, <2>5 DEF before, after
<1> QED
  BY <1>1, <1>2

-----------------------------------------------------------------------------
(* Items: a key and one value of a oneof, which is 0 if none is set, is not *)
(* the default if it is a string, and is 0 or 1 if it is a bool.            *)

Items(V) ==
  {item \in [key : V, value_case : {0} \cup CONFIG_PARAMETER__VALUE, value : V] :
     /\ item.value_case = 0 => item.value = 0
     /\ item.value_case = 5 => item.value # 0
     /\ item.value_case = 2 => item.value \in {0, 1}}

LEMMA ItemTable ==
  LET descriptor == metadata_item__descriptor IN
  /\ descriptor.init = [key |-> 0, value_case |-> 0, value |-> 0]
  /\ DOMAIN descriptor.init = {"key", "value_case", "value"}
  /\ DOMAIN descriptor.fields = 1 .. 5
  /\ descriptor.fields[1] = Field("key", 1, "STRING")
  /\ descriptor.fields[2] = OneOf("bool_value", 2, "BOOL")
  /\ descriptor.fields[3] = OneOf("int_value", 3, "INT32")
  /\ descriptor.fields[4] = OneOf("float_value", 4, "FLOAT")
  /\ descriptor.fields[5] = OneOf("string_value", 5, "STRING")
  /\ \A k \in 1 .. 5 :
       /\ Has(descriptor, descriptor.fields[k])
       /\ descriptor.fields[k].number = k /\ descriptor.fields[k].type \in Types
       /\ descriptor.fields[k].label = "NONE"
  /\ descriptor.fields[1].oneof = FALSE
  /\ \A k \in 2 .. 5 : descriptor.fields[k].oneof = TRUE
<1> DEFINE descriptor == metadata_item__descriptor
<1>1. /\ descriptor.init = [key |-> 0, value_case |-> 0, value |-> 0]
      /\ descriptor.fields = metadata_item__field_descriptors
      /\ descriptor.number_ranges = << <<1, 0>>, <<0, 5>> >>
  BY DEF metadata_item__descriptor, Descriptor, metadata_item__init, metadata_item__number_ranges
<1>2. /\ DOMAIN metadata_item__field_descriptors = 1 .. 5
      /\ metadata_item__field_descriptors[1] = Field("key", 1, "STRING")
      /\ metadata_item__field_descriptors[2] = OneOf("bool_value", 2, "BOOL")
      /\ metadata_item__field_descriptors[3] = OneOf("int_value", 3, "INT32")
      /\ metadata_item__field_descriptors[4] = OneOf("float_value", 4, "FLOAT")
      /\ metadata_item__field_descriptors[5] = OneOf("string_value", 5, "STRING")
  BY DEF metadata_item__field_descriptors
<1>3. \A name, number, type :
        /\ Field(name, number, type).name = name /\ OneOf(name, number, type).name = name
        /\ Field(name, number, type).number = number /\ OneOf(name, number, type).number = number
        /\ Field(name, number, type).type = type /\ OneOf(name, number, type).type = type
        /\ Field(name, number, type).label = "NONE" /\ OneOf(name, number, type).label = "NONE"
        /\ Field(name, number, type).oneof = FALSE /\ OneOf(name, number, type).oneof = TRUE
  BY DEF Field, OneOf
<1>4. ASSUME NEW k \in 1 .. 5
      PROVE  /\ descriptor.fields[k].number = k
             /\ descriptor.fields[k].type \in Types
             /\ descriptor.fields[k].label = "NONE"
  <2>1. k = 1 \/ k = 2 \/ k = 3 \/ k = 4 \/ k = 5
    OBVIOUS
  <2>2. PICK field : field = descriptor.fields[k]
    OBVIOUS
  <2>3. \/ k = 1 /\ field = Field("key", 1, "STRING")
        \/ k = 2 /\ field = OneOf("bool_value", 2, "BOOL")
        \/ k = 3 /\ field = OneOf("int_value", 3, "INT32")
        \/ k = 4 /\ field = OneOf("float_value", 4, "FLOAT")
        \/ k = 5 /\ field = OneOf("string_value", 5, "STRING")
    BY <1>1, <1>2, <2>1, <2>2
  <2>4. field.number = k /\ field.label = "NONE" /\ field.type \in Types
    BY <1>3, <2>3 DEF Types
  <2> QED
    BY <2>2, <2>4
<1>6. descriptor.fields[1].oneof = FALSE
  BY <1>1, <1>2, <1>3
<1>7. ASSUME NEW k \in 2 .. 5 PROVE descriptor.fields[k].oneof = TRUE
  <2>1. k = 2 \/ k = 3 \/ k = 4 \/ k = 5
    OBVIOUS
  <2> QED
    BY <1>1, <1>2, <1>3, <2>1
<1>5. \A k \in 1 .. 5 : Has(descriptor, descriptor.fields[k])
  <2>1. \A k \in 1 .. 5 : k \in Nat \ {0} /\ 5 \in Nat /\ k <= 5
    OBVIOUS
  <2> QED
    BY <1>1, <1>4, <2>1 DEF Has
<1> QED
  BY <1>1, <1>2, <1>4, <1>5, <1>6, <1>7

\* An item comes back as it was packed.
LEMMA ItemRoundTrip ==
  ASSUME NEW V, NEW item \in Items(V)
  PROVE  /\ PackItem(metadata_item__descriptor, item) \in Seq(Records(V))
         /\ UnpackItem(metadata_item__descriptor, PackItem(metadata_item__descriptor, item)) = {item}
<1> DEFINE descriptor == metadata_item__descriptor
           R == Records(V)
           parts == [k \in 1 .. 5 |-> PackField(descriptor.fields[k], item)]
<1>1. /\ item.key \in V /\ item.value \in V /\ item.value_case \in {0, 2, 3, 4, 5}
      /\ item.value_case = 0 => item.value = 0
      /\ item.value_case = 5 => item.value # 0
      /\ item.value_case = 2 => item.value \in {0, 1}
      /\ item = [key |-> item.key, value_case |-> item.value_case, value |-> item.value]
  BY DEF Items, CONFIG_PARAMETER__VALUE
<1>2. DOMAIN descriptor.fields = 1 .. 5
  BY ItemTable
<1>3. PackItem(descriptor, item) = FlattenSeq(parts)
  BY <1>2 DEF PackItem
<1>4. Len(parts) = 5
  OBVIOUS
<1> DEFINE fields == descriptor.fields
<1>5. \A k \in 1 .. 5 : parts[k] = PackField(fields[k], item)
  OBVIOUS
<1> HIDE DEF parts
<1>6. PICK f : /\ FlattenSeq(parts) = f[5] /\ f[1] = parts[1]
               /\ \A n \in 2 .. 5 : f[n] = Joined(f[n - 1], parts[n])
  BY <1>4, FlattenIsDefined, SMTT(30)
<1>7. /\ f[1] = PackField(fields[1], item)
      /\ f[2] = Joined(f[1], PackField(fields[2], item))
      /\ f[3] = Joined(f[2], PackField(fields[3], item))
      /\ f[4] = Joined(f[3], PackField(fields[4], item))
      /\ f[5] = Joined(f[4], PackField(fields[5], item))
  <2>1. \A n \in 2 .. 5 : f[n] = Joined(f[n - 1], PackField(fields[n], item))
    BY <1>5, <1>6
  <2>2. f[1] = PackField(fields[1], item)
    BY <1>5, <1>6
  <2> QED
    BY <2>1, <2>2
<1>8. ASSUME NEW k \in 1 .. 5, NEW value \in V PROVE Record(fields[k], value) \in R
  <2>1. fields[k].type \in Types /\ fields[k].number \in Nat
    BY ItemTable
  <2>2. WireType(fields[k].type) \in WireTypes
    BY <2>1, WireTypeOfType
  <2> QED
    BY <2>1, <2>2 DEF Record, Records
<1>9. f[1] \in Seq(R) /\ UnpackItem(descriptor, f[1]) = {Filled(descriptor, item, {"key"})}
  <2>1. <<>> \in Seq(R)
    OBVIOUS
  <2>2. PICK field : field = fields[1]
    OBVIOUS
  <2>3. Has(descriptor, field) /\ ~field.oneof /\ field.label # "REPEATED" /\ field.name = "key"
    BY <2>2, ItemTable DEF Field
  <2>4. IsScalar(descriptor, field)
    BY <2>2, <2>3, ItemTable DEF IsScalar, Field
  <2>5. Record(field, item[field.name]) \in R
    BY <1>1, <1>8, <2>2, <2>3
  <2>6. UnpackItem(descriptor, <<>>) = {Filled(descriptor, item, {})}
    <3>1. Filled(descriptor, item, {}) = descriptor.init
      BY ItemTable DEF Filled
    <3> QED
      BY <3>1, UnpackNothing
  <2>7. Joined(<<>>, PackField(field, item)) \in Seq(R)
        /\ UnpackItem(descriptor, Joined(<<>>, PackField(field, item))) =
             {Filled(descriptor, item, {} \cup {field.name})}
    <3>1. PICK names : names = {}
      OBVIOUS
    <3>2. PICK wire \in Seq(R) : wire = <<>>
      BY <2>1
    <3>3. UnpackItem(descriptor, wire) = {Filled(descriptor, item, names)} /\ field.name \notin names
      BY <2>6, <3>1, <3>2
    <3> HIDE DEF descriptor, R
    <3>4. /\ Joined(wire, PackField(field, item)) \in Seq(R)
          /\ UnpackItem(descriptor, Joined(wire, PackField(field, item))) =
               {Filled(descriptor, item, names \cup {field.name})}
      BY <2>4, <2>5, <3>3, ItemScalarStep
    <3> QED
      BY <3>1, <3>2, <3>4
  <2>8. Joined(<<>>, PackField(field, item)) = PackField(field, item)
    BY DEF Joined, PackField
  <2> QED
    BY <1>7, <2>2, <2>3, <2>7, <2>8
<1> DEFINE Done(k) == /\ f[k] \in Seq(R)
                      /\ UnpackItem(descriptor, f[k]) = {Filled(descriptor, item, Known(item, 2 .. k))}
<1>10. ASSUME NEW k \in 2 .. 5, NEW wire \in Seq(R), f[k] = Joined(wire, PackField(fields[k], item)),
              UnpackItem(descriptor, wire) = {Filled(descriptor, item, Known(item, 2 .. k - 1))}
       PROVE  Done(k)
  <2> DEFINE numbers == 2 .. k - 1
  <2>1. PICK field : field = fields[k]
    OBVIOUS
  <2>2. k \in 1 .. 5
    OBVIOUS
  <2>3. Has(descriptor, field) /\ field.oneof /\ field.number = k
    BY <2>1, <2>2, ItemTable
  <2>4. (field.type = "STRING" => k = 5) /\ (field.type = "BOOL" => k = 2)
    <3>1. k = 2 \/ k = 3 \/ k = 4 \/ k = 5
      OBVIOUS
    <3>2. /\ fields[2].type = "BOOL" /\ fields[3].type = "INT32" /\ fields[4].type = "FLOAT"
          /\ fields[5].type = "STRING"
      BY ItemTable DEF OneOf, Field
    <3> QED
      BY <2>1, <3>1, <3>2
  <2>5. Record(field, item.value) \in R
    BY <1>1, <1>8, <2>1, <2>2
  <2>6. IsMember(descriptor, field)
    BY <2>3, ItemTable DEF IsMember
  <2>7. item.value_case = field.number =>
          /\ field.type = "STRING" => item.value # 0
          /\ field.type = "BOOL" => item.value \in {0, 1}
    BY <1>1, <2>3, <2>4
  <2>8. field.number \notin numbers /\ numbers \cup {field.number} = 2 .. k
    BY <2>3
  <2>10. UnpackItem(descriptor, wire) = {Filled(descriptor, item, Known(item, numbers))}
    BY <1>10
  <2>11. item.value_case = field.number =>
           /\ Record(field, item.value) \in R
           /\ field.type = "STRING" => item.value # 0
           /\ field.type = "BOOL" => item.value \in {0, 1}
    BY <2>5, <2>7
  <2> HIDE DEF descriptor, fields, R, numbers
  <2>9. /\ Joined(wire, PackField(field, item)) \in Seq(R)
        /\ UnpackItem(descriptor, Joined(wire, PackField(field, item))) =
             {Filled(descriptor, item, Known(item, numbers \cup {field.number}))}
    BY <2>6, <2>8, <2>10, <2>11, OneOfStep
  <2>12. Known(item, numbers \cup {field.number}) = Known(item, 2 .. k)
    BY <2>8
  <2> QED
    BY <1>10, <2>1, <2>9, <2>12
<1> HIDE DEF descriptor, fields, R
<1>11. Done(2)
  <2>1. Known(item, 2 .. 2 - 1) = {"key"}
    BY DEF Known
  <2>2. UnpackItem(descriptor, f[1]) = {Filled(descriptor, item, Known(item, 2 .. 2 - 1))}
    BY <1>9, <2>1
  <2> HIDE DEF Done
  <2> QED
    BY <1>7, <1>9, <1>10, <2>2
<1>12. ASSUME NEW k \in 3 .. 5, Done(k - 1) PROVE Done(k)
  <2>1. k \in 2 .. 5 /\ f[k] = Joined(f[k - 1], PackField(fields[k], item))
    <3>1. k = 3 \/ k = 4 \/ k = 5
      OBVIOUS
    <3> QED
      BY <1>7, <3>1
  <2>2. PICK wire \in Seq(R) : wire = f[k - 1]
    BY <1>12
  <2>3. UnpackItem(descriptor, wire) = {Filled(descriptor, item, Known(item, 2 .. k - 1))}
    BY <1>12, <2>2
  <2> HIDE DEF Done
  <2> QED
    BY <1>10, <2>1, <2>2, <2>3
<1>15. Done(5)
  <2> HIDE DEF Done
  <2>1. Done(3)
    BY <1>11, <1>12
  <2>2. Done(4)
    BY <1>12, <2>1
  <2> QED
    BY <1>12, <2>2
<1>16. Filled(descriptor, item, Known(item, 2 .. 5)) = item
  BY <1>1, ItemTable DEF Filled, Known, descriptor
<1> QED
  BY <1>3, <1>6, <1>15, <1>16 DEF descriptor, R

-----------------------------------------------------------------------------
(* Messages: scalars first, then a repeated member.                        *)

NamesOf(descriptor, k) == {descriptor.fields[j].name : j \in 1 .. k}

\* What has been unpacked after the first k parts.
ReadUpTo(descriptor, R, message, f, k) ==
  /\ f[k] \in Seq(R)
  /\ Unpack(descriptor, f[k]) = {Filled(descriptor, message, NamesOf(descriptor, k))}

LEMMA ScalarsUpTo ==
  ASSUME NEW descriptor, NEW R, NEW message, NEW f, NEW size \in Nat \ {0},
         \A k \in 1 .. size :
           /\ IsScalar(descriptor, descriptor.fields[k])
           /\ Record(descriptor.fields[k], message[descriptor.fields[k].name]) \in R
           /\ \A j \in 1 .. size :
                descriptor.fields[j].name = descriptor.fields[k].name => j = k,
         descriptor.init = [x \in DOMAIN descriptor.init |-> descriptor.init[x]],
         f[1] = PackField(descriptor.fields[1], message),
         \A k \in 2 .. size : f[k] = Joined(f[k - 1], PackField(descriptor.fields[k], message))
  PROVE  ReadUpTo(descriptor, R, message, f, size)
<1> DEFINE Done(k) == ReadUpTo(descriptor, R, message, f, k)
           T == {n \in Nat : n + 1 <= size => Done(n + 1)}
<1>1. ASSUME NEW k \in 1 .. size, NEW wire \in Seq(R),
             Unpack(descriptor, wire) = {Filled(descriptor, message, NamesOf(descriptor, k - 1))},
             f[k] = Joined(wire, PackField(descriptor.fields[k], message))
      PROVE  Done(k)
  <2> DEFINE field == descriptor.fields[k]
             names == NamesOf(descriptor, k - 1)
  <2>1. field.name \notin names
    <3>1. \A j \in 1 .. k - 1 : j \in 1 .. size /\ j # k
      OBVIOUS
    <3> QED
      BY <3>1 DEF NamesOf
  <2>2. names \cup {field.name} = NamesOf(descriptor, k)
    <3>1. \A j : j \in 1 .. k <=> j \in 1 .. k - 1 \/ j = k
      OBVIOUS
    <3> QED
      BY <3>1 DEF NamesOf
  <2>3. IsScalar(descriptor, field) /\ Record(field, message[field.name]) \in R
    OBVIOUS
  <2> HIDE DEF field, names
  <2>4. /\ Joined(wire, PackField(field, message)) \in Seq(R)
        /\ Unpack(descriptor, Joined(wire, PackField(field, message))) =
             {Filled(descriptor, message, names \cup {field.name})}
    <3>1. Unpack(descriptor, wire) = {Filled(descriptor, message, names)}
      BY <1>1 DEF names
    <3> QED
      BY <2>1, <2>3, <3>1, ScalarStep
  <2>5. f[k] = Joined(wire, PackField(field, message))
    BY <1>1 DEF field
  <2> QED
    BY <2>2, <2>4, <2>5 DEF ReadUpTo
<1>2. Done(1)
  <2>1. PICK wire \in Seq(R) : wire = <<>>
    <3>1. <<>> \in Seq(R)
      OBVIOUS
    <3> QED
      BY <3>1
  <2>2. Filled(descriptor, message, NamesOf(descriptor, 1 - 1)) = descriptor.init
    <3>1. NamesOf(descriptor, 1 - 1) = {}
      BY DEF NamesOf
    <3> QED
      BY <3>1 DEF Filled
  <2>3. Unpack(descriptor, wire) = {Filled(descriptor, message, NamesOf(descriptor, 1 - 1))}
    BY <2>1, <2>2, UnpackNothing
  <2>4. f[1] = Joined(wire, PackField(descriptor.fields[1], message))
    <3>1. PICK part : part = PackField(descriptor.fields[1], message)
      OBVIOUS
    <3>2. f[1] = part
      BY <3>1
    <3>3. part = <<>> \/ \E record : part = <<record>>
      BY <3>1 DEF PackField
    <3>4. <<>> \o part = part
      BY <3>3
    <3> QED
      BY <2>1, <3>1, <3>2, <3>4 DEF Joined
  <2>5. 1 \in 1 .. size
    OBVIOUS
  <2> HIDE DEF Done
  <2> QED
    BY <1>1, <2>3, <2>4, <2>5
<1>3. 0 \in T
  <2> HIDE DEF Done
  <2> QED
    BY <1>2
<1>4. ASSUME NEW n \in Nat, n \in T PROVE n + 1 \in T
  <2>1. CASE n + 2 <= size
    <3>1. PICK k \in 2 .. size : k = n + 2
      BY <2>1
    <3>2. k \in 1 .. size /\ k - 1 = n + 1 /\ n + 1 <= size
      BY <3>1
    <3>3. Done(k - 1)
      <4> HIDE DEF Done
      <4> QED
        BY <1>4, <3>2
    <3>4. PICK wire \in Seq(R) : wire = f[k - 1]
      BY <3>3 DEF ReadUpTo
    <3>5. Unpack(descriptor, wire) = {Filled(descriptor, message, NamesOf(descriptor, k - 1))}
      BY <3>3, <3>4 DEF ReadUpTo
    <3>6. f[k] = Joined(wire, PackField(descriptor.fields[k], message))
      BY <3>4
    <3> HIDE DEF Done
    <3>7. Done(k)
      BY <1>1, <3>2, <3>5, <3>6
    <3> QED
      BY <3>1, <3>7
  <2>2. CASE ~(n + 2 <= size)
    <3> HIDE DEF Done
    <3> QED
      BY <2>2
  <2> QED
    BY <2>1, <2>2
<1>5. size - 1 \in T
  <2> HIDE DEF T
  <2>1. Nat \subseteq T
    BY <1>3, <1>4, Induction
  <2>2. size - 1 \in Nat
    OBVIOUS
  <2> QED
    BY <2>1, <2>2
<1> QED
  <2>1. (size - 1) + 1 = size
    OBVIOUS
  <2> HIDE DEF Done
  <2>2. Done(size)
    BY <1>5, <2>1
  <2> QED
    BY <2>2 DEF Done

IsRepeated(descriptor, field) ==
  /\ Has(descriptor, field) /\ ~field.oneof /\ field.label = "REPEATED"

\* A record of the repeated member appends its item.
LEMMA UnpackRepeated ==
  ASSUME NEW descriptor, NEW R, NEW wire \in Seq(R), NEW field, IsRepeated(descriptor, field),
         NEW value, Record(field, value) \in R,
         NEW item, UnpackItem(field.descriptor, value) = {item},
         NEW message, Unpack(descriptor, wire) = {message}
  PROVE  Unpack(descriptor, With(wire, Record(field, value))) = {Store(field, item, message)}
<1>1. PICK record \in R : record = Record(field, value)
  OBVIOUS
<1>2. Has(descriptor, field) /\ ~field.oneof /\ field.label = "REPEATED"
  BY DEF IsRepeated
<1>3. Matching(descriptor, record) = {field} /\ record.value = value
  BY <1>1, <1>2, ParseOwn DEF Record
<1>4. Values(descriptor, record) = {item}
  BY <1>2, <1>3 DEF Values
<1>5. Unpack(descriptor, With(wire, record)) =
        ParseAll(descriptor, record, Values(descriptor, record), Unpack(descriptor, wire))
  BY UnpackAppendMessage, Zenon
<1>6. Unpack(descriptor, With(wire, record)) = ParseAll(descriptor, record, {item}, {message})
  BY <1>4, <1>5
<1>7. Unpack(descriptor, With(wire, record)) = Parse(descriptor, record, {item}, message)
  BY <1>6, ParseAllOfOne
<1>8. Parse(descriptor, record, {item}, message) = {Store(field, item, message)}
  <2>1. \A values : Parse(descriptor, Record(field, value), values, message) =
                      {Store(field, v, message) : v \in values}
    BY <1>2, ParseOwn
  <2> QED
    BY <1>1, <2>1
<1> QED
  BY <1>1, <1>7, <1>8

LEMMA ExceptTwice ==
  ASSUME NEW message, NEW name, NEW first, NEW second
  PROVE  [[message EXCEPT ![name] = first] EXCEPT ![name] = second] = [message EXCEPT ![name] = second]
OBVIOUS

LEMMA ExceptThere ==
  ASSUME NEW message, NEW name \in DOMAIN message, NEW first
  PROVE  [message EXCEPT ![name] = first][name] = first
OBVIOUS

LEMMA IsSequence ==
  ASSUME NEW R, NEW size \in Nat, NEW s \in [1 .. size -> R]
  PROVE  s \in Seq(R)
OBVIOUS

IsFunction(message) == message = [x \in DOMAIN message |-> message[x]]
Setting(message, name, value) == [message EXCEPT ![name] = value]

\* The records of these items, of which the values are the packed items.
RecordsOf(field, R, size, I, items, values, part) ==
  /\ items \in [1 .. size -> I]
  /\ \A j \in 1 .. size :
       Record(field, values[j]) \in R /\ UnpackItem(field.descriptor, values[j]) = {items[j]}
  /\ part = [j \in 1 .. size |-> Record(field, values[j])]

Yields(descriptor, wire, message) == Unpack(descriptor, wire) = {message}

\* A message in which this member has no item yet.
IsEmpty(field, message) ==
  field.name \in DOMAIN message /\ message[field.name] = <<>> /\ IsFunction(message)

\* The records of a repeated member append all of its items.
LEMMA RepeatedUpTo ==
  ASSUME NEW descriptor, NEW R, NEW wire \in Seq(R), NEW field, IsRepeated(descriptor, field),
         NEW size \in Nat, NEW I, NEW items, NEW values, NEW part,
         RecordsOf(field, R, size, I, items, values, part),
         NEW message, Yields(descriptor, wire, message), IsEmpty(field, message)
  PROVE  /\ Joined(wire, part) \in Seq(R)
         /\ Yields(descriptor, Joined(wire, part), Setting(message, field.name, items))
<1> DEFINE Part(n) == [j \in 1 .. n |-> Record(field, values[j])]
           First(n) == [j \in 1 .. n |-> items[j]]
           Done(n) == /\ Joined(wire, Part(n)) \in Seq(R)
                      /\ Unpack(descriptor, Joined(wire, Part(n))) =
                           {[message EXCEPT ![field.name] = First(n)]}
           T == {n \in Nat : n <= size => Done(n)}
<1>6. /\ items \in [1 .. size -> I]
      /\ \A k \in 1 .. size :
           Record(field, values[k]) \in R /\ UnpackItem(field.descriptor, values[k]) = {items[k]}
      /\ part = Part(size)
  BY DEF RecordsOf
<1>7. /\ Unpack(descriptor, wire) = {message}
      /\ field.name \in DOMAIN message /\ message[field.name] = <<>> /\ IsFunction(message)
  BY DEF Yields, IsEmpty
<1>1. 0 \in T
  <2>1. Part(0) = <<>> /\ First(0) = <<>>
    OBVIOUS
  <2>2. [message EXCEPT ![field.name] = <<>>] = message
    BY <1>7 DEF IsRepeated, IsFunction
  <2>3. Joined(wire, <<>>) = wire
    BY JoinedParts
  <2> HIDE DEF Part, First
  <2> QED
    BY <1>7, <2>1, <2>2, <2>3
<1>2. ASSUME NEW n \in Nat, n \in T PROVE n + 1 \in T
  <2>1. CASE n + 1 <= size
    <3>1. PICK k \in 1 .. size : k = n + 1
      BY <2>1
    <3>2. PICK before \in Seq(R) : before = Joined(wire, Part(n))
      <4> HIDE DEF Part, First
      <4> QED
        BY <1>2, <2>1
    <3>3. Unpack(descriptor, before) = {[message EXCEPT ![field.name] = First(n)]}
      <4> HIDE DEF Part, First
      <4> QED
        BY <1>2, <2>1, <3>2
    <3>4. Record(field, values[k]) \in R /\ UnpackItem(field.descriptor, values[k]) = {items[k]}
      BY <1>6
    <3>5. Joined(wire, Part(n + 1)) = With(before, Record(field, values[k]))
      <4>1. PICK r : r = [j \in 1 .. size |-> Record(field, values[j])]
        OBVIOUS
      <4>2. \A j \in 1 .. size : r[j] \in R /\ r[j] = Record(field, values[j])
        BY <1>6, <4>1
      <4>3. \A j \in 1 .. n + 1 : j \in 1 .. size
        BY <3>1
      <4>4. Part(n) = [j \in 1 .. n |-> r[j]] /\ Part(n + 1) = [j \in 1 .. n + 1 |-> r[j]]
        BY <4>2, <4>3
      <4>5. [j \in 1 .. n |-> r[j]] \in Seq(R) /\ [j \in 1 .. n + 1 |-> r[j]] \in Seq(R)
        <5>1. \A j \in 1 .. n : j \in 1 .. size
          BY <3>1
        <5>2. [j \in 1 .. n |-> r[j]] \in [1 .. n -> R] /\ [j \in 1 .. n + 1 |-> r[j]] \in [1 .. n + 1 -> R]
          BY <4>2, <4>3, <5>1
        <5>3. n + 1 \in Nat
          OBVIOUS
        <5> QED
          BY <5>2, <5>3, IsSequence
      <4>6. [j \in 1 .. n + 1 |-> r[j]] = Append([j \in 1 .. n |-> r[j]], r[n + 1])
        BY <4>2, <4>3, <4>5
      <4>7. ASSUME NEW s \in Seq(R), NEW x \in R PROVE wire \o Append(s, x) = Append(wire \o s, x)
        OBVIOUS
      <4> HIDE DEF Part
      <4>8. wire \o Append(Part(n), r[k]) = Append(wire \o Part(n), r[k])
        BY <4>2, <4>4, <4>5, <4>7
      <4> QED
        BY <3>1, <3>2, <4>2, <4>4, <4>6, <4>8 DEF Joined, With
    <3>6. With(First(n), items[k]) = First(n + 1)
      BY <1>6, <3>1 DEF With
    <3>7. Unpack(descriptor, With(before, Record(field, values[k]))) =
            {[[message EXCEPT ![field.name] = First(n)] EXCEPT ![field.name] = With(@, items[k])]}
      <4> DEFINE so_far == [message EXCEPT ![field.name] = First(n)]
      <4> HIDE DEF so_far, Part, First, Done
      <4>1. Unpack(descriptor, before) = {so_far}
        BY <3>3 DEF so_far
      <4>2. Unpack(descriptor, With(before, Record(field, values[k]))) =
              {Store(field, items[k], so_far)}
        BY <3>4, <4>1, UnpackRepeated
      <4>3. Store(field, items[k], so_far) = [so_far EXCEPT ![field.name] = With(@, items[k])]
        BY DEF Store, IsRepeated, With
      <4> QED
        BY <4>2, <4>3 DEF so_far
    <3>8. [[message EXCEPT ![field.name] = First(n)] EXCEPT ![field.name] = With(@, items[k])] =
            [message EXCEPT ![field.name] = First(n + 1)]
      <4>1. \A first, second : [[message EXCEPT ![field.name] = first] EXCEPT ![field.name] = second] =
              [message EXCEPT ![field.name] = second]
        BY ExceptTwice
      <4>2. \A first : [message EXCEPT ![field.name] = first][field.name] = first
        BY <1>7, ExceptThere
      <4> HIDE DEF First
      <4> QED
        BY <3>6, <4>1, <4>2
    <3>9. With(before, Record(field, values[k])) \in Seq(R)
      BY <3>4, WithRecord
    <3> HIDE DEF Part, First
    <3> QED
      BY <3>5, <3>7, <3>8, <3>9
  <2>2. CASE ~(n + 1 <= size)
    <3> HIDE DEF Done
    <3> QED
      BY <2>2
  <2> QED
    BY <2>1, <2>2
<1>3. size \in T
  <2> HIDE DEF T
  <2>1. Nat \subseteq T
    BY <1>1, <1>2, Induction
  <2> QED
    BY <2>1
<1>4. First(size) = items
  BY <1>6
<1>5. Done(size)
  <2> HIDE DEF Done
  <2> QED
    BY <1>3
<1> HIDE DEF First
<1> QED
  BY <1>6, <1>4, <1>5 DEF Setting, Yields

-----------------------------------------------------------------------------
(* The metadata of an image.                                               *)

Metadata(V) ==
  [size : V, height : V, width : V, channels : V, timestamp : V, bits_pixel : V, obid : V,
   camera : V, items : Seq(Items(V))]

MetadataRecords(V) == Records(V \cup Seq(Records(V)))

MetadataNames ==
  <<"size", "height", "width", "channels", "timestamp", "bits_pixel", "obid", "camera", "items">>

LEMMA MetadataTable ==
  LET descriptor == metadata__descriptor IN
  /\ descriptor.init = metadata__init
  /\ DOMAIN descriptor.fields = 1 .. 9
  /\ descriptor.number_ranges = << <<1, 0>>, <<0, 9>> >>
  /\ \A k \in 1 .. 9 :
       /\ descriptor.fields[k].number = k
       /\ descriptor.fields[k].name = MetadataNames[k]
       /\ descriptor.fields[k].type \in Types
       /\ ~descriptor.fields[k].oneof
       /\ k # 9 => descriptor.fields[k].label = "NONE"
       /\ descriptor.fields[k].type # "BOOL"
  /\ descriptor.fields[9].label = "REPEATED"
  /\ descriptor.fields[9].descriptor = metadata_item__descriptor
<1> DEFINE descriptor == metadata__descriptor
<1>1. /\ descriptor.init = metadata__init
      /\ descriptor.fields = metadata__field_descriptors
      /\ descriptor.number_ranges = << <<1, 0>>, <<0, 9>> >>
  BY DEF metadata__descriptor, Descriptor, metadata__number_ranges
<1>2. /\ DOMAIN metadata__field_descriptors = 1 .. 9
      /\ metadata__field_descriptors[1] = Field("size", 1, "INT32")
      /\ metadata__field_descriptors[2] = Field("height", 2, "INT32")
      /\ metadata__field_descriptors[3] = Field("width", 3, "INT32")
      /\ metadata__field_descriptors[4] = Field("channels", 4, "INT32")
      /\ metadata__field_descriptors[5] = Field("timestamp", 5, "INT32")
      /\ metadata__field_descriptors[6] = Field("bits_pixel", 6, "INT32")
      /\ metadata__field_descriptors[7] = Field("obid", 7, "INT32")
      /\ metadata__field_descriptors[8] = Field("camera", 8, "STRING")
      /\ metadata__field_descriptors[9] = Repeated("items", 9, metadata_item__descriptor)
  BY DEF metadata__field_descriptors
<1>3. ASSUME NEW name, NEW number, NEW type
      PROVE  /\ Field(name, number, type).name = name
             /\ Field(name, number, type).number = number
             /\ Field(name, number, type).type = type
             /\ Field(name, number, type).label = "NONE"
             /\ ~Field(name, number, type).oneof
  BY DEF Field
<1>4. ASSUME NEW name, NEW number, NEW table
      PROVE  /\ Repeated(name, number, table).name = name
             /\ Repeated(name, number, table).number = number
             /\ Repeated(name, number, table).type = "MESSAGE"
             /\ Repeated(name, number, table).label = "REPEATED"
             /\ Repeated(name, number, table).descriptor = table
             /\ ~Repeated(name, number, table).oneof
  BY DEF Repeated
<1>5. ASSUME NEW k \in 1 .. 9
      PROVE  /\ descriptor.fields[k].number = k
             /\ descriptor.fields[k].name = MetadataNames[k]
             /\ descriptor.fields[k].type \in Types
             /\ ~descriptor.fields[k].oneof
             /\ k # 9 => descriptor.fields[k].label = "NONE"
             /\ descriptor.fields[k].type # "BOOL"
  <2>1. k = 1 \/ k = 2 \/ k = 3 \/ k = 4 \/ k = 5 \/ k = 6 \/ k = 7 \/ k = 8 \/ k = 9
    OBVIOUS
  <2>2. PICK field : field = descriptor.fields[k]
    OBVIOUS
  <2>3. PICK name : name = MetadataNames[k]
    OBVIOUS
  <2>4. \/ k = 1 /\ name = "size" /\ field = Field(name, k, "INT32")
        \/ k = 2 /\ name = "height" /\ field = Field(name, k, "INT32")
        \/ k = 3 /\ name = "width" /\ field = Field(name, k, "INT32")
        \/ k = 4 /\ name = "channels" /\ field = Field(name, k, "INT32")
        \/ k = 5 /\ name = "timestamp" /\ field = Field(name, k, "INT32")
        \/ k = 6 /\ name = "bits_pixel" /\ field = Field(name, k, "INT32")
        \/ k = 7 /\ name = "obid" /\ field = Field(name, k, "INT32")
        \/ k = 8 /\ name = "camera" /\ field = Field(name, k, "STRING")
        \/ k = 9 /\ name = "items" /\ field = Repeated(name, k, metadata_item__descriptor)
    BY <1>1, <1>2, <2>1, <2>2, <2>3 DEF MetadataNames
  <2>5. CASE k # 9
    <3>1. field = Field(name, k, "INT32") \/ field = Field(name, k, "STRING")
      BY <2>4, <2>5
    <3>2. field.number = k /\ field.name = name /\ field.label = "NONE" /\ ~field.oneof
          /\ field.type \in {"INT32", "STRING"}
      BY <1>3, <3>1
    <3> QED
      BY <2>2, <2>3, <3>2 DEF Types
  <2>6. CASE k = 9
    <3>1. field = Repeated(name, k, metadata_item__descriptor)
      BY <2>4, <2>6
    <3>2. field.number = k /\ field.name = name /\ ~field.oneof /\ field.type = "MESSAGE"
      BY <1>4, <3>1
    <3> QED
      BY <2>2, <2>3, <2>6, <3>2 DEF Types
  <2> QED
    BY <2>5, <2>6
<1>6. descriptor.fields[9].label = "REPEATED" /\ descriptor.fields[9].descriptor = metadata_item__descriptor
  BY <1>1, <1>2, <1>4
<1> QED
  BY <1>1, <1>2, <1>5, <1>6

LEMMA MetadataScalars ==
  ASSUME NEW V, NEW message \in Metadata(V), NEW k \in 1 .. 8
  PROVE  /\ IsScalar(metadata__descriptor, metadata__descriptor.fields[k])
         /\ Record(metadata__descriptor.fields[k], message[metadata__descriptor.fields[k].name])
              \in MetadataRecords(V)
         /\ \A j \in 1 .. 8 :
              metadata__descriptor.fields[j].name = metadata__descriptor.fields[k].name => j = k
<1> DEFINE descriptor == metadata__descriptor
           field == descriptor.fields[k]
<1>1. k \in 1 .. 9 /\ k # 9 /\ k \in Nat
  OBVIOUS
<1>2. /\ field.number = k /\ field.name = MetadataNames[k] /\ field.type \in Types
      /\ ~field.oneof /\ field.label = "NONE" /\ field.type # "BOOL"
  BY <1>1, MetadataTable
<1>3. k = 1 \/ k = 2 \/ k = 3 \/ k = 4 \/ k = 5 \/ k = 6 \/ k = 7 \/ k = 8
  OBVIOUS
<1>4. Has(descriptor, field)
  <2>1. k \in Nat \ {0} /\ 9 \in Nat /\ k <= 9
    OBVIOUS
  <2> QED
    BY <1>2, <2>1, MetadataTable DEF Has
<1>5. field.name \in DOMAIN descriptor.init /\ descriptor.init[field.name] = 0
  BY <1>2, <1>3, MetadataTable DEF MetadataNames, metadata__init
<1>6. message[field.name] \in V
  <2>1. field.name \in {"size", "height", "width", "channels", "timestamp", "bits_pixel", "obid", "camera"}
    BY <1>2, <1>3 DEF MetadataNames
  <2>2. \A x \in {"size", "height", "width", "channels", "timestamp", "bits_pixel", "obid", "camera"} :
          message[x] \in V
    BY DEF Metadata
  <2> QED
    BY <2>1, <2>2
<1>7. Record(field, message[field.name]) \in MetadataRecords(V)
  <2>1. WireType(field.type) \in WireTypes /\ field.number \in Nat
    BY <1>1, <1>2, WireTypeOfType
  <2> HIDE DEF field
  <2> QED
    BY <1>6, <2>1 DEF Record, MetadataRecords, Records
<1>8. ASSUME NEW j \in 1 .. 8, descriptor.fields[j].name = field.name PROVE j = k
  <2>1. j \in 1 .. 9
    OBVIOUS
  <2>2. descriptor.fields[j].name = MetadataNames[j]
    BY <2>1, MetadataTable
  <2>3. MetadataNames[j] = MetadataNames[k]
    BY <1>2, <1>8, <2>2
  <2>4. j = 1 \/ j = 2 \/ j = 3 \/ j = 4 \/ j = 5 \/ j = 6 \/ j = 7 \/ j = 8
    OBVIOUS
  <2> QED
    BY <1>3, <2>3, <2>4 DEF MetadataNames
<1>9. IsScalar(descriptor, field)
  <2> HIDE DEF field, descriptor
  <2> QED
    BY <1>2, <1>4, <1>5 DEF IsScalar
<1> QED
  BY <1>7, <1>8, <1>9

\* What has been packed by the table of metadata.pb-c.c is unpacked to the same message by the
\* same table, for metadata with any values and any number of items: no field takes the place
\* of another, none is lost and none is made up.
THEOREM MetadataRoundTrip ==
  ASSUME NEW V, NEW message \in Metadata(V)
  PROVE  /\ Pack(metadata__descriptor, message) \in Seq(MetadataRecords(V))
         /\ Unpack(metadata__descriptor, Pack(metadata__descriptor, message)) = {message}
<1> DEFINE descriptor == metadata__descriptor
           fields == descriptor.fields
           R == MetadataRecords(V)
           parts == [k \in 1 .. 9 |-> PackMember(fields[k], message)]
<1>1. Pack(descriptor, message) = FlattenSeq(parts)
  BY MetadataTable DEF Pack
<1>2. Len(parts) = 9 /\ \A k \in 1 .. 9 : parts[k] = PackMember(fields[k], message)
  OBVIOUS
<1> HIDE DEF parts
<1>3. PICK f : /\ FlattenSeq(parts) = f[9] /\ f[1] = parts[1]
               /\ \A n \in 2 .. 9 : f[n] = Joined(f[n - 1], parts[n])
  <2>1. Len(parts) \in Nat \ {0}
    BY <1>2
  <2>2. PICK f : /\ FlattenSeq(parts) = f[Len(parts)] /\ f[1] = parts[1]
                 /\ \A n \in 2 .. Len(parts) : f[n] = Joined(f[n - 1], parts[n])
    BY <2>1, FlattenIsDefined
  <2> QED
    BY <1>2, <2>2
<1>4. ASSUME NEW k \in 1 .. 8 PROVE parts[k] = PackField(fields[k], message)
  <2>1. k \in 1 .. 9 /\ k # 9
    OBVIOUS
  <2>2. fields[k].label = "NONE"
    BY <2>1, MetadataTable
  <2> QED
    BY <1>2, <2>1, <2>2 DEF PackMember
<1>5. ReadUpTo(descriptor, R, message, f, 8)
  <2>1. f[1] = PackField(fields[1], message)
    BY <1>3, <1>4
  <2>2. ASSUME NEW k \in 2 .. 8 PROVE f[k] = Joined(f[k - 1], PackField(fields[k], message))
    <3>1. k \in 2 .. 9 /\ k \in 1 .. 8
      OBVIOUS
    <3> QED
      BY <1>3, <1>4, <3>1
  <2>3. descriptor.init = [x \in DOMAIN descriptor.init |-> descriptor.init[x]]
    BY MetadataTable DEF metadata__init
  <2>4. \A k \in 1 .. 8 :
           /\ IsScalar(descriptor, descriptor.fields[k])
           /\ Record(descriptor.fields[k], message[descriptor.fields[k].name]) \in R
           /\ \A j \in 1 .. 8 :
                descriptor.fields[j].name = descriptor.fields[k].name => j = k
    BY MetadataScalars
  <2>5. PICK size \in Nat \ {0} : size = 8
    OBVIOUS
  <2> HIDE DEF descriptor, R
  <2>6. ReadUpTo(descriptor, R, message, f, size)
    BY <2>1, <2>2, <2>3, <2>4, <2>5, ScalarsUpTo
  <2> QED
    BY <2>5, <2>6
<1> DEFINE before == Filled(descriptor, message, NamesOf(descriptor, 8))
<1>6. /\ before["items"] = <<>> /\ "items" \in DOMAIN before
      /\ before = [x \in DOMAIN before |-> before[x]]
      /\ [before EXCEPT !["items"] = message.items] = message
  <2>1. NamesOf(descriptor, 8) =
          {"size", "height", "width", "channels", "timestamp", "bits_pixel", "obid", "camera"}
    <3>1. \A k : k \in 1 .. 8 <=> k \in {1, 2, 3, 4, 5, 6, 7, 8}
      OBVIOUS
    <3>2. \A k \in 1 .. 8 : k \in 1 .. 9
      OBVIOUS
    <3>3. \A k \in 1 .. 8 : fields[k].name = MetadataNames[k]
      BY <3>2, MetadataTable
    <3>4. NamesOf(descriptor, 8) = {MetadataNames[k] : k \in 1 .. 8}
      BY <3>3 DEF NamesOf
    <3>5. {MetadataNames[k] : k \in {1, 2, 3, 4, 5, 6, 7, 8}} =
            {"size", "height", "width", "channels", "timestamp", "bits_pixel", "obid", "camera"}
      BY DEF MetadataNames
    <3>6. {MetadataNames[k] : k \in 1 .. 8} = {MetadataNames[k] : k \in {1, 2, 3, 4, 5, 6, 7, 8}}
      BY <3>1
    <3> QED
      BY <3>4, <3>5, <3>6
  <2> DEFINE names == NamesOf(descriptor, 8)
  <2>2. before = [x \in DOMAIN metadata__init |-> IF x \in names THEN message[x] ELSE metadata__init[x]]
    BY MetadataTable DEF Filled
  <2> HIDE DEF before, names
  <2>3. before = [metadata__init EXCEPT
                    !["size"] = message.size, !["height"] = message.height, !["width"] = message.width,
                    !["channels"] = message.channels, !["timestamp"] = message.timestamp,
                    !["bits_pixel"] = message.bits_pixel, !["obid"] = message.obid,
                    !["camera"] = message.camera]
    BY <2>1, <2>2 DEF names, metadata__init
  <2>4. before = [size |-> message.size, height |-> message.height, width |-> message.width,
                  channels |-> message.channels, timestamp |-> message.timestamp,
                  bits_pixel |-> message.bits_pixel, obid |-> message.obid,
                  camera |-> message.camera, items |-> <<>>]
    BY <2>3 DEF metadata__init
  <2> QED
    BY <2>4 DEF Metadata
<1>7. /\ Joined(f[8], parts[9]) \in Seq(R)
      /\ Unpack(descriptor, Joined(f[8], parts[9])) = {[before EXCEPT !["items"] = message.items]}
  <2>1. PICK field : field = fields[9]
    OBVIOUS
  <2>2. /\ field.number = 9 /\ field.name = "items" /\ field.type \in Types /\ ~field.oneof
        /\ field.label = "REPEATED" /\ field.descriptor = metadata_item__descriptor
    BY <2>1, MetadataTable DEF MetadataNames
  <2>3. IsRepeated(descriptor, field)
    <3>1. 9 \in Nat \ {0} /\ 9 <= 9
      OBVIOUS
    <3> QED
      BY <2>1, <2>2, <3>1, MetadataTable DEF Has, IsRepeated
  <2>4. PICK items : items = message.items
    OBVIOUS
  <2>5. PICK size \in Nat : size = Len(items)
    BY <2>4 DEF Metadata
  <2>6. items \in [1 .. size -> Items(V)]
    BY <2>4, <2>5 DEF Metadata
  <2> DEFINE values == [j \in 1 .. size |-> PackItem(metadata_item__descriptor, items[j])]
  <2>7. ASSUME NEW j \in 1 .. size
        PROVE  Record(field, values[j]) \in R /\ UnpackItem(field.descriptor, values[j]) = {items[j]}
    <3>1. items[j] \in Items(V) /\ values[j] = PackItem(metadata_item__descriptor, items[j])
      BY <2>6
    <3> HIDE DEF values
    <3>2. values[j] \in Seq(Records(V)) /\ UnpackItem(metadata_item__descriptor, values[j]) = {items[j]}
      BY <3>1, ItemRoundTrip
    <3>3. WireType(field.type) \in WireTypes
      BY <2>2, WireTypeOfType
    <3>4. Record(field, values[j]) \in R
      BY <2>2, <3>2, <3>3 DEF Record, MetadataRecords, Records
    <3> QED
      BY <2>2, <3>2, <3>4
  <2>8. parts[9] = [j \in 1 .. size |-> Record(field, values[j])]
    <3>1. DOMAIN message[field.name] = 1 .. size /\ message[field.name] = items
      BY <2>2, <2>4, <2>6
    <3>2. parts[9] = PackMember(field, message)
      BY <1>2, <2>1
    <3>3. PackMember(field, message) =
            [j \in DOMAIN message[field.name] |->
               Record(field, PackItem(field.descriptor, message[field.name][j]))]
      BY <2>2 DEF PackMember
    <3> QED
      BY <2>2, <3>1, <3>2, <3>3
  <2>9. PICK wire \in Seq(R) : wire = f[8]
    BY <1>5 DEF ReadUpTo
  <2>10. Unpack(descriptor, wire) = {before}
    BY <1>5, <2>9 DEF ReadUpTo
  <2>11. field.name \in DOMAIN before /\ before[field.name] = <<>>
    BY <1>6, <2>2
  <2> HIDE DEF descriptor, R, before, values, fields
  <2>12. IsFunction(before)
    BY <1>6 DEF IsFunction
  <2>13. PICK part : part = parts[9]
    OBVIOUS
  <2>14. RecordsOf(field, R, size, Items(V), items, values, part)
    BY <2>6, <2>7, <2>8, <2>13 DEF RecordsOf
  <2>15. /\ Joined(wire, part) \in Seq(R)
         /\ Yields(descriptor, Joined(wire, part), Setting(before, field.name, items))
    <3>1. IsEmpty(field, before) /\ Yields(descriptor, wire, before)
      BY <2>10, <2>11, <2>12 DEF IsEmpty, Yields
    <3> QED
      BY <2>3, <2>14, <3>1, RepeatedUpTo
  <2> QED
    BY <2>2, <2>4, <2>9, <2>13, <2>15 DEF Setting, Yields
<1>8. f[9] = Joined(f[8], parts[9])
  BY <1>3
<1> QED
  BY <1>1, <1>3, <1>6, <1>7, <1>8

\* A record of which the table does not know the number changes nothing.
LEMMA UnpackUnknown ==
  ASSUME NEW descriptor, NEW R, NEW wire \in Seq(R), NEW record \in R,
         FieldOf(descriptor, record) = {},
         NEW message, Unpack(descriptor, wire) = {message}
  PROVE  With(wire, record) \in Seq(R) /\ Unpack(descriptor, With(wire, record)) = {message}
<1>1. Unpack(descriptor, With(wire, record)) =
        ParseAll(descriptor, record, Values(descriptor, record), {message})
  <2>1. Unpack(descriptor, With(wire, record)) =
          ParseAll(descriptor, record, Values(descriptor, record), Unpack(descriptor, wire))
    BY UnpackAppendMessage, Zenon
  <2> QED
    BY <2>1
<1>2. \A values : Parse(descriptor, record, values, message) = {message}
  BY DEF Parse
<1>3. Unpack(descriptor, With(wire, record)) = {message}
  BY <1>1, <1>2, ParseAllOfOne
<1>4. With(wire, record) \in Seq(R)
  BY WithRecord
<1> QED
  BY <1>3, <1>4

LEMMA MetadataFields ==
  ASSUME NEW V, NEW m, IsFunction(m), DOMAIN m = DOMAIN metadata__init,
         m.size \in V, m.height \in V, m.width \in V, m.channels \in V, m.timestamp \in V,
         m.bits_pixel \in V, m.obid \in V, m.camera \in V, m.items \in Seq(Items(V))
  PROVE  m \in Metadata(V)
<1>1. m = [size |-> m.size, height |-> m.height, width |-> m.width, channels |-> m.channels,
           timestamp |-> m.timestamp, bits_pixel |-> m.bits_pixel, obid |-> m.obid,
           camera |-> m.camera, items |-> m.items]
  BY DEF IsFunction, metadata__init
<1> QED
  BY <1>1 DEF Metadata

-----------------------------------------------------------------------------
(* Messages that others have packed.                                       *)

\* A table of which the fields are numbered from 1 to size.
IsTable(descriptor, size) ==
  /\ size \in Nat /\ descriptor.number_ranges = << <<1, 0>>, <<0, size>> >>
  /\ \A k \in 1 .. size : descriptor.fields[k].number = k

LEMMA HasField ==
  ASSUME NEW descriptor, NEW size, IsTable(descriptor, size), NEW k \in 1 .. size
  PROVE  Has(descriptor, descriptor.fields[k])
BY DEF IsTable, Has

LEMMA FieldInTable ==
  ASSUME NEW descriptor, NEW size, IsTable(descriptor, size), NEW record, record.number \in Nat
  PROVE  FieldOf(descriptor, record) =
           IF record.number \in 1 .. size THEN {descriptor.fields[record.number]} ELSE {}
BY FieldOfNumber DEF IsTable

\* If nothing comes of one record, nothing comes of the message.
LEMMA ScanSpoiled ==
  ASSUME NEW descriptor, NEW wire, Len(wire) \in Nat, NEW values, NEW j \in 1 .. Len(wire),
         \A message : Parse(descriptor, wire[j], values[j], message) = {}
  PROVE  Scan(descriptor, wire, values)[Len(wire)] = {}
<1> DEFINE after == Scan(descriptor, wire, values)
           T == {n \in Nat : n >= j /\ n <= Len(wire) => after[n] = {}}
<1>1. \A n \in 1 .. Len(wire) :
        after[n] = ParseAll(descriptor, wire[n], values[n], after[n - 1])
  BY ScanIsDefined
<1> HIDE DEF after
<1>2. 0 \in T
  OBVIOUS
<1>3. ASSUME NEW n \in Nat, n \in T PROVE n + 1 \in T
  <2> SUFFICES ASSUME n + 1 >= j, n + 1 <= Len(wire) PROVE after[n + 1] = {}
    OBVIOUS
  <2>1. PICK k \in 1 .. Len(wire) : k = n + 1 /\ k - 1 = n
    OBVIOUS
  <2>2. after[k] = ParseAll(descriptor, wire[k], values[k], after[n])
    BY <1>1, <2>1
  <2>3. CASE k = j
    <3>1. ParseAll(descriptor, wire[k], values[k], after[n]) =
            UNION {Parse(descriptor, wire[k], values[k], message) : message \in after[n]}
      BY DEF ParseAll
    <3>2. \A message : Parse(descriptor, wire[k], values[k], message) = {}
      BY <2>3
    <3>3. UNION {Parse(descriptor, wire[k], values[k], message) : message \in after[n]} = {}
      BY <3>2
    <3> QED
      BY <2>1, <2>2, <3>1, <3>3
  <2>4. CASE k # j
    <3>1. after[n] = {}
      BY <1>3, <2>1, <2>4
    <3> QED
      BY <2>1, <2>2, <3>1, ParseAllOfOne
  <2> QED
    BY <2>3, <2>4
<1>4. Len(wire) \in T
  <2> HIDE DEF T
  <2> QED
    BY <1>2, <1>3, Induction
<1> QED
  BY <1>4 DEF after

\* A value of another wire type spoils an item.
LEMMA ItemSpoiled ==
  ASSUME NEW descriptor, NEW size, IsTable(descriptor, size),
         NEW R, NEW wire \in Seq(R), NEW j \in 1 .. Len(wire),
         wire[j].number \in 1 .. size,
         ~Accepts(descriptor.fields[wire[j].number], wire[j].wire_type)
  PROVE  UnpackItem(descriptor, wire) = {}
<1> DEFINE values == [n \in DOMAIN wire |-> {wire[n].value}]
<1> PICK record : record = wire[j]
  OBVIOUS
<1>1. FieldOf(descriptor, record) = {descriptor.fields[record.number]}
  <2>1. record.number \in Nat /\ record.number \in 1 .. size
    BY DEF IsTable
  <2> QED
    BY <2>1, FieldInTable
<1>2. Matching(descriptor, record) = {}
  BY <1>1 DEF Matching
<1>3. ASSUME NEW v, NEW message PROVE Parse(descriptor, record, v, message) = {}
  <2>1. FieldOf(descriptor, record) # {}
    BY <1>1
  <2>2. Parse(descriptor, record, v, message) =
          {Store(f, x, message) : f \in Matching(descriptor, record), x \in v}
    BY <2>1 DEF Parse
  <2> QED
    BY <1>2, <2>2
<1>4. Len(wire) \in Nat
  OBVIOUS
<1> HIDE DEF values
<1>5. \A message : Parse(descriptor, wire[j], values[j], message) = {}
  BY <1>3
<1>6. Scan(descriptor, wire, values)[Len(wire)] = {}
  BY <1>4, <1>5, ScanSpoiled
<1> QED
  BY <1>6 DEF values, UnpackItem

\* An item that cannot be unpacked spoils the message.
LEMMA MessageSpoiled ==
  ASSUME NEW descriptor, NEW field, IsRepeated(descriptor, field),
         NEW R, NEW wire \in Seq(R), NEW j \in 1 .. Len(wire),
         NEW value, wire[j] = Record(field, value), UnpackItem(field.descriptor, value) = {}
  PROVE  Unpack(descriptor, wire) = {}
<1> DEFINE values == [n \in DOMAIN wire |-> Values(descriptor, wire[n])]
<1> PICK record : record = wire[j]
  OBVIOUS
<1>1. record = Record(field, value) /\ record.value = value
  BY DEF Record
<1>2. /\ FieldOf(descriptor, record) = {field} /\ Matching(descriptor, record) = {field}
  <2>1. Has(descriptor, field)
    BY DEF IsRepeated
  <2>2. /\ FieldOf(descriptor, Record(field, value)) = {field}
        /\ Matching(descriptor, Record(field, value)) = {field}
    BY <2>1, ParseOwn
  <2> QED
    BY <1>1, <2>2
<1>3. Values(descriptor, record) = {}
  BY <1>1, <1>2 DEF Values, IsRepeated
<1>4. Len(wire) \in Nat /\ j \in DOMAIN wire
  OBVIOUS
<1>5. values[j] = {}
  BY <1>3, <1>4
<1>6. \A message : Parse(descriptor, wire[j], {}, message) = {}
  BY <1>2 DEF Parse
<1> HIDE DEF values
<1>7. Scan(descriptor, wire, values)[Len(wire)] = {}
  BY <1>4, <1>5, <1>6, ScanSpoiled
<1> QED
  BY <1>7 DEF values, Unpack

\* What one more record does to an item: one that the table does not know, or one of a field.
ItemYields(descriptor, wire, item) == UnpackItem(descriptor, wire) = {item}

IsUnknown(descriptor, record) == FieldOf(descriptor, record) = {}

IsKnown(descriptor, size, record) ==
  record.number \in 1 .. size /\ Accepts(descriptor.fields[record.number], record.wire_type)

LEMMA ItemUnknown ==
  ASSUME NEW descriptor, NEW R, NEW wire \in Seq(R), NEW record \in R,
         IsUnknown(descriptor, record), NEW item, ItemYields(descriptor, wire, item)
  PROVE  ItemYields(descriptor, With(wire, record), item)
<1>1. \A values : Parse(descriptor, record, values, item) = {item}
  BY DEF Parse, IsUnknown
<1>2. UnpackItem(descriptor, With(wire, record)) =
        ParseAll(descriptor, record, {record.value}, UnpackItem(descriptor, wire))
  BY UnpackAppendItem, Zenon
<1> QED
  BY <1>1, <1>2, ParseAllOfOne DEF ItemYields

LEMMA ItemKnown ==
  ASSUME NEW descriptor, NEW size, IsTable(descriptor, size),
         NEW V, NEW wire \in Seq(Records(V)), NEW record \in Records(V),
         IsKnown(descriptor, size, record), NEW item, ItemYields(descriptor, wire, item)
  PROVE  ItemYields(descriptor, With(wire, record),
                    Store(descriptor.fields[record.number], record.value, item))
<1> PICK field : field = descriptor.fields[record.number]
  OBVIOUS
<1>1. FieldOf(descriptor, record) = {field} /\ Accepts(field, record.wire_type)
  <2>1. record.number \in 1 .. size /\ record.number \in Nat /\ Accepts(field, record.wire_type)
    BY DEF IsKnown, IsTable
  <2> QED
    BY <2>1, FieldInTable
<1>2. Matching(descriptor, record) = {field}
  BY <1>1 DEF Matching
<1>3. PICK value : value = record.value
  OBVIOUS
<1>4. Parse(descriptor, record, {value}, item) = {Store(field, value, item)}
  <2>1. ASSUME NEW values
        PROVE  Parse(descriptor, record, values, item) = {Store(field, v, item) : v \in values}
    <3>1. FieldOf(descriptor, record) # {}
      BY <1>1
    <3>2. Parse(descriptor, record, values, item) =
            {Store(f, v, item) : f \in Matching(descriptor, record), v \in values}
      BY <3>1 DEF Parse
    <3> QED
      BY <1>2, <3>2
  <2>2. {Store(field, v, item) : v \in {value}} = {Store(field, value, item)}
    OBVIOUS
  <2> QED
    BY <2>1, <2>2, Zenon
<1>5. UnpackItem(descriptor, With(wire, record)) =
        ParseAll(descriptor, record, {value}, UnpackItem(descriptor, wire))
  BY <1>3, UnpackAppendItem, Zenon
<1>6. UnpackItem(descriptor, With(wire, record)) = Parse(descriptor, record, {value}, item)
  BY <1>5, ParseAllOfOne DEF ItemYields
<1> QED
  BY <1>3, <1>4, <1>6 DEF ItemYields
=============================================================================
