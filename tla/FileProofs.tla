----------------------------- MODULE FileProofs ------------------------------
(***************************************************************************)
(* Machine-checked proofs about CaptureFile: what a replay makes of a       *)
(* capture file, wherever its writer stopped, for every number of batches   *)
(* and of samples in them.                                                  *)
(***************************************************************************)
EXTENDS CaptureFile, SequenceTheorems, TLAPS

-----------------------------------------------------------------------------
(* The inductive invariant: the writer's part.                              *)

Values == Nat \cup {"other", "FREDCAP"}
Fields == [width : {3, 4, 8}, value : Values]

Count == Len(batches)

\* The j-th field of the header, and of a batch.
HeaderField(version, j) ==
    IF j = 1 THEN Field(8, MagicIn(version))
    ELSE IF j = 2 THEN U32(version) ELSE U32(0)

BatchField(version, b, j) ==
    IF j = 1 THEN U32(b.dropped)
    ELSE IF j = 2 THEN U32(b.stalls)
    ELSE IF j = 3 THEN U32(Len(b.samples))
    ELSE Field(SampleWidth(version), b.samples[j - 3])

WriterTyped ==
    /\ format \in Formats
    /\ file \in Seq(Fields) /\ torn \in 0..7
    /\ todo \in Seq(Seq(Fields)) /\ writing \in BOOLEAN
    /\ batches \in Seq(Batches) /\ ends \in Seq(Nat) /\ captured \in Nat

\* The batches are laid out one behind the other.
Layout ==
    /\ Len(ends) = Count + 1 /\ ends[1] = 3
    /\ \A k \in 1..Count : ends[k + 1] = ends[k] + FieldsOf(batches[k])
    /\ \A i, j \in 1..(Count + 1) : i <= j => ends[i] <= ends[j]

\* What is in the file is where it belongs.
AsLaidOut ==
    /\ \A j \in 1..3 : j <= Len(file) => file[j] = HeaderField(format, j)
    /\ \A k \in 1..Count : \A j \in 1..FieldsOf(batches[k]) :
           ends[k] + j <= Len(file) => file[ends[k] + j] = BatchField(format, batches[k], j)

\* The file ends in the last batch that was begun, or in the header.
EndsInLast ==
    /\ Len(file) <= ends[Count + 1]
    /\ Count > 0 => ends[Count] <= Len(file)

\* The writes of that batch, where it starts, its fields, and how long each
\* write is.
NumWrites == IF Count = 0 THEN 3 ELSE 4
Base == IF Count = 0 THEN 0 ELSE ends[Count]
FieldUnderWay(version, bs, j) ==
    IF Len(bs) = 0 THEN HeaderField(version, j)
    ELSE BatchField(version, bs[Len(bs)], j)
WriteLen(bs, w) == IF w <= 3 THEN 1 ELSE Len(bs[Len(bs)].samples)

\* The writes still to be made are the last ones of the batch, and the file
\* holds the others.
InStep ==
    writing =>
        /\ Len(todo) <= NumWrites
        /\ \A i \in 1..Len(todo) : \A w \in 1..NumWrites :
               w + Len(todo) = NumWrites + i =>
                   /\ Len(todo[i]) = WriteLen(batches, w)
                   /\ \A j \in 1..WriteLen(batches, w) :
                          todo[i][j] = FieldUnderWay(format, batches, w - 1 + j)
        /\ todo = <<>> => Len(file) = ends[Count + 1]
        /\ todo # <<>> => Len(file) + Len(todo) = Base + NumWrites

WInv == WriterTyped /\ Layout /\ AsLaidOut /\ EndsInLast /\ InStep

-----------------------------------------------------------------------------
(* The inductive invariant: the reader's part.                              *)

InHeader == {"magic", "version", "reserved"}
InBatch == {"dropped", "stalls", "count", "samples"}

Done == Len(returned)

ReaderTyped ==
    /\ reader \in InHeader \cup InBatch \cup {"eof", "truncated", "refused"}
    /\ next \in Nat \ {0} /\ next <= Len(file) + 1
    /\ partial \in Seq(Nat) /\ Len(partial) <= 3 + MaxBatchSamples
    /\ returned \in Seq(Batches)

\* Where the reader is in the header.
HeaderPlace ==
    /\ reader = "magic" => next = 1
    /\ reader = "version" => next = 2
    /\ reader = "reserved" => next = 3
    /\ reader \in InHeader => returned = <<>> /\ partial = <<>>

\* Where it is in a batch, and what it has of it.
BatchPlace ==
    reader \in InBatch =>
        /\ next = ends[Done + 1] + Len(partial) + 1
        /\ reader = "dropped" <=> Len(partial) = 0
        /\ reader = "stalls" <=> Len(partial) = 1
        /\ reader = "count" <=> Len(partial) = 2
        /\ Len(partial) > 0 =>
               /\ Done < Count
               /\ Len(partial) <= FieldsOf(batches[Done + 1])
        /\ \A j \in 1..Len(partial) :
               partial[j] = BatchField(format, batches[Done + 1], j).value
        /\ reader = "samples" => partial[3] <= MaxBatchSamples

ReturnedSoFar ==
    Done <= Count /\ \A k \in 1..Done : returned[k] = batches[k]

RInv == ReaderTyped /\ HeaderPlace /\ BatchPlace /\ ReturnedSoFar

FileInv == WInv /\ RInv

-----------------------------------------------------------------------------
(* Fields and batches.                                                      *)

LEMMA FieldParts ==
    \A w, v : Field(w, v).width = w /\ Field(w, v).value = v
  BY Zenon DEF Field

LEMMA FieldTypes ==
    ASSUME NEW w \in {3, 4, 8}, NEW v \in Values
    PROVE  Field(w, v) \in Fields
  BY DEF Field, Fields

LEMMA BatchFacts ==
    ASSUME NEW b \in Batches
    PROVE  /\ b.dropped \in Nat /\ b.stalls \in Nat /\ b.samples \in Seq(Nat)
           /\ b.dropped \in Totals /\ b.stalls \in Totals
           /\ b = [dropped |-> b.dropped, stalls |-> b.stalls,
                   samples |-> b.samples]
           /\ Len(b.samples) \in Nat /\ DOMAIN b.samples = 1..Len(b.samples)
           /\ \A i \in 1..Len(b.samples) : b.samples[i] \in Nat
           /\ FieldsOf(b) \in Nat /\ FieldsOf(b) = 3 + Len(b.samples)
<1>1. /\ b.dropped \in Totals /\ b.stalls \in Totals /\ b.samples \in Seq(Nat)
      /\ b = [dropped |-> b.dropped, stalls |-> b.stalls,
              samples |-> b.samples]
  BY DEF Batches
<1>2. /\ Len(b.samples) \in Nat /\ DOMAIN b.samples = 1..Len(b.samples)
      /\ \A i \in 1..Len(b.samples) : b.samples[i] \in Nat
  BY <1>1, LenProperties, ElementOfSeq
<1> QED
  BY <1>1, <1>2, TotalAssumption DEF FieldsOf

LEMMA WidthTypes == SampleWidth(format) \in {3, 4, 8}
  BY DEF SampleWidth

LEMMA BatchFieldFacts ==
    ASSUME NEW b \in Batches, NEW j \in 1..FieldsOf(b)
    PROVE  /\ BatchField(format, b, j) \in Fields
           /\ BatchField(format, b, j).value \in Nat
           /\ j = 1 => BatchField(format, b, j) = U32(b.dropped)
           /\ j = 2 => BatchField(format, b, j) = U32(b.stalls)
           /\ j = 3 => BatchField(format, b, j) = U32(Len(b.samples))
           /\ j > 3 => BatchField(format, b, j) =
                           Field(SampleWidth(format), b.samples[j - 3])
<1>1. /\ b.dropped \in Nat /\ b.stalls \in Nat /\ Len(b.samples) \in Nat
      /\ FieldsOf(b) = 3 + Len(b.samples)
      /\ \A i \in 1..Len(b.samples) : b.samples[i] \in Nat
  BY BatchFacts
<1>2. CASE j > 3
  <2>1. j - 3 \in 1..Len(b.samples)
    BY <1>1, <1>2
  <2>2. b.samples[j - 3] \in Nat
    BY <2>1, <1>1
  <2>3. BatchField(format, b, j) = Field(SampleWidth(format), b.samples[j - 3])
    BY <1>2 DEF BatchField
  <2>4. b.samples[j - 3] \in Values
    BY <2>2 DEF Values
  <2>5. BatchField(format, b, j) \in Fields
    BY <2>3, <2>4, FieldTypes, WidthTypes, Zenon
  <2>8. Field(SampleWidth(format), b.samples[j - 3]).value = b.samples[j - 3]
    BY FieldParts, Zenon
  <2>6. BatchField(format, b, j).value = b.samples[j - 3]
    BY <2>3, <2>8
  <2>7. j # 1 /\ j # 2 /\ j # 3
    BY <1>2
  <2> QED
    BY <2>2, <2>3, <2>5, <2>6, <2>7, Zenon
<1>3. ASSUME NEW v \in Nat, BatchField(format, b, j) = U32(v)
      PROVE  BatchField(format, b, j) \in Fields /\ BatchField(format, b, j).value \in Nat
  <2>1. v \in Values /\ 4 \in {3, 4, 8}
    BY DEF Values
  <2>2. Field(4, v) \in Fields
    BY <2>1, FieldTypes
  <2>3. Field(4, v).value = v
    BY FieldParts, Zenon
  <2> QED
    BY <1>3, <2>2, <2>3, Zenon DEF U32
<1>4. CASE j = 1
  <2>1. BatchField(format, b, j) = U32(b.dropped)
    BY <1>4 DEF BatchField
  <2> QED
    BY <2>1, <1>1, <1>3, <1>4
<1>5. CASE j = 2
  <2>1. BatchField(format, b, j) = U32(b.stalls)
    BY <1>5 DEF BatchField
  <2> QED
    BY <2>1, <1>1, <1>3, <1>5
<1>6. CASE j = 3
  <2>1. BatchField(format, b, j) = U32(Len(b.samples))
    BY <1>6 DEF BatchField
  <2> QED
    BY <2>1, <1>1, <1>3, <1>6
<1>7. j = 1 \/ j = 2 \/ j = 3 \/ j > 3
  BY <1>1
<1> QED
  BY <1>2, <1>4, <1>5, <1>6, <1>7

LEMMA HeaderFieldFacts ==
    ASSUME WriterTyped
    PROVE  /\ HeaderField(format, 1) = Field(8, MagicIn(format))
           /\ HeaderField(format, 2) = Field(4, format)
           /\ HeaderField(format, 3) = Field(4, 0)
           /\ \A j \in 1..3 : HeaderField(format, j) \in Fields
<1>1. /\ HeaderField(format, 1) = Field(8, MagicIn(format))
      /\ HeaderField(format, 2) = Field(4, format)
      /\ HeaderField(format, 3) = Field(4, 0)
  BY DEF HeaderField, U32
<1>2. MagicIn(format) \in Values /\ format \in Values /\ 0 \in Values
  BY FormatAssumption DEF WriterTyped, Values, MagicIn
<1>3. /\ Field(8, MagicIn(format)) \in Fields /\ Field(4, format) \in Fields
      /\ Field(4, 0) \in Fields
  BY <1>2, FieldTypes
<1>4. \A j \in 1..3 : j = 1 \/ j = 2 \/ j = 3
  OBVIOUS
<1> QED
  BY <1>1, <1>3, <1>4

\* The facts about the writer that steps of either side start from.
LEMMA WriterFacts ==
    ASSUME WInv
    PROVE  /\ Count \in Nat /\ Len(file) \in Nat /\ Len(todo) \in Nat
           /\ DOMAIN batches = 1..Count
           /\ \A k \in 1..Count : batches[k] \in Batches
           /\ \A k \in 1..(Count + 1) : ends[k] \in Nat
           /\ \A k \in 1..Count : FieldsOf(batches[k]) \in Nat
           /\ DOMAIN file = 1..Len(file)
           /\ Count = 0 <=> batches = <<>>
<1>1. /\ Count \in Nat /\ Len(file) \in Nat /\ Len(todo) \in Nat
      /\ DOMAIN batches = 1..Count /\ DOMAIN file = 1..Len(file)
      /\ Count = 0 <=> batches = <<>>
  BY LenProperties, EmptySeq DEF WInv, WriterTyped, Count
<1>2. \A k \in 1..Count : batches[k] \in Batches
  BY ElementOfSeq DEF WInv, WriterTyped, Count
<1>3. \A k \in 1..(Count + 1) : ends[k] \in Nat
  BY ElementOfSeq DEF WInv, WriterTyped, Layout
<1>4. \A k \in 1..Count : FieldsOf(batches[k]) \in Nat
  BY <1>2, BatchFacts
<1> QED
  BY <1>1, <1>2, <1>3, <1>4

-----------------------------------------------------------------------------
(* The initial state.                                                       *)

LEMMA InitWriter == Init => WInv
<1> SUFFICES ASSUME Init PROVE WInv
  OBVIOUS
<1> USE DEF Init
<1>1. /\ Count = 0 /\ Len(file) = 0 /\ file = <<>> /\ batches = <<>>
      /\ ends = <<3>>
  BY DEF Count, HeaderFields
<1>2. /\ Field(8, MagicIn(format)) \in Fields /\ U32(format) \in Fields
      /\ U32(0) \in Fields
  <2>1. MagicIn(format) \in Values /\ format \in Values /\ 0 \in Values
    BY FormatAssumption DEF Values, MagicIn
  <2> QED
    BY <2>1, FieldTypes DEF U32
<1>3. PICK a, b, c : a = Field(8, MagicIn(format)) /\ b = U32(format) /\ c = U32(0)
  OBVIOUS
<1>4. todo = << <<a>>, <<b>>, <<c>> >>
  BY <1>3, Zenon DEF Header
<1>5. WriterTyped
  <2>1. a \in Fields /\ b \in Fields /\ c \in Fields
    BY <1>2, <1>3
  <2>2. <<a>> \in Seq(Fields) /\ <<b>> \in Seq(Fields) /\ <<c>> \in Seq(Fields)
    BY <2>1
  <2>3. todo \in Seq(Seq(Fields))
    BY <2>2, <1>4
  <2>4. ends \in Seq(Nat) /\ file \in Seq(Fields) /\ batches \in Seq(Batches)
    BY <1>1, EmptySeq
  <2> QED
    BY <2>3, <2>4 DEF WriterTyped
<1>6. Layout /\ AsLaidOut /\ EndsInLast
  BY <1>1 DEF Layout, AsLaidOut, EndsInLast
<1>7. InStep
  <2>1. Len(todo) = 3 /\ NumWrites = 3 /\ Base = 0
    BY <1>1, <1>4 DEF NumWrites, Base
  <2>2. /\ Len(todo[1]) = 1 /\ Len(todo[2]) = 1 /\ Len(todo[3]) = 1
        /\ todo[1][1] = a /\ todo[2][1] = b /\ todo[3][1] = c
    BY <1>4
  <2>3. a = FieldUnderWay(format, batches, 1) /\ b = FieldUnderWay(format, batches, 2) /\ c = FieldUnderWay(format, batches, 3)
    BY <1>1, <1>3 DEF FieldUnderWay, HeaderField
  <2>4. ASSUME NEW i \in 1..Len(todo), NEW w \in 1..NumWrites,
               w + Len(todo) = NumWrites + i
        PROVE  /\ Len(todo[i]) = WriteLen(batches, w)
               /\ \A j \in 1..WriteLen(batches, w) :
                      todo[i][j] = FieldUnderWay(format, batches, w - 1 + j)
    <3>1. w = i /\ (i = 1 \/ i = 2 \/ i = 3)
      BY <2>1, <2>4
    <3>2. /\ WriteLen(batches, w) = 1 /\ Len(todo[i]) = 1
          /\ todo[i][1] = FieldUnderWay(format, batches, w)
      BY <2>2, <2>3, <3>1 DEF WriteLen
    <3>3. \A j \in 1..WriteLen(batches, w) : j = 1 /\ w - 1 + j = w
      BY <3>1, <3>2
    <3> QED
      BY <3>2, <3>3
  <2> QED
    BY <1>1, <1>4, <2>1, <2>4 DEF InStep
<1> QED
  BY <1>5, <1>6, <1>7 DEF WInv

LEMMA InitReader == Init => RInv
<1> SUFFICES ASSUME Init PROVE RInv
  OBVIOUS
<1>1. /\ reader = "magic" /\ next = 1 /\ partial = <<>> /\ returned = <<>>
      /\ Len(file) = 0 /\ Len(partial) = 0 /\ Len(returned) = 0 /\ Count \in Nat
  BY DEF Init, Count
<1>2. ReaderTyped
  BY <1>1, CountAssumption, EmptySeq DEF ReaderTyped, InHeader
<1> QED
  BY <1>1, <1>2 DEF RInv, HeaderPlace, BatchPlace, ReturnedSoFar, Done, InHeader,
    InBatch

-----------------------------------------------------------------------------
(* The writer.                                                              *)

\* Nothing the writer does to the file disturbs a reader: the file, the
\* batches and their ends only grow.
LEMMA ReaderKept ==
    ASSUME FileInv, UNCHANGED <<format, readerVars>>,
           Len(file) <= Len(file'), Len(file) \in Nat, Len(file') \in Nat,
           Count <= Count', Count \in Nat, Count' \in Nat,
           \A k \in 1..Count : batches'[k] = batches[k],
           \A k \in 1..(Count + 1) : ends'[k] = ends[k]
    PROVE  RInv'
<1> USE DEF FileInv, RInv
<1>1. /\ reader' = reader /\ next' = next /\ partial' = partial
      /\ returned' = returned /\ format' = format /\ Done' = Done
  BY DEF readerVars, Done
<1>2. ReaderTyped'
  BY <1>1 DEF ReaderTyped
<1>3. HeaderPlace'
  BY <1>1 DEF HeaderPlace
<1>4. Done \in Nat /\ Done <= Count /\ Len(partial) \in Nat
  BY LenProperties DEF ReaderTyped, Done, ReturnedSoFar
<1>5. BatchPlace'
  <2>1. SUFFICES ASSUME reader \in InBatch PROVE BatchPlace'
    BY <1>1 DEF BatchPlace
  <2>2. ends'[Done + 1] = ends[Done + 1]
    BY <1>4
  <2>3. Len(partial) > 0 => Done < Count /\ batches'[Done + 1] = batches[Done + 1]
    BY <1>4, <2>1 DEF BatchPlace
  <2>4. ASSUME NEW j \in 1..Len(partial)
        PROVE  partial[j] = BatchField(format, batches'[Done + 1], j).value
    BY <1>1, <2>1, <2>3 DEF BatchPlace
  <2> QED
    BY <1>1, <1>4, <2>1, <2>2, <2>3, <2>4 DEF BatchPlace
<1>6. ReturnedSoFar'
  BY <1>1, <1>4 DEF ReturnedSoFar
<1> QED
  BY <1>2, <1>3, <1>5, <1>6

\* The beginning of the write that is due goes where its fields belong.
LEMMA FileGrows ==
    ASSUME WInv, UNCHANGED <<format, history>>, writing, Len(todo) > 0,
           NEW n \in Nat, n <= Len(todo[1]),
           Len(file') \in Nat, Len(file') = Len(file) + n,
           \A i \in 1..Len(file) : file'[i] = file[i],
           \A i \in 1..n : file'[Len(file) + i] = todo[1][i]
    PROVE  AsLaidOut' /\ EndsInLast'
<1>1. /\ batches' = batches /\ ends' = ends /\ captured' = captured
      /\ format' = format /\ Count' = Count
  BY DEF history, Count
<1>2. Len(file) \in Nat
  BY WriterFacts
<1>0. Len(file') = Len(file) + n
  OBVIOUS
<1>3. /\ Count \in Nat /\ Len(todo) \in Nat
      /\ \A k \in 1..(Count + 1) : ends[k] \in Nat
      /\ \A k \in 1..Count : FieldsOf(batches[k]) \in Nat /\ batches[k] \in Batches
  BY WriterFacts
<1>4. Base \in Nat /\ NumWrites \in Nat
  BY <1>3 DEF Base, NumWrites
<1>5. PICK w \in Nat : /\ w = NumWrites - Len(todo) + 1 /\ 1 <= w /\ w <= NumWrites
                       /\ Len(file) = Base + w - 1
  <2>1. Len(todo) <= NumWrites /\ Len(file) + Len(todo) = Base + NumWrites
    <3>1. todo # <<>>
      BY EmptySeq
    <3> QED
      BY <3>1 DEF WInv, InStep
  <2>2. /\ NumWrites - Len(todo) + 1 \in Nat /\ 1 <= NumWrites - Len(todo) + 1
        /\ NumWrites - Len(todo) + 1 <= NumWrites
        /\ Len(file) = Base + (NumWrites - Len(todo) + 1) - 1
    BY <2>1, <1>0, <1>3, <1>4
  <2> QED
    BY <2>2
<1>6. /\ Len(todo[1]) = WriteLen(batches, w)
      /\ \A j \in 1..WriteLen(batches, w) : todo[1][j] = FieldUnderWay(format, batches, w - 1 + j)
  <2>1. /\ 1 \in 1..Len(todo) /\ w \in 1..NumWrites
        /\ w + Len(todo) = NumWrites + 1
    BY <1>3, <1>4, <1>5
  <2> QED
    BY <2>1 DEF WInv, InStep
<1>7. \A i \in (Len(file) + 1)..Len(file') : file'[i] = FieldUnderWay(format, batches, i - Base)
  <2> SUFFICES ASSUME NEW i \in (Len(file) + 1)..Len(file')
               PROVE  file'[i] = FieldUnderWay(format, batches, i - Base)
    OBVIOUS
  <2>0. i - Len(file) \in 1..n /\ i = Len(file) + (i - Len(file))
    BY <1>2
  <2>1. PICK j \in 1..n : j = i - Len(file) /\ i = Len(file) + j
    BY <2>0, Zenon
  <2>2. file'[i] = todo[1][j]
    BY <2>1
  <2>3. todo[1][j] = FieldUnderWay(format, batches, w - 1 + j)
    BY <1>2, <1>6
  <2>4. w - 1 + j = i - Base
    BY <1>2, <1>4, <1>5, <2>1
  <2> QED
    BY <2>2, <2>3, <2>4
<1>8. \A i \in 1..Len(file) : file'[i] = file[i]
  OBVIOUS
<1>9. Count > 0 => 3 <= ends[Count] /\ ends[Count] <= Len(file)
                   /\ Base = ends[Count]
  BY <1>3 DEF WInv, Layout, EndsInLast, Base
<1>10. ASSUME NEW j \in 1..3, j <= Len(file') PROVE file'[j] = HeaderField(format, j)
  <2>1. CASE j <= Len(file)
    BY <1>8, <2>1 DEF WInv, AsLaidOut
  <2>2. CASE j > Len(file)
    <3>1. Count = 0 /\ Base = 0
      BY <1>2, <1>3, <1>9, <2>2 DEF Base
    <3>2. file'[j] = FieldUnderWay(format, batches, j)
      BY <1>2, <1>7, <2>2, <3>1, <1>10
    <3> QED
      BY <3>1, <3>2 DEF FieldUnderWay, Count
  <2> QED
    BY <1>0, <2>1, <2>2
<1>11. ASSUME NEW k \in 1..Count, NEW j \in 1..FieldsOf(batches[k]),
              ends[k] + j <= Len(file')
       PROVE  file'[ends[k] + j] = BatchField(format, batches[k], j)
  <2>0. ends[k] \in Nat /\ FieldsOf(batches[k]) \in Nat
    BY <1>3
  <2>1. CASE ends[k] + j <= Len(file)
    <3>1. ends[k] + j \in 1..Len(file)
      BY <2>0, <2>1, <1>2
    <3> QED
      BY <1>8, <2>1, <3>1 DEF WInv, AsLaidOut
  <2>2. CASE ends[k] + j > Len(file)
    <3>1. k = Count
      <4>1. SUFFICES ASSUME k < Count PROVE FALSE
        BY <1>3
      <4>2. k + 1 \in 1..(Count + 1) /\ Count \in 1..(Count + 1) /\ k + 1 <= Count
        BY <1>3, <4>1
      <4>3. ends[k + 1] <= ends[Count] /\ ends[k + 1] = ends[k] + FieldsOf(batches[k])
        BY <4>2 DEF WInv, Layout
      <4>4. ends[Count] <= Len(file) /\ ends[Count] \in Nat
        BY <1>3, <1>9, <4>2
      <4>5. j <= FieldsOf(batches[k]) /\ j \in Nat
        BY <2>0
      <4>7. ends[k] + j <= ends[Count]
        BY <2>0, <4>3, <4>4, <4>5
      <4> QED
        BY <1>2, <2>0, <2>2, <4>4, <4>5, <4>7
    <3>2. Base = ends[k] /\ Count > 0
      BY <1>3, <1>9, <3>1
    <3>3. file'[ends[k] + j] = FieldUnderWay(format, batches, j)
      <4>0. /\ ends[k] + j \in (Len(file) + 1)..Len(file')
            /\ (ends[k] + j) - Base = j
        BY <1>0, <1>2, <1>11, <2>0, <2>2, <3>2
      <4>1. PICK i \in (Len(file) + 1)..Len(file') : i = ends[k] + j /\ i - Base = j
        BY <4>0, Zenon
      <4>2. file'[i] = FieldUnderWay(format, batches, i - Base)
        BY <1>7
      <4> QED
        BY <4>1, <4>2
    <3> QED
      BY <3>1, <3>2, <3>3 DEF FieldUnderWay, Count
  <2> QED
    BY <1>0, <2>0, <2>1, <2>2
<1>12. AsLaidOut'
  <2>1. \A k : FieldsOf(batches'[k]) = FieldsOf(batches[k])
    BY <1>1
  <2> QED
    BY <1>1, <1>10, <1>11, <2>1 DEF AsLaidOut
<1>13. Len(file') <= ends[Count + 1]
  <2>1. Len(file') <= Base + w - 1 + WriteLen(batches, w) /\ WriteLen(batches, w) \in Nat
    <3>1. WriteLen(batches, w) \in Nat
      <4>1. CASE w <= 3
        BY <4>1 DEF WriteLen
      <4>2. CASE w > 3
        <5>1. Count > 0
          BY <1>3, <1>5, <4>2 DEF NumWrites
        <5>2. Len(batches[Count].samples) \in Nat
          BY <1>3, <5>1, BatchFacts
        <5> QED
          BY <4>2, <5>2 DEF WriteLen
      <4> QED
        BY <4>1, <4>2
    <3> QED
      BY <3>1, <1>2, <1>4, <1>5, <1>6
  <2>2. CASE Count = 0
    BY <1>4, <1>5, <2>1, <2>2 DEF WInv, Layout, NumWrites, Base, WriteLen
  <2>3. CASE Count > 0
    <3>1. ends[Count + 1] = Base + FieldsOf(batches[Count])
      BY <1>3, <1>9, <2>3 DEF WInv, Layout
    <3>0. batches[Count] \in Batches
      BY <1>3, <2>3
    <3>2. /\ FieldsOf(batches[Count]) = 3 + Len(batches[Count].samples)
          /\ Len(batches[Count].samples) \in Nat
      BY <3>0, BatchFacts
    <3>3. w <= 4
      BY <1>5, <2>3 DEF NumWrites
    <3>4. w - 1 + WriteLen(batches, w) <= FieldsOf(batches[Count])
      <4>1. CASE w <= 3
        BY <3>2, <4>1 DEF WriteLen
      <4>2. CASE w = 4
        BY <3>2, <4>2 DEF WriteLen, Count
      <4> QED
        BY <3>3, <4>1, <4>2
    <3>5. PICK l \in Nat, u \in Nat, f \in Nat :
              /\ l = Len(file') /\ u = WriteLen(batches, w)
              /\ f = FieldsOf(batches[Count])
      BY <1>3, <2>1, <2>3
    <3>6. l <= Base + w - 1 + u /\ w - 1 + u <= f
      BY <2>1, <3>4, <3>5, Zenon
    <3>7. l <= Base + f
      BY <1>4, <3>6
    <3> QED
      BY <3>1, <3>5, <3>7, Zenon
  <2> QED
    BY <1>3, <2>2, <2>3
<1>14. EndsInLast'
  BY <1>1, <1>2, <1>3, <1>9, <1>13 DEF EndsInLast, WInv
<1> QED
  BY <1>12, <1>14

LEMMA ConcatFacts ==
    ASSUME NEW S, NEW f \in Seq(S), NEW s \in Seq(S), NEW g, g = f \o s
    PROVE  /\ g \in Seq(S)
           /\ Len(g) \in Nat /\ Len(g) = Len(f) + Len(s)
           /\ \A i \in 1..Len(f) : g[i] = f[i]
           /\ \A i \in 1..Len(s) : g[Len(f) + i] = s[i]
<1>1. /\ f \o s \in Seq(S) /\ Len(f \o s) = Len(f) + Len(s)
      /\ \A i \in 1..(Len(f) + Len(s)) :
             (f \o s)[i] = IF i <= Len(f) THEN f[i] ELSE s[i - Len(f)]
  BY ConcatProperties
<1>2. /\ g \in Seq(S) /\ Len(g) = Len(f) + Len(s)
      /\ \A i \in 1..(Len(f) + Len(s)) :
             g[i] = IF i <= Len(f) THEN f[i] ELSE s[i - Len(f)]
  BY <1>1, Zenon
<1>3. Len(f) \in Nat /\ Len(s) \in Nat
  BY LenProperties
<1>4. ASSUME NEW i \in 1..Len(s) PROVE g[Len(f) + i] = s[i]
  <2>1. /\ Len(f) + i \in 1..(Len(f) + Len(s)) /\ ~(Len(f) + i <= Len(f))
        /\ (Len(f) + i) - Len(f) = i
    BY <1>3
  <2>2. g[Len(f) + i] = s[(Len(f) + i) - Len(f)]
    BY <1>2, <2>1, Zenon
  <2> QED
    BY <2>1, <2>2, Zenon
<1>5. \A i \in 1..Len(f) : g[i] = f[i]
  BY <1>2, <1>3
<1> QED
  BY <1>2, <1>3, <1>4, <1>5

LEMMA FirstWrite ==
    ASSUME WriterTyped, todo # <<>>
    PROVE  /\ Len(todo) \in Nat /\ Len(todo) > 0
           /\ Head(todo) = todo[1] /\ todo[1] \in Seq(Fields)
           /\ Len(todo[1]) \in Nat
           /\ \A i \in 1..Len(todo[1]) : todo[1][i] \in Fields
<1>1. Len(todo) \in Nat /\ Len(todo) > 0
  BY EmptySeq DEF WriterTyped
<1>2. todo[1] \in Seq(Fields)
  BY <1>1, ElementOfSeq DEF WriterTyped
<1>3. Head(todo) = todo[1]
  OBVIOUS
<1>4. /\ Len(todo[1]) \in Nat
      /\ \A i \in 1..Len(todo[1]) : todo[1][i] \in Fields
  BY <1>2, LenProperties, ElementOfSeq
<1> QED
  BY <1>1, <1>2, <1>3, <1>4

LEMMA WriteAllStep == ASSUME FileInv, WriteAll PROVE FileInv'
<1>1. /\ writing /\ todo # <<>> /\ writing' = writing
      /\ file' = file \o Head(todo) /\ todo' = Tail(todo)
      /\ UNCHANGED <<format, history, readerVars>>
      /\ format' = format /\ torn' = torn
      /\ batches' = batches /\ ends' = ends /\ captured' = captured
      /\ Count' = Count
  BY DEF WriteAll, history, Count
<1>2. WInv /\ WriterTyped
  BY DEF FileInv, WInv
<1>3. /\ Len(todo) \in Nat /\ Len(todo) > 0
      /\ Head(todo) = todo[1] /\ todo[1] \in Seq(Fields)
      /\ Len(todo[1]) \in Nat
  BY <1>1, <1>2, FirstWrite
<1>4. file \in Seq(Fields) /\ file' = file \o todo[1]
  BY <1>1, <1>2, <1>3 DEF WriterTyped
<1>5. /\ file' \in Seq(Fields)
      /\ Len(file') \in Nat /\ Len(file') = Len(file) + Len(todo[1])
      /\ \A i \in 1..Len(file) : file'[i] = file[i]
      /\ \A i \in 1..Len(todo[1]) : file'[Len(file) + i] = todo[1][i]
  <2>1. file \in Seq(Fields) /\ todo[1] \in Seq(Fields) /\ file' = file \o todo[1]
    BY <1>3, <1>4
  <2> QED
    BY <2>1, ConcatFacts
<1>6. AsLaidOut' /\ EndsInLast'
  <2>1. Len(todo[1]) <= Len(todo[1])
    BY <1>3
  <2>2. UNCHANGED <<format, history>>
    BY <1>1
  <2> QED
    BY <1>1, <1>2, <1>3, <1>5, <2>1, <2>2, FileGrows, Zenon
<1>7. /\ todo' \in Seq(Seq(Fields)) /\ Len(todo') = Len(todo) - 1
      /\ \A i \in 1..Len(todo') : todo'[i] = todo[i + 1]
  BY <1>1, <1>2, HeadTailProperties DEF WriterTyped
<1>8. WriterTyped'
  BY <1>1, <1>2, <1>5, <1>7 DEF WriterTyped
<1>9. Layout'
  <2>1. \A k : FieldsOf(batches[k])' = FieldsOf(batches[k])
    BY <1>1 DEF FieldsOf
  <2>2. Layout
    BY <1>2 DEF WInv
  <2> QED
    BY <1>1, <2>1, <2>2 DEF Layout
<1>10. /\ Count \in Nat /\ Len(file) \in Nat
       /\ \A k \in 1..Count : batches[k] \in Batches
       /\ \A k \in 1..(Count + 1) : ends[k] \in Nat
  BY <1>2, WriterFacts
<1>11. /\ NumWrites' = NumWrites /\ Base' = Base /\ NumWrites \in Nat
       /\ Base \in Nat
  BY <1>1, <1>10 DEF NumWrites, Base
<1>12. /\ Len(todo) <= NumWrites
       /\ Len(file) + Len(todo) = Base + NumWrites
       /\ \A i \in 1..Len(todo) : \A w \in 1..NumWrites :
              w + Len(todo) = NumWrites + i =>
                  /\ Len(todo[i]) = WriteLen(batches, w)
                  /\ \A j \in 1..WriteLen(batches, w) :
                         todo[i][j] = FieldUnderWay(format, batches, w - 1 + j)
  <2>1. InStep
    BY <1>2 DEF WInv
  <2> QED
    BY <1>1, <2>1 DEF InStep
<1>20. /\ Len(todo) \in Nat /\ Len(todo) > 0 /\ Len(file) \in Nat
       /\ NumWrites \in Nat /\ Base \in Nat
       /\ Len(todo) <= NumWrites
       /\ Len(file) + Len(todo) = Base + NumWrites
       /\ Len(todo') \in Nat /\ Len(todo') + 1 = Len(todo)
  BY <1>3, <1>7, <1>10, <1>11, <1>12
<1>13. ASSUME NEW i \in 1..Len(todo'), NEW w \in 1..NumWrites,
              w + Len(todo') = NumWrites + i
       PROVE  /\ Len(todo'[i]) = WriteLen(batches, w)
              /\ \A j \in 1..WriteLen(batches, w) :
                     todo'[i][j] = FieldUnderWay(format, batches, w - 1 + j)
  <2>1. PICK k \in 1..Len(todo) : k = i + 1 /\ w + Len(todo) = NumWrites + k
    <3>1. i + 1 \in 1..Len(todo) /\ w + Len(todo) = NumWrites + (i + 1)
      BY <1>3, <1>7, <1>11, <1>13
    <3> QED
      BY <3>1
  <2>2. todo'[i] = todo[k]
    BY <1>7, <2>1
  <2> QED
    BY <1>12, <2>1, <2>2
<1>21. \A i \in 1..Len(todo') : \A w \in 1..NumWrites' :
           w + Len(todo') = NumWrites' + i =>
               /\ Len(todo'[i]) = WriteLen(batches', w)
               /\ \A j \in 1..WriteLen(batches', w) :
                      todo'[i][j] = FieldUnderWay(format', batches', w - 1 + j)
  <2>1. /\ batches' = batches /\ format' = format /\ NumWrites' = NumWrites
    BY <1>1, <1>11
  <2> QED
    BY <1>13, <2>1
<1>14. PICK first \in Nat : /\ 1 <= first /\ first <= NumWrites /\ first + Len(todo) = NumWrites + 1
                                    /\ Len(todo[1]) = WriteLen(batches, first)
  <2>1. /\ 1 \in 1..Len(todo) /\ NumWrites - Len(todo) + 1 \in 1..NumWrites
        /\ (NumWrites - Len(todo) + 1) + Len(todo) = NumWrites + 1
    BY <1>3, <1>11, <1>12
  <2> QED
    BY <1>12, <2>1
<1>15. ASSUME Len(todo) > 1 PROVE InStep'
  <2>1. NumWrites <= 4
    BY DEF NumWrites
  <2>2. WriteLen(batches, first) = 1
    BY <1>3, <1>11, <1>14, <1>15, <2>1 DEF WriteLen
  <2>3. /\ Len(file') + Len(todo') = Base + NumWrites /\ todo' # <<>>
        /\ Len(todo') <= NumWrites
    <3>1. Len(todo') > 0
      BY <1>20, <1>15
    <3>2. todo' # <<>>
      BY <3>1
    <3>3. Len(file') = Len(file) + 1
      BY <1>5, <1>14, <2>2
    <3>4. Len(file') + Len(todo') = Base + NumWrites /\ Len(todo') <= NumWrites
      BY <1>20, <3>3
    <3> QED
      BY <3>2, <3>4
  <2> QED
    BY <1>11, <1>21, <2>3, Zenon DEF InStep
<1>16. ASSUME ~(Len(todo) > 1) PROVE InStep'
  <2>0. Len(todo) + 1 = 2
    BY <1>20, <1>16
  <2>1. ~(Len(todo') > 0)
    BY <1>20, <1>16
  <2>2. todo' = <<>>
    BY <1>7, <2>1, EmptySeq
  <2>3. Len(file) + 1 = Base + NumWrites /\ Len(file') = Len(file) + WriteLen(batches, NumWrites)
    <3>1. first = NumWrites
      BY <1>20, <1>14, <2>0
    <3>2. Len(file) + 1 = Base + NumWrites
      BY <1>20, <2>0
    <3> QED
      BY <1>5, <1>14, <3>1, <3>2
  <2>5. Len(todo') <= NumWrites
    BY <1>20
  <2>4. Len(file') = ends'[Count' + 1]
    <3>1. CASE Count = 0
      <4>1. NumWrites = 3 /\ Base = 0 /\ WriteLen(batches, NumWrites) = 1
        BY <3>1 DEF NumWrites, Base, WriteLen
      <4>2. ends[1] = 3
        BY <1>2 DEF WInv, Layout
      <4> QED
        BY <1>1, <1>10, <2>3, <3>1, <4>1, <4>2
    <3>2. CASE Count > 0
      <4>1. /\ NumWrites = 4 /\ Base = ends[Count]
            /\ WriteLen(batches, NumWrites) = Len(batches[Count].samples)
        BY <1>10, <3>2 DEF NumWrites, Base, WriteLen, Count
      <4>2. batches[Count] \in Batches
        BY <1>10, <3>2
      <4>3. /\ FieldsOf(batches[Count]) = 3 + Len(batches[Count].samples)
            /\ Len(batches[Count].samples) \in Nat
        BY <4>2, BatchFacts
      <4>4. ends[Count + 1] = ends[Count] + FieldsOf(batches[Count])
        BY <1>2, <1>10, <3>2 DEF WInv, Layout
      <4>5. Len(file') = Len(file) + Len(batches[Count].samples)
        BY <2>3, <4>1
      <4>6. ends[Count] \in Nat /\ Len(file) = ends[Count] + 3
        BY <1>10, <2>3, <3>2, <4>1
      <4>7. PICK e \in Nat, m \in Nat :
                e = ends[Count] /\ m = Len(batches[Count].samples)
        BY <4>3, <4>6
      <4>8. e + 3 + m = e + (3 + m)
        OBVIOUS
      <4>9. Len(file') = ends[Count + 1]
        BY <4>3, <4>4, <4>5, <4>6, <4>7, <4>8, Zenon
      <4> QED
        BY <1>1, <4>9, Zenon
    <3> QED
      BY <1>10, <3>1, <3>2
  <2> QED
    BY <1>11, <1>21, <2>2, <2>3, <2>4, <2>5, Zenon DEF InStep
<1>17. InStep'
  BY <1>15, <1>16, Zenon
<1>18. WInv'
  BY <1>6, <1>8, <1>9, <1>17 DEF WInv
<1>19. RInv'
  <2>1. /\ Len(file) <= Len(file') /\ Count <= Count' /\ Count' \in Nat
    BY <1>1, <1>3, <1>5, <1>10
  <2>2. UNCHANGED <<format, readerVars>>
    BY <1>1
  <2>3. /\ \A k \in 1..Count : batches'[k] = batches[k]
        /\ \A k \in 1..(Count + 1) : ends'[k] = ends[k]
    BY <1>1
  <2> QED
    BY <1>5, <1>10, <2>1, <2>2, <2>3, ReaderKept, Zenon
<1> QED
  BY <1>18, <1>19 DEF FileInv

LEMMA InterruptStep == ASSUME FileInv, Interrupt PROVE FileInv'
<1>1. /\ writing' = FALSE
      /\ UNCHANGED <<format, file, torn, todo, history, readerVars>>
      /\ format' = format /\ file' = file /\ torn' = torn /\ todo' = todo
      /\ batches' = batches /\ ends' = ends /\ captured' = captured
      /\ Count' = Count
  BY DEF Interrupt, history, Count
<1>2. /\ WriterTyped /\ Layout /\ AsLaidOut /\ EndsInLast /\ WInv
  BY DEF FileInv, WInv
<1>3. WriterTyped'
  BY <1>1, <1>2 DEF WriterTyped
<1>4. Layout' /\ EndsInLast'
  <2>1. \A k : FieldsOf(batches'[k]) = FieldsOf(batches[k])
    BY <1>1
  <2> QED
    BY <1>1, <1>2, <2>1 DEF Layout, EndsInLast
<1>5. AsLaidOut'
  BY <1>1, <1>2 DEF AsLaidOut
<1>6. InStep'
  BY <1>1 DEF InStep
<1>7. RInv'
  <2>1. Count \in Nat /\ Len(file) \in Nat
    BY <1>2, WriterFacts
  <2>2. /\ Len(file) <= Len(file') /\ Len(file') \in Nat /\ Count <= Count'
        /\ Count' \in Nat
    BY <1>1, <2>1
  <2>3. UNCHANGED <<format, readerVars>>
    BY <1>1
  <2>4. /\ \A k \in 1..Count : batches'[k] = batches[k]
        /\ \A k \in 1..(Count + 1) : ends'[k] = ends[k]
    BY <1>1
  <2> QED
    BY <2>1, <2>2, <2>3, <2>4, ReaderKept, Zenon
<1> QED
  BY <1>3, <1>4, <1>5, <1>6, <1>7 DEF FileInv, WInv

LEMMA WriteErrorStep == ASSUME FileInv, WriteError PROVE FileInv'
<1>1. /\ writing /\ todo # <<>> /\ writing' = FALSE
      /\ UNCHANGED <<format, todo, history, readerVars>>
      /\ format' = format /\ todo' = todo
      /\ batches' = batches /\ ends' = ends /\ captured' = captured
      /\ Count' = Count
  BY DEF WriteError, history, Count
<1>2. /\ WriterTyped /\ Layout /\ WInv
  BY DEF FileInv, WInv
<1>3. /\ Len(todo) \in Nat /\ Len(todo) > 0
      /\ Head(todo) = todo[1] /\ todo[1] \in Seq(Fields)
      /\ Len(todo[1]) \in Nat
      /\ \A i \in 1..Len(todo[1]) : todo[1][i] \in Fields
  BY <1>1, <1>2, FirstWrite
<1>4. PICK n \in 0..(Len(todo[1]) - 1) :
          /\ torn' \in 0..(todo[1][n + 1].width - 1)
          /\ file' = file \o SubSeq(todo[1], 1, n)
  <2>1. PICK h : h = Head(todo)
    OBVIOUS
  <2>2. \E n \in 0..(Len(h) - 1) :
            /\ torn' \in 0..(h[n + 1].width - 1)
            /\ file' = file \o SubSeq(h, 1, n)
    BY <2>1, Zenon DEF WriteError
  <2>3. h = todo[1]
    BY <1>3, <2>1
  <2> QED
    BY <2>2, <2>3, Zenon
<1>5. n \in Nat /\ n <= Len(todo[1]) /\ n + 1 \in 1..Len(todo[1])
  BY <1>3
<1>6. torn' \in 0..7
  <2>1. todo[1][n + 1].width \in {3, 4, 8}
    <3>1. todo[1][n + 1] \in Fields
      BY <1>3, <1>5
    <3> QED
      BY <3>1 DEF Fields
  <2>2. PICK w \in {3, 4, 8} : w = todo[1][n + 1].width
    BY <2>1
  <2>3. torn' \in 0..(w - 1)
    BY <1>4, <2>2, Zenon
  <2>4. w \in Nat /\ w <= 8
    OBVIOUS
  <2> QED
    BY <2>3, <2>4
<1>7. PICK s \in Seq(Fields) : /\ s = SubSeq(todo[1], 1, n) /\ Len(s) = n
                               /\ \A i \in 1..n : s[i] = todo[1][i]
  <2>1. \A i \in 1..n : todo[1][i] \in Fields
    BY <1>3, <1>5
  <2>2. /\ SubSeq(todo[1], 1, n) \in Seq(Fields)
        /\ Len(SubSeq(todo[1], 1, n)) = IF 1 <= n THEN n - 1 + 1 ELSE 0
        /\ \A i \in 1..(n - 1 + 1) : SubSeq(todo[1], 1, n)[i] = todo[1][1 + i - 1]
    BY <2>1, <1>5, SubSeqProperties
  <2>3. PICK s \in Seq(Fields) : s = SubSeq(todo[1], 1, n)
    BY <2>2, Zenon
  <2>4. /\ Len(s) = IF 1 <= n THEN n - 1 + 1 ELSE 0
        /\ \A i \in 1..(n - 1 + 1) : s[i] = todo[1][1 + i - 1]
    BY <2>2, <2>3, Zenon
  <2>5. n - 1 + 1 = n /\ (1 <= n \/ n = 0)
    BY <1>5
  <2>6. ASSUME NEW i \in 1..n PROVE s[i] = todo[1][i]
    <3>1. 1 + i - 1 = i
      OBVIOUS
    <3> QED
      BY <2>4, <2>5, <3>1, Zenon
  <2>7. Len(s) = n
    BY <2>4, <2>5
  <2> QED
    BY <2>3, <2>6, <2>7, Zenon
<1>8. file \in Seq(Fields) /\ file' = file \o s
  BY <1>2, <1>4, <1>7, Zenon DEF WriterTyped
<1>9. /\ file' \in Seq(Fields)
      /\ Len(file') \in Nat /\ Len(file') = Len(file) + Len(s)
      /\ \A i \in 1..Len(file) : file'[i] = file[i]
      /\ \A i \in 1..Len(s) : file'[Len(file) + i] = s[i]
  BY <1>8, ConcatFacts
<1>10. AsLaidOut' /\ EndsInLast'
  <2>1. \A i \in 1..n : file'[Len(file) + i] = todo[1][i]
    BY <1>7, <1>9, Zenon
  <2>2. UNCHANGED <<format, history>> /\ Len(file') = Len(file) + n
    BY <1>1, <1>7, <1>9
  <2> QED
    BY <1>1, <1>2, <1>3, <1>5, <1>9, <2>1, <2>2, FileGrows, Zenon
<1>11. WriterTyped'
  BY <1>1, <1>2, <1>6, <1>9 DEF WriterTyped
<1>12. Layout'
  <2>1. \A k : FieldsOf(batches'[k]) = FieldsOf(batches[k])
    BY <1>1
  <2> QED
    BY <1>1, <1>2, <2>1 DEF Layout
<1>13. InStep'
  BY <1>1 DEF InStep
<1>14. RInv'
  <2>1. Count \in Nat /\ Len(file) \in Nat
    BY <1>2, WriterFacts
  <2>2. Len(file) <= Len(file') /\ Count <= Count' /\ Count' \in Nat
    BY <1>1, <1>5, <1>7, <1>9, <2>1
  <2>3. UNCHANGED <<format, readerVars>>
    BY <1>1
  <2>4. /\ \A k \in 1..Count : batches'[k] = batches[k]
        /\ \A k \in 1..(Count + 1) : ends'[k] = ends[k]
    BY <1>1
  <2> QED
    BY <1>9, <2>1, <2>2, <2>3, <2>4, ReaderKept, Zenon
<1> QED
  BY <1>10, <1>11, <1>12, <1>13, <1>14 DEF FileInv, WInv

\* The four writes of a batch.
LEMMA BatchWritesFacts ==
    ASSUME WriterTyped, NEW b \in Batches, NEW t, t = BatchWrites(format, b)
    PROVE  /\ t \in Seq(Seq(Fields)) /\ Len(t) \in Nat /\ Len(t) > 3 /\ ~(Len(t) > 4)
           /\ \A w \in 1..4 :
                  /\ Len(t[w]) = IF w <= 3 THEN 1 ELSE Len(b.samples)
                  /\ \A j \in 1..(IF w <= 3 THEN 1 ELSE Len(b.samples)) :
                         t[w][j] = BatchField(format, b, w - 1 + j)
<1>1. /\ b.dropped \in Nat /\ b.stalls \in Nat /\ b.samples \in Seq(Nat)
      /\ Len(b.samples) \in Nat /\ DOMAIN b.samples = 1..Len(b.samples)
      /\ \A i \in 1..Len(b.samples) : b.samples[i] \in Nat
      /\ FieldsOf(b) = 3 + Len(b.samples)
  BY BatchFacts
<1>2. PICK d, s, c, n :
          /\ d = U32(b.dropped) /\ s = U32(b.stalls) /\ c = U32(Len(b.samples))
          /\ n = Len(b.samples)
  OBVIOUS
<1>3. n \in Nat
  BY <1>1, <1>2
<1>4. PICK v : v = [i \in 1..n |-> Field(SampleWidth(format), b.samples[i])]
  OBVIOUS
<1>5. t = << <<d>>, <<s>>, <<c>>, v >>
  <2>1. t = << <<U32(b.dropped)>>, <<U32(b.stalls)>>, <<U32(Len(b.samples))>>,
               [i \in DOMAIN b.samples |-> Field(SampleWidth(format), b.samples[i])] >>
    BY Zenon DEF BatchWrites
  <2>2. v = [i \in DOMAIN b.samples |-> Field(SampleWidth(format), b.samples[i])]
    BY <1>1, <1>2, <1>4, Zenon
  <2> QED
    BY <1>2, <2>1, <2>2, Zenon
<1>6. d \in Fields /\ s \in Fields /\ c \in Fields
  BY <1>1, <1>2, FieldTypes DEF U32, Values
<1>7. \A i \in 1..n : v[i] = Field(SampleWidth(format), b.samples[i])
  BY <1>4, Zenon
<1>8. \A i \in 1..n : Field(SampleWidth(format), b.samples[i]) \in Fields
  <2> SUFFICES ASSUME NEW i \in 1..n
               PROVE  Field(SampleWidth(format), b.samples[i]) \in Fields
    OBVIOUS
  <2>1. b.samples[i] \in Values
    BY <1>1, <1>2 DEF Values
  <2> QED
    BY <2>1, WidthTypes, FieldTypes, Zenon
<1>9. v \in Seq(Fields) /\ Len(v) = n
  <2>1. v \in [1..n -> Fields]
    BY <1>4, <1>8, Zenon
  <2>2. v \in Seq(Fields)
    BY <1>3, <2>1, SeqDef
  <2> QED
    BY <1>3, <2>1, <2>2
<1>10. /\ t \in Seq(Seq(Fields)) /\ Len(t) \in Nat /\ Len(t) > 3 /\ ~(Len(t) > 4)
  <2>1. <<d>> \in Seq(Fields) /\ <<s>> \in Seq(Fields) /\ <<c>> \in Seq(Fields)
    BY <1>6
  <2> QED
    BY <1>5, <1>9, <2>1
<1>11. t[1] = <<d>> /\ t[2] = <<s>> /\ t[3] = <<c>> /\ t[4] = v
  BY <1>5
<1>12. /\ Len(t[1]) = 1 /\ Len(t[2]) = 1 /\ Len(t[3]) = 1
       /\ t[1][1] = d /\ t[2][1] = s /\ t[3][1] = c
  BY <1>11
<1>13. d = BatchField(format, b, 1) /\ s = BatchField(format, b, 2)
       /\ c = BatchField(format, b, 3)
  BY <1>2 DEF BatchField
<1>14. ASSUME NEW w \in 1..3
       PROVE  /\ Len(t[w]) = 1
              /\ \A j \in 1..1 : t[w][j] = BatchField(format, b, w - 1 + j)
  <2>1. w = 1 \/ w = 2 \/ w = 3
    OBVIOUS
  <2>2. Len(t[w]) = 1 /\ t[w][1] = BatchField(format, b, w)
    BY <1>12, <1>13, <2>1, Zenon
  <2>3. \A j \in 1..1 : j = 1 /\ w - 1 + j = w
    OBVIOUS
  <2> QED
    BY <2>2, <2>3
<1>15. /\ Len(t[4]) = n
       /\ \A j \in 1..n : t[4][j] = BatchField(format, b, 4 - 1 + j)
  <2>1. ASSUME NEW j \in 1..n PROVE v[j] = BatchField(format, b, 4 - 1 + j)
    <3>1. PICK k \in Nat : k = 4 - 1 + j /\ k > 3 /\ k - 3 = j
      <4>1. /\ 4 - 1 + j \in Nat /\ 4 - 1 + j > 3 /\ 4 - 1 + j - 3 = j
        BY <1>3
      <4> QED
        BY <4>1
    <3>2. k # 1 /\ k # 2 /\ k # 3
      BY <3>1
    <3>3. BatchField(format, b, k) = Field(SampleWidth(format), b.samples[j])
      BY <3>1, <3>2, Zenon DEF BatchField
    <3> QED
      BY <1>7, <3>1, <3>3, Zenon
  <2> QED
    BY <1>9, <1>11, <2>1, Zenon
<1>16. ASSUME NEW w \in 1..4
       PROVE  /\ Len(t[w]) = IF w <= 3 THEN 1 ELSE Len(b.samples)
              /\ \A j \in 1..(IF w <= 3 THEN 1 ELSE Len(b.samples)) :
                     t[w][j] = BatchField(format, b, w - 1 + j)
  <2>1. CASE w <= 3
    <3>1. w \in 1..3
      BY <2>1
    <3> QED
      BY <2>1, <3>1, <1>14, Zenon
  <2>2. CASE ~(w <= 3)
    <3>1. w = 4
      BY <2>2
    <3> QED
      BY <2>2, <3>1, <1>2, <1>15, Zenon
  <2> QED
    BY <2>1, <2>2, Zenon
<1> QED
  BY <1>10, <1>16, Zenon

LEMMA ReadTraceStep == ASSUME FileInv, ReadTrace PROVE FileInv'
<1>1. /\ writing /\ todo = <<>>
      /\ UNCHANGED <<format, file, torn, writing, readerVars>>
      /\ format' = format /\ file' = file /\ torn' = torn /\ writing' = writing
  BY DEF ReadTrace
<1>0. PICK dropped \in Totals, stalls \in Totals, n \in SampleCounts :
          \E b :
              /\ b = [dropped |-> dropped, stalls |-> stalls,
                      samples |-> [i \in 1..n |-> captured + i]]
              /\ batches' = Append(batches, b)
              /\ ends' = Append(ends, FieldsTo(Len(batches)) + FieldsOf(b))
              /\ captured' = captured + n
              /\ todo' = BatchWrites(format, b)
  BY Zenon DEF ReadTrace
<1>2. PICK b :
          /\ b = [dropped |-> dropped, stalls |-> stalls,
                  samples |-> [i \in 1..n |-> captured + i]]
          /\ batches' = Append(batches, b)
          /\ ends' = Append(ends, FieldsTo(Len(batches)) + FieldsOf(b))
          /\ captured' = captured + n
          /\ todo' = BatchWrites(format, b)
  BY <1>0, Zenon
<1>3. /\ WriterTyped /\ Layout /\ AsLaidOut /\ EndsInLast /\ InStep /\ WInv
  BY DEF FileInv, WInv
<1>4. n \in Nat /\ captured \in Nat
  BY <1>3, CountAssumption DEF WriterTyped
<1>5. b \in Batches /\ FieldsOf(b) \in Nat
  <2>1. [i \in 1..n |-> captured + i] \in [1..n -> Nat]
    BY <1>4
  <2>2. [i \in 1..n |-> captured + i] \in Seq(Nat)
    BY <1>4, <2>1, SeqDef
  <2>3. b \in Batches
    BY <1>2, <2>2 DEF Batches
  <2> QED
    BY <2>3, BatchFacts
<1>6. /\ Count \in Nat /\ Len(file) \in Nat
      /\ \A k \in 1..Count : batches[k] \in Batches
      /\ \A k \in 1..(Count + 1) : ends[k] \in Nat
      /\ \A k \in 1..Count : FieldsOf(batches[k]) \in Nat
  BY <1>3, WriterFacts
<1>7. /\ batches' \in Seq(Batches) /\ Len(batches') = Count + 1
      /\ Count' = Count + 1
      /\ \A k \in 1..Count : batches'[k] = batches[k]
      /\ batches'[Count + 1] = b
  BY <1>2, <1>3, <1>5, AppendProperties DEF WriterTyped, Count
<1>8. /\ ends' \in Seq(Nat) /\ Len(ends') = Count + 1 + 1
      /\ \A k \in 1..(Count + 1) : ends'[k] = ends[k]
      /\ ends'[Count + 1 + 1] = ends[Count + 1] + FieldsOf(b)
  <2>1. PICK e \in Nat : e = ends[Count + 1] + FieldsOf(b)
    <3>1. ends[Count + 1] \in Nat
      BY <1>6
    <3> QED
      BY <3>1, <1>5
  <2>2. ends' = Append(ends, e)
    BY <1>2, <2>1, Zenon DEF FieldsTo, Count
  <2>3. ends \in Seq(Nat) /\ Len(ends) = Count + 1
    BY <1>3 DEF WriterTyped, Layout
  <2>4. /\ ends' \in Seq(Nat) /\ Len(ends') = Len(ends) + 1
        /\ \A k \in 1..Len(ends) : ends'[k] = ends[k]
        /\ ends'[Len(ends) + 1] = e
    BY <2>1, <2>2, <2>3, AppendProperties
  <2> QED
    BY <2>1, <2>3, <2>4, Zenon
<1>9. Len(file) = ends[Count + 1]
  BY <1>1, <1>3 DEF InStep
<1>10. /\ todo' \in Seq(Seq(Fields)) /\ Len(todo') \in Nat
       /\ Len(todo') > 3 /\ ~(Len(todo') > 4)
       /\ \A w \in 1..4 :
              /\ Len(todo'[w]) = IF w <= 3 THEN 1 ELSE Len(b.samples)
              /\ \A j \in 1..(IF w <= 3 THEN 1 ELSE Len(b.samples)) :
                     todo'[w][j] = BatchField(format, b, w - 1 + j)
  <2>1. WriterTyped /\ b \in Batches /\ todo' = BatchWrites(format, b)
    BY <1>2, <1>3, <1>5
  <2> QED
    BY <2>1, BatchWritesFacts
<1>11. WriterTyped'
  BY <1>1, <1>2, <1>3, <1>4, <1>7, <1>8, <1>10 DEF WriterTyped
<1>12. Layout'
  <2>1. \A k \in 1..Count : ends[k + 1] = ends[k] + FieldsOf(batches[k])
    BY <1>3 DEF Layout
  <2>2. ASSUME NEW k \in 1..(Count + 1)
        PROVE  ends'[k + 1] = ends'[k] + FieldsOf(batches'[k])
    <3>1. CASE k = Count + 1
      BY <1>7, <1>8, <3>1, Zenon
    <3>2. CASE k # Count + 1
      <4>1. k \in 1..Count /\ k + 1 \in 1..(Count + 1)
        BY <1>6, <3>2
      <4>2. /\ ends'[k + 1] = ends[k + 1] /\ ends'[k] = ends[k]
            /\ batches'[k] = batches[k]
        BY <1>7, <1>8, <4>1, Zenon
      <4> QED
        BY <2>1, <4>1, <4>2, Zenon
    <3> QED
      BY <3>1, <3>2
  <2>3. \A i, j \in 1..(Count + 1) : i <= j => ends[i] <= ends[j]
    BY <1>3 DEF Layout
  <2>4. ASSUME NEW i \in 1..(Count + 1 + 1), NEW j \in 1..(Count + 1 + 1), i <= j
        PROVE  ends'[i] <= ends'[j]
    <3>1. ends[Count + 1] \in Nat
      BY <1>6
    <3>2. CASE j # Count + 1 + 1
      <4>1. i \in 1..(Count + 1) /\ j \in 1..(Count + 1)
        BY <1>6, <2>4, <3>2
      <4> QED
        BY <1>8, <2>3, <2>4, <4>1
    <3>3. CASE j = Count + 1 + 1 /\ i # Count + 1 + 1
      <4>1. i \in 1..(Count + 1) /\ i <= Count + 1 /\ Count + 1 \in 1..(Count + 1)
        BY <1>6, <3>3
      <4>2. ends[i] <= ends[Count + 1] /\ ends[i] \in Nat
        BY <1>6, <2>3, <4>1
      <4>3. ends'[i] = ends[i]
        BY <1>8, <4>1
      <4>4. ends'[j] = ends[Count + 1] + FieldsOf(b)
        BY <1>8, <3>3
      <4> QED
        BY <1>5, <3>1, <4>2, <4>3, <4>4
    <3>4. CASE i = Count + 1 + 1
      <4>1. i = j
        BY <1>6, <2>4, <3>4
      <4>2. ends'[i] = ends[Count + 1] + FieldsOf(b)
        BY <1>8, <3>4
      <4>3. ends'[i] \in Nat
        BY <1>5, <3>1, <4>2
      <4> QED
        BY <4>1, <4>3
    <3> QED
      BY <3>2, <3>3, <3>4
  <2>5. ends'[1] = 3
    BY <1>3, <1>6, <1>8 DEF Layout
  <2> QED
    BY <1>7, <1>8, <2>2, <2>4, <2>5 DEF Layout
<1>13. AsLaidOut'
  <2>1. \A j \in 1..3 : j <= Len(file) => file[j] = HeaderField(format, j)
    BY <1>3 DEF AsLaidOut
  <2>2. ASSUME NEW k \in 1..(Count + 1), NEW j \in 1..FieldsOf(batches'[k]),
               ends'[k] + j <= Len(file)
        PROVE  file[ends'[k] + j] = BatchField(format, batches'[k], j)
    <3>1. CASE k = Count + 1
      <4>1. ends'[k] = Len(file) /\ FieldsOf(batches'[k]) \in Nat
        BY <1>5, <1>6, <1>7, <1>8, <1>9, <3>1
      <4> QED
        BY <1>6, <2>2, <4>1
    <3>2. CASE k # Count + 1
      <4>1. k \in 1..Count
        BY <1>6, <3>2
      <4>2. ends'[k] = ends[k] /\ batches'[k] = batches[k]
        BY <1>7, <1>8, <4>1
      <4> QED
        BY <1>3, <2>2, <4>1, <4>2, Zenon DEF AsLaidOut
    <3> QED
      BY <3>1, <3>2
  <2> QED
    BY <1>1, <1>7, <2>1, <2>2 DEF AsLaidOut
<1>14. EndsInLast'
  <2>1. /\ ends'[Count + 1] = ends[Count + 1] /\ ends[Count + 1] \in Nat
        /\ ends'[Count + 1 + 1] = ends[Count + 1] + FieldsOf(b)
    BY <1>6, <1>8
  <2> QED
    BY <1>1, <1>5, <1>6, <1>7, <1>9, <2>1 DEF EndsInLast
<1>15. InStep'
  <2>1. NumWrites' = 4 /\ Base' = Len(file)
    <3>1. Count' # 0 /\ ends'[Count'] = Len(file)
      BY <1>6, <1>7, <1>8, <1>9
    <3> QED
      BY <3>1, Zenon DEF NumWrites, Base
  <2>2. \A w : WriteLen(batches', w) = IF w <= 3 THEN 1 ELSE Len(b.samples)
    BY <1>7 DEF WriteLen
  <2>3. \A j : FieldUnderWay(format', batches', j) = BatchField(format, b, j)
    <3>1. Len(batches') # 0 /\ batches'[Len(batches')] = b
      BY <1>6, <1>7
    <3> QED
      BY <1>1, <3>1, Zenon DEF FieldUnderWay
  <2>4. ASSUME NEW i \in 1..Len(todo'), NEW w \in 1..4, w + Len(todo') = 4 + i
        PROVE  /\ Len(todo'[i]) = WriteLen(batches', w)
               /\ \A j \in 1..WriteLen(batches', w) :
                      todo'[i][j] = FieldUnderWay(format', batches', w - 1 + j)
    <3>1. i = w
      BY <1>10, <2>4
    <3>2. /\ Len(todo'[w]) = IF w <= 3 THEN 1 ELSE Len(b.samples)
          /\ \A j \in 1..(IF w <= 3 THEN 1 ELSE Len(b.samples)) :
                 todo'[w][j] = BatchField(format, b, w - 1 + j)
      BY <1>10, Zenon
    <3> QED
      BY <2>2, <2>3, <3>1, <3>2, Zenon
  <2>5. todo' # <<>> /\ Len(todo') <= 4
    <3>1. todo' # <<>>
      BY <1>10
    <3>2. Len(todo') <= 4
      BY <1>10
    <3> QED
      BY <3>1, <3>2
  <2>6. Len(file') + Len(todo') = Base' + NumWrites'
    <3>1. Len(todo') + 1 = 5
      BY <1>10
    <3>2. Len(file) + Len(todo') = Len(file) + 4
      BY <1>6, <1>10, <3>1
    <3> QED
      BY <1>1, <2>1, <3>2, Zenon
  <2> QED
    BY <2>1, <2>4, <2>5, <2>6, Zenon DEF InStep
<1>16. RInv'
  <2>1. /\ Len(file) <= Len(file') /\ Len(file') \in Nat /\ Count <= Count'
        /\ Count' \in Nat
    BY <1>1, <1>6, <1>7
  <2>2. UNCHANGED <<format, readerVars>>
    BY <1>1
  <2> QED
    BY <1>6, <1>7, <1>8, <2>1, <2>2, ReaderKept, Zenon
<1> QED
  BY <1>11, <1>12, <1>13, <1>14, <1>15, <1>16 DEF FileInv, WInv

-----------------------------------------------------------------------------
(* The reader.                                                              *)

LEMMA WriterKept ==
    ASSUME WInv, UNCHANGED <<format, writerVars>>
    PROVE  /\ WInv' /\ Count' = Count /\ Len(file') = Len(file)
           /\ format' = format /\ file' = file /\ batches' = batches
           /\ ends' = ends
<1>1. /\ format' = format /\ file' = file /\ torn' = torn /\ todo' = todo
      /\ writing' = writing
      /\ batches' = batches /\ ends' = ends /\ captured' = captured
      /\ Count' = Count /\ NumWrites' = NumWrites /\ Base' = Base
  BY DEF writerVars, history, Count, NumWrites, Base
<1>2. WriterTyped /\ Layout /\ AsLaidOut /\ EndsInLast /\ InStep
  BY DEF WInv
<1>3. WriterTyped'
  BY <1>1, <1>2 DEF WriterTyped
<1>4. Layout'
  BY <1>1, <1>2 DEF Layout
<1>5. AsLaidOut'
  BY <1>1, <1>2 DEF AsLaidOut
<1>6. EndsInLast'
  BY <1>1, <1>2 DEF EndsInLast
<1>7. InStep'
  BY <1>1, <1>2 DEF InStep
<1> QED
  BY <1>1, <1>3, <1>4, <1>5, <1>6, <1>7 DEF WInv

\* What is known of the reader where it stands.
LEMMA ReaderFacts ==
    ASSUME FileInv
    PROVE  /\ Done \in Nat /\ Done <= Count /\ Count \in Nat
           /\ Len(partial) \in Nat /\ Len(file) \in Nat
           /\ next \in Nat \ {0} /\ next <= Len(file) + 1
           /\ ends[Done + 1] \in Nat
           /\ Done < Count =>
                  /\ batches[Done + 1] \in Batches
                  /\ FieldsOf(batches[Done + 1]) \in Nat
                  /\ FieldsOf(batches[Done + 1]) =
                         3 + Len(batches[Done + 1].samples)
                  /\ Len(batches[Done + 1].samples) \in Nat
                  /\ ends[Done + 2] = ends[Done + 1] + FieldsOf(batches[Done + 1])
<1>1. /\ Count \in Nat /\ Len(file) \in Nat
      /\ \A k \in 1..Count : batches[k] \in Batches
      /\ \A k \in 1..(Count + 1) : ends[k] \in Nat
  BY WriterFacts DEF FileInv
<1>2. Done \in Nat /\ Done <= Count /\ Len(partial) \in Nat
  BY LenProperties DEF FileInv, RInv, ReaderTyped, ReturnedSoFar, Done
<1>3. next \in Nat \ {0} /\ next <= Len(file) + 1
  BY DEF FileInv, RInv, ReaderTyped
<1>4. ends[Done + 1] \in Nat
  <2>1. Done + 1 \in 1..(Count + 1)
    BY <1>1, <1>2
  <2> QED
    BY <1>1, <2>1
<1>5. ASSUME Done < Count
      PROVE  /\ batches[Done + 1] \in Batches
             /\ FieldsOf(batches[Done + 1]) \in Nat
             /\ FieldsOf(batches[Done + 1]) =
                    3 + Len(batches[Done + 1].samples)
             /\ Len(batches[Done + 1].samples) \in Nat
             /\ ends[Done + 2] = ends[Done + 1] + FieldsOf(batches[Done + 1])
  <2>1. Done + 1 \in 1..Count /\ (Done + 1) + 1 = Done + 2
    BY <1>1, <1>2, <1>5
  <2>2. batches[Done + 1] \in Batches
    BY <1>1, <2>1
  <2>3. ends[(Done + 1) + 1] = ends[Done + 1] + FieldsOf(batches[Done + 1])
    BY <2>1 DEF FileInv, WInv, Layout
  <2> QED
    BY <2>1, <2>2, <2>3, BatchFacts
<1> QED
  BY <1>1, <1>2, <1>3, <1>4, <1>5

\* A batch the reader is still in is not whole yet.
LEMMA NotWhole ==
    ASSUME FileInv, reader \in InBatch, ~BatchRead, Done < Count
    PROVE  Len(partial) < FieldsOf(batches[Done + 1])
<1>1. /\ Done \in Nat /\ Done <= Count /\ Count \in Nat
      /\ Len(partial) \in Nat /\ Len(file) \in Nat
      /\ ends[Done + 1] \in Nat
      /\ Done < Count => /\ batches[Done + 1] \in Batches
                         /\ FieldsOf(batches[Done + 1]) \in Nat
                         /\ FieldsOf(batches[Done + 1]) =
                                3 + Len(batches[Done + 1].samples)
                         /\ Len(batches[Done + 1].samples) \in Nat
  BY ReaderFacts
<1>2. /\ next = ends[Done + 1] + Len(partial) + 1
      /\ reader = "dropped" <=> Len(partial) = 0
      /\ reader = "stalls" <=> Len(partial) = 1
      /\ reader = "count" <=> Len(partial) = 2
      /\ Len(partial) > 0 =>
             /\ Done < Count
             /\ Len(partial) <= FieldsOf(batches[Done + 1])
      /\ \A j \in 1..Len(partial) :
             partial[j] = BatchField(format, batches[Done + 1], j).value
  BY DEF FileInv, RInv, BatchPlace
<1>3. SUFFICES ASSUME Len(partial) > 2,
                      ~(Len(partial) < FieldsOf(batches[Done + 1]))
               PROVE FALSE
  BY <1>1
<1>4. Len(partial) = FieldsOf(batches[Done + 1])
  BY <1>1, <1>2, <1>3
<1>5. partial[3] = BatchField(format, batches[Done + 1], 3).value
  BY <1>1, <1>2, <1>3
<1>6. BatchField(format, batches[Done + 1], 3) =
          Field(4, Len(batches[Done + 1].samples))
  BY DEF BatchField, U32
<1>7. Field(4, Len(batches[Done + 1].samples)).value =
          Len(batches[Done + 1].samples)
  BY FieldParts, Zenon
<1>8. partial[3] = Len(batches[Done + 1].samples)
  BY <1>5, <1>6, <1>7, Zenon
<1>9. reader = "samples"
  <2>1. PICK n \in Nat : n = Len(partial)
    BY <1>1
  <2>2. n > 2
    BY <1>3, <2>1, Zenon
  <2>3. n # 0 /\ n # 1 /\ n # 2
    BY <2>2
  <2> QED
    BY <1>2, <2>1, <2>3, Zenon DEF InBatch
<1>10. Len(partial) = 3 + partial[3]
  BY <1>1, <1>4, <1>8, Zenon
<1> QED
  BY <1>9, <1>10 DEF BatchRead

\* In a batch, the field the reader is to read next is the next one of the
\* batch it has not returned yet.
LEMMA NextField ==
    ASSUME FileInv, reader \in InBatch, ~BatchRead, next <= Len(file)
    PROVE  /\ Done < Count
           /\ Len(partial) + 1 \in 1..FieldsOf(batches[Done + 1])
           /\ file[next] =
                  BatchField(format, batches[Done + 1], Len(partial) + 1)
           /\ Value \in Nat
<1>1. /\ Done \in Nat /\ Done <= Count /\ Count \in Nat
      /\ Len(partial) \in Nat /\ Len(file) \in Nat
      /\ ends[Done + 1] \in Nat
      /\ Done < Count => /\ batches[Done + 1] \in Batches
                         /\ FieldsOf(batches[Done + 1]) \in Nat
                         /\ FieldsOf(batches[Done + 1]) =
                                3 + Len(batches[Done + 1].samples)
                         /\ Len(batches[Done + 1].samples) \in Nat
  BY ReaderFacts
<1>2. /\ next = ends[Done + 1] + Len(partial) + 1
      /\ reader = "dropped" <=> Len(partial) = 0
      /\ reader = "stalls" <=> Len(partial) = 1
      /\ reader = "count" <=> Len(partial) = 2
      /\ Len(partial) > 0 =>
             /\ Done < Count
             /\ Len(partial) <= FieldsOf(batches[Done + 1])
      /\ \A j \in 1..Len(partial) :
             partial[j] = BatchField(format, batches[Done + 1], j).value
  BY DEF FileInv, RInv, BatchPlace
<1>3. Len(file) <= ends[Count + 1]
  BY DEF FileInv, WInv, EndsInLast
<1>4. Done < Count
  <2>1. SUFFICES ASSUME Done = Count PROVE FALSE
    BY <1>1
  <2>2. ends[Done + 1] = ends[Count + 1]
    BY <2>1
  <2>3. next <= ends[Done + 1]
    <3>1. next \in Nat /\ Len(file) <= ends[Done + 1]
      BY <1>3, <2>2, ReaderFacts
    <3> QED
      BY <1>1, <3>1
  <2>4. ~(Len(partial) > 0)
    BY <1>1, <1>2, <2>1
  <2> QED
    BY <1>1, <1>2, <2>3, <2>4
<1>5. Len(partial) + 1 \in 1..FieldsOf(batches[Done + 1])
  <2>1. Len(partial) < FieldsOf(batches[Done + 1])
    BY <1>4, NotWhole
  <2> QED
    BY <1>1, <1>4, <2>1
<1>6. file[next] = BatchField(format, batches[Done + 1], Len(partial) + 1)
  <2>1. PICK k \in 1..Count : k = Done + 1
    BY <1>1, <1>4
  <2>2. PICK j \in 1..FieldsOf(batches[k]) : j = Len(partial) + 1
    BY <1>5, <2>1
  <2>3. ends[k] + j = next
    <3>1. PICK e \in Nat, n \in Nat : e = ends[Done + 1] /\ n = Len(partial)
      BY <1>1
    <3>2. ends[k] + j = e + (n + 1) /\ next = e + n + 1
      BY <1>2, <2>1, <2>2, <3>1, Zenon
    <3>3. e + (n + 1) = e + n + 1
      OBVIOUS
    <3> QED
      BY <3>2, <3>3, Zenon
  <2>4. ends[k] + j <= Len(file) =>
            file[ends[k] + j] = BatchField(format, batches[k], j)
    BY DEF FileInv, WInv, AsLaidOut
  <2> QED
    BY <2>1, <2>2, <2>3, <2>4, Zenon
<1>7. Value \in Nat
  <2>1. BatchField(format, batches[Done + 1], Len(partial) + 1).value \in Nat
    BY <1>1, <1>4, <1>5, BatchFieldFacts
  <2> QED
    BY <1>6, <2>1, Zenon DEF Value
<1> QED
  BY <1>4, <1>5, <1>6, <1>7

\* Reading a field keeps what is known of the batch being read.
LEMMA ReadField ==
    ASSUME FileInv, reader \in InBatch, ~BatchRead, next <= Len(file),
           UNCHANGED <<format, writerVars, returned>>, next' = next + 1,
           partial' \in Seq(Nat), Len(partial') = Len(partial) + 1,
           \A j \in 1..Len(partial) : partial'[j] = partial[j],
           partial'[Len(partial) + 1] = Value
    PROVE  /\ WInv' /\ ReturnedSoFar'
           /\ next' \in Nat \ {0} /\ next' <= Len(file') + 1
           /\ returned' \in Seq(Batches)
           /\ next' = ends'[Done' + 1] + Len(partial') + 1
           /\ Len(partial') > 0 /\ Done' < Count'
           /\ Len(partial') <= FieldsOf(batches'[Done' + 1])
           /\ FieldsOf(batches'[Done' + 1]) \in Nat
           /\ \A j \in 1..Len(partial') :
                  partial'[j] = BatchField(format', batches'[Done' + 1], j).value
<1>1. /\ WInv' /\ Count' = Count /\ Len(file') = Len(file)
      /\ format' = format /\ file' = file /\ batches' = batches
      /\ ends' = ends
  BY WriterKept DEF FileInv
<1>2. returned' = returned /\ Done' = Done
  BY DEF Done
<1>3. /\ Done \in Nat /\ Done <= Count /\ Count \in Nat
      /\ Len(partial) \in Nat /\ Len(file) \in Nat
      /\ next \in Nat \ {0} /\ ends[Done + 1] \in Nat
      /\ Done < Count => FieldsOf(batches[Done + 1]) \in Nat
  BY ReaderFacts
<1>4. /\ Done < Count
      /\ Len(partial) + 1 \in 1..FieldsOf(batches[Done + 1])
      /\ file[next] = BatchField(format, batches[Done + 1], Len(partial) + 1)
  BY NextField
<1>5. ReturnedSoFar'
  <2>1. ReturnedSoFar
    BY DEF FileInv, RInv
  <2> QED
    BY <1>1, <1>2, <2>1 DEF ReturnedSoFar
<1>6. returned' \in Seq(Batches)
  BY <1>2 DEF FileInv, RInv, ReaderTyped
<1>7. /\ next = ends[Done + 1] + Len(partial) + 1
      /\ \A j \in 1..Len(partial) :
             partial[j] = BatchField(format, batches[Done + 1], j).value
  BY DEF FileInv, RInv, BatchPlace
<1>8. next' = ends'[Done' + 1] + Len(partial') + 1
  <2>1. ends'[Done' + 1] = ends[Done + 1]
    BY <1>1, <1>2
  <2>2. PICK e \in Nat, n \in Nat : e = ends[Done + 1] /\ n = Len(partial)
    BY <1>3
  <2>3. next' = e + n + 1 + 1 /\ Len(partial') = n + 1
    BY <1>7, <2>2, Zenon
  <2>4. e + n + 1 + 1 = e + (n + 1) + 1
    OBVIOUS
  <2> QED
    BY <2>1, <2>2, <2>3, <2>4, Zenon
<1>9. Len(partial') > 0 /\ Len(partial') <= FieldsOf(batches[Done + 1])
  <2>1. /\ Len(partial) + 1 <= FieldsOf(batches[Done + 1])
        /\ Len(partial) + 1 > 0
    BY <1>3, <1>4
  <2> QED
    BY <2>1, Zenon
<1>10. ASSUME NEW j \in 1..Len(partial')
       PROVE  partial'[j] = BatchField(format, batches[Done + 1], j).value
  <2>1. CASE j \in 1..Len(partial)
    BY <1>7, <2>1, Zenon
  <2>2. CASE j = Len(partial) + 1
    BY <1>4, <2>2, Zenon DEF Value
  <2>3. j \in 1..(Len(partial) + 1)
    BY Zenon
  <2> QED
    BY <1>3, <2>1, <2>2, <2>3
<1>11. next' \in Nat \ {0} /\ next' <= Len(file') + 1
  BY <1>1, <1>3
<1> QED
  BY <1>1, <1>2, <1>3, <1>4, <1>5, <1>6, <1>8, <1>9, <1>10, <1>11, Zenon

\* The steps that read a field of a batch.
LEMMA BatchReadStep ==
    ASSUME FileInv, ReadDropped \/ ReadStalls \/ ReadCount \/ ReadSample
    PROVE  FileInv'
<1>1. /\ reader \in InBatch /\ ~BatchRead /\ next <= Len(file)
      /\ UNCHANGED <<format, writerVars, returned>> /\ next' = next + 1
  <2>1. reader \in {"dropped", "stalls", "count"} => ~BatchRead
    BY DEF BatchRead
  <2> QED
    BY <2>1 DEF ReadDropped, ReadStalls, ReadCount, ReadSample, Advance, Has,
      InBatch
<1>2. /\ Len(partial) \in Nat /\ partial \in Seq(Nat)
      /\ reader = "dropped" <=> Len(partial) = 0
      /\ reader = "stalls" <=> Len(partial) = 1
      /\ reader = "count" <=> Len(partial) = 2
      /\ reader = "samples" => partial[3] <= MaxBatchSamples
  BY <1>1, ReaderFacts DEF FileInv, RInv, ReaderTyped, BatchPlace
<1>3. Value \in Nat
  BY <1>1, NextField
<1>4. /\ partial' \in Seq(Nat) /\ Len(partial') = Len(partial) + 1
      /\ \A j \in 1..Len(partial) : partial'[j] = partial[j]
      /\ partial'[Len(partial) + 1] = Value
  <2>1. CASE ReadDropped
    <3>1. reader = "dropped" /\ partial' = <<Value>>
      BY <2>1 DEF ReadDropped, Advance
    <3>2. Len(partial) = 0
      BY <1>2, <3>1
    <3> QED
      BY <1>3, <3>1, <3>2
  <2>2. CASE ReadStalls \/ ReadCount \/ ReadSample
    <3>1. partial' = Append(partial, Value)
      BY <2>2 DEF ReadStalls, ReadCount, ReadSample
    <3> QED
      BY <1>2, <1>3, <3>1, AppendProperties
  <2> QED
    BY <2>1, <2>2
<1>5. /\ WInv' /\ ReturnedSoFar'
      /\ next' \in Nat \ {0} /\ next' <= Len(file') + 1
      /\ returned' \in Seq(Batches)
      /\ next' = ends'[Done' + 1] + Len(partial') + 1
      /\ Len(partial') > 0 /\ Done' < Count'
      /\ Len(partial') <= FieldsOf(batches'[Done' + 1])
      /\ FieldsOf(batches'[Done' + 1]) \in Nat
      /\ \A j \in 1..Len(partial') :
             partial'[j] = BatchField(format', batches'[Done' + 1], j).value
  BY <1>1, <1>4, ReadField, Zenon

<1>6. PICK n \in Nat, m \in Nat :
          /\ n = Len(partial) /\ m = Len(partial') /\ m = n + 1
  <2>1. Len(partial) + 1 \in Nat
    BY <1>2
  <2> QED
    BY <1>2, <1>4, <2>1, Zenon
<1>7. /\ reader = "dropped" => n = 0 /\ m = 1 /\ reader' = "stalls"
      /\ reader = "stalls" => n = 1 /\ m = 2 /\ reader' = "count"
      /\ reader = "count" => /\ n = 2 /\ m = 3
                             /\ reader' \in {"samples", "refused"}
                             /\ reader' = "samples" => Value <= MaxBatchSamples
      /\ reader = "samples" => m > 3 /\ n >= 3 /\ reader' = "samples"
  <2>1. /\ reader = "dropped" => n = 0
        /\ reader = "stalls" => n = 1
        /\ reader = "count" => n = 2
        /\ reader = "samples" => n # 0 /\ n # 1 /\ n # 2
    BY <1>2, <1>6, Zenon
  <2>2. /\ reader = "dropped" => m = 1
        /\ reader = "stalls" => m = 2
        /\ reader = "count" => m = 3
        /\ reader = "samples" => m > 3 /\ n >= 3
    BY <1>6, <2>1
  <2>3. /\ reader = "dropped" => reader' = "stalls"
        /\ reader = "stalls" => reader' = "count"
        /\ reader = "samples" => reader' = "samples"
    BY DEF ReadDropped, ReadStalls, ReadCount, ReadSample, Advance
  <2>4. ASSUME reader = "count"
        PROVE  reader' = IF Value > MaxBatchSamples THEN "refused" ELSE "samples"
    BY <2>4 DEF ReadDropped, ReadStalls, ReadCount, ReadSample, Advance
  <2>5. ASSUME reader = "count"
        PROVE  /\ reader' \in {"samples", "refused"}
               /\ reader' = "samples" => Value <= MaxBatchSamples
    <3>1. MaxBatchSamples \in Nat
      BY CountAssumption
    <3> QED
      BY <1>3, <2>4, <2>5, <3>1
  <2> QED
    BY <2>1, <2>2, <2>3, <2>5, Zenon
<1>8. reader \in {"dropped", "stalls", "count", "samples"}
  BY <1>1 DEF InBatch
<1>9. ASSUME reader' = "samples"
      PROVE  /\ partial'[3] <= MaxBatchSamples /\ m >= 3
  <2>1. CASE reader = "count"
    <3>1. partial'[3] = Value
      <4>1. n + 1 = 3
        BY <1>6, <1>7, <2>1
      <4> QED
        BY <1>4, <1>6, <4>1, Zenon
    <3> QED
      BY <1>7, <1>9, <2>1, <3>1
  <2>2. CASE reader = "samples"
    <3>1. 3 \in 1..n
      BY <1>7, <2>2
    <3>2. partial'[3] = partial[3]
      BY <1>4, <1>6, <3>1, Zenon
    <3>3. m >= 3
      BY <1>7, <2>2
    <3> QED
      BY <1>2, <2>2, <3>2, <3>3
  <2>3. reader # "dropped" /\ reader # "stalls"
    BY <1>7, <1>9
  <2> QED
    BY <1>8, <2>1, <2>2, <2>3
<1>10. m <= 3 + MaxBatchSamples
  <2>0. MaxBatchSamples \in Nat
    BY CountAssumption
  <2>1. CASE reader' = "samples"
    <3>1. 3 \in 1..m /\ partial'[3] <= MaxBatchSamples
      BY <1>9, <2>1
    <3>2. PICK b : b = batches'[Done' + 1]
      OBVIOUS
    <3>3. partial'[3] = BatchField(format', b, 3).value
      BY <1>5, <1>6, <3>1, <3>2, Zenon
    <3>4. BatchField(format', b, 3) = Field(4, Len(b.samples))
      BY DEF BatchField, U32
    <3>5. Field(4, Len(b.samples)).value = Len(b.samples)
      BY FieldParts, Zenon
    <3>6. partial'[3] = Len(b.samples)
      BY <3>3, <3>4, <3>5, Zenon
    <3>7. FieldsOf(b) = 3 + partial'[3] /\ m <= FieldsOf(b)
      BY <1>5, <1>6, <3>2, <3>6, Zenon DEF FieldsOf
    <3>8. partial'[3] \in Nat
      BY <1>4, <1>6, <3>1, ElementOfSeq
    <3> QED
      BY <2>0, <3>1, <3>7, <3>8
  <2>2. CASE reader' # "samples"
    BY <1>7, <1>8, <2>0, <2>2
  <2> QED
    BY <2>1, <2>2
<1>11. reader' \in {"stalls", "count", "samples", "refused"}
  BY <1>7, <1>8
<1>12. /\ reader' = "dropped" <=> FALSE
       /\ reader' \in InBatch => /\ m # 0
                                 /\ reader' = "stalls" <=> m = 1
                                 /\ reader' = "count" <=> m = 2
  BY <1>7, <1>8, <1>11 DEF InBatch
<1>13. BatchPlace'
  <2> SUFFICES ASSUME reader' \in InBatch PROVE BatchPlace'
    BY Zenon DEF BatchPlace
  <2>1. /\ reader' = "dropped" <=> Len(partial') = 0
        /\ reader' = "stalls" <=> Len(partial') = 1
        /\ reader' = "count" <=> Len(partial') = 2
    BY <1>6, <1>12, Zenon
  <2>2. reader' = "samples" => partial'[3] <= MaxBatchSamples
    BY <1>9
  <2> QED
    BY <1>5, <2>1, <2>2, Zenon DEF BatchPlace
<1>14. HeaderPlace'
  BY <1>11 DEF HeaderPlace, InHeader
<1>15. ReaderTyped'
  <2>1. reader' \in InHeader \cup InBatch \cup {"eof", "truncated", "refused"}
    BY <1>11 DEF InBatch
  <2>2. Len(partial') <= 3 + MaxBatchSamples
    BY <1>6, <1>10, Zenon
  <2> QED
    BY <1>4, <1>5, <2>1, <2>2, Zenon DEF ReaderTyped
<1> QED
  BY <1>5, <1>13, <1>14, <1>15, Zenon DEF FileInv, RInv

\* The steps that read a field of the header.
LEMMA HeaderReadStep ==
    ASSUME FileInv, ReadMagic \/ ReadVersion \/ ReadReserved
    PROVE  FileInv'
<1>1. /\ next <= Len(file) /\ next' = next + 1
      /\ UNCHANGED <<format, writerVars, partial, returned>>
      /\ partial' = partial /\ returned' = returned /\ Done' = Done
      /\ reader \in InHeader
  BY DEF ReadMagic, ReadVersion, ReadReserved, Advance, Has, Done, InHeader
<1>2. /\ WInv' /\ Count' = Count /\ Len(file') = Len(file)
      /\ batches' = batches /\ ends' = ends
  BY <1>1, WriterKept DEF FileInv
<1>3. returned = <<>> /\ partial = <<>>
  BY <1>1 DEF FileInv, RInv, HeaderPlace
<1>4. /\ ReaderTyped /\ ReturnedSoFar
      /\ Len(file) \in Nat /\ next \in Nat \ {0}
  BY ReaderFacts DEF FileInv, RInv
<1>5. \/ reader' \in {"version", "refused"} /\ next' = 2
      \/ reader' \in {"reserved", "refused"} /\ next' = 3
      \/ reader' = "dropped" /\ next' = 4
  <2>1. /\ reader = "magic" => next = 1
        /\ reader = "version" => next = 2
        /\ reader = "reserved" => next = 3
    BY DEF FileInv, RInv, HeaderPlace
  <2>2. CASE ReadMagic
    BY <2>1, <2>2 DEF ReadMagic, Advance
  <2>3. CASE ReadVersion
    BY <2>1, <2>3 DEF ReadVersion, Advance
  <2>4. CASE ReadReserved
    BY <2>1, <2>4 DEF ReadReserved, Advance
  <2> QED
    BY <2>2, <2>3, <2>4
<1>6. ReaderTyped'
  <2>1. next' \in Nat \ {0} /\ next' <= Len(file') + 1
    BY <1>1, <1>2, <1>4
  <2> QED
    BY <1>1, <1>4, <1>5, <2>1 DEF ReaderTyped, InHeader, InBatch
<1>7. HeaderPlace'
  BY <1>1, <1>3, <1>5 DEF HeaderPlace, InHeader
<1>8. BatchPlace'
  <2> SUFFICES ASSUME reader' \in InBatch PROVE BatchPlace'
    BY Zenon DEF BatchPlace
  <2>1. reader' = "dropped" /\ next' = 4
    BY <1>5 DEF InBatch
  <2>2. Len(partial') = 0 /\ Done' = 0 /\ ends'[1] = 3
    BY <1>1, <1>2, <1>3 DEF Done, FileInv, WInv, Layout
  <2> QED
    BY <2>1, <2>2 DEF BatchPlace
<1>9. ReturnedSoFar'
  BY <1>1, <1>2, <1>4 DEF ReturnedSoFar
<1> QED
  BY <1>2, <1>6, <1>7, <1>8, <1>9 DEF FileInv, RInv

\* The batch that has been read is the batch that was written.
LEMMA WholeBatch ==
    ASSUME FileInv, BatchRead
    PROVE  /\ Done < Count
           /\ [dropped |-> partial[1], stalls |-> partial[2],
               samples |-> SubSeq(partial, 4, Len(partial))] = batches[Done + 1]
           /\ next = ends[Done + 2] + 1
<1>1. /\ Done \in Nat /\ Done <= Count /\ Count \in Nat
      /\ Len(partial) \in Nat
      /\ ends[Done + 1] \in Nat
      /\ Done < Count =>
             /\ batches[Done + 1] \in Batches
             /\ FieldsOf(batches[Done + 1]) \in Nat
             /\ FieldsOf(batches[Done + 1]) = 3 + Len(batches[Done + 1].samples)
             /\ Len(batches[Done + 1].samples) \in Nat
             /\ ends[Done + 2] = ends[Done + 1] + FieldsOf(batches[Done + 1])
  BY ReaderFacts
<1>2. reader = "samples" /\ Len(partial) = 3 + partial[3]
  BY DEF BatchRead
<1>3. /\ next = ends[Done + 1] + Len(partial) + 1
      /\ reader = "dropped" <=> Len(partial) = 0
      /\ reader = "stalls" <=> Len(partial) = 1
      /\ reader = "count" <=> Len(partial) = 2
      /\ Len(partial) > 0 =>
             /\ Done < Count
             /\ Len(partial) <= FieldsOf(batches[Done + 1])
      /\ \A j \in 1..Len(partial) :
             partial[j] = BatchField(format, batches[Done + 1], j).value
  BY <1>2 DEF FileInv, RInv, BatchPlace, InBatch
<1>4. PICK n \in Nat : n = Len(partial)
  BY <1>1
<1>5. n >= 3 /\ n > 0
  <2>1. n # 0 /\ n # 1 /\ n # 2
    <3>1. reader # "dropped" /\ reader # "stalls" /\ reader # "count"
      BY <1>2
    <3> QED
      BY <3>1, <1>3, <1>4, Zenon
  <2> QED
    BY <2>1
<1>6. Done < Count
  BY <1>3, <1>4, <1>5, Zenon
<1>7. PICK b \in Batches : b = batches[Done + 1]
  BY <1>1, <1>6
<1>8. /\ b.dropped \in Nat /\ b.stalls \in Nat /\ b.samples \in Seq(Nat)
      /\ b = [dropped |-> b.dropped, stalls |-> b.stalls,
              samples |-> b.samples]
      /\ Len(b.samples) \in Nat
      /\ \A i \in 1..Len(b.samples) : b.samples[i] \in Nat
  BY BatchFacts
<1>9. \A j \in 1..n : partial[j] = BatchField(format, b, j).value
  BY <1>3, <1>4, <1>7, Zenon
<1>10. partial[1] = b.dropped /\ partial[2] = b.stalls
       /\ partial[3] = Len(b.samples)
  <2>1. 1 \in 1..n /\ 2 \in 1..n /\ 3 \in 1..n
    BY <1>5
  <2>2. /\ partial[1] = BatchField(format, b, 1).value
        /\ partial[2] = BatchField(format, b, 2).value
        /\ partial[3] = BatchField(format, b, 3).value
    BY <1>9, <2>1, Zenon
  <2>3. /\ BatchField(format, b, 1) = Field(4, b.dropped)
        /\ BatchField(format, b, 2) = Field(4, b.stalls)
        /\ BatchField(format, b, 3) = Field(4, Len(b.samples))
    BY DEF BatchField, U32
  <2>4. /\ Field(4, b.dropped).value = b.dropped
        /\ Field(4, b.stalls).value = b.stalls
        /\ Field(4, Len(b.samples)).value = Len(b.samples)
    BY FieldParts, Zenon
  <2> QED
    BY <2>2, <2>3, <2>4, Zenon
<1>11. n = 3 + Len(b.samples)
  BY <1>2, <1>4, <1>10, Zenon
<1>12. SubSeq(partial, 4, Len(partial)) = b.samples
  <2>1. partial \in Seq(Nat)
    BY DEF FileInv, RInv, ReaderTyped
  <2>2. \A i \in 4..n : partial[i] \in Nat
    <3> SUFFICES ASSUME NEW i \in 4..n PROVE partial[i] \in Nat
      OBVIOUS
    <3>1. i \in 1..n
      BY <1>5
    <3> QED
      BY <1>4, <2>1, <3>1, ElementOfSeq
  <2>3. /\ SubSeq(partial, 4, n) \in Seq(Nat)
        /\ Len(SubSeq(partial, 4, n)) = IF 4 <= n THEN n - 4 + 1 ELSE 0
        /\ \A i \in 1..(n - 4 + 1) : SubSeq(partial, 4, n)[i] = partial[4 + i - 1]
    BY <2>2, SubSeqProperties
  <2>4. PICK s \in Seq(Nat) : s = SubSeq(partial, 4, n)
    BY <2>3, Zenon
  <2>5. /\ Len(s) = IF 4 <= n THEN n - 4 + 1 ELSE 0
        /\ \A i \in 1..(n - 4 + 1) : s[i] = partial[4 + i - 1]
    BY <2>3, <2>4, Zenon
  <2>6. PICK l \in Nat : l = Len(b.samples) /\ n = 3 + l
    BY <1>8, <1>11
  <2>7. n - 4 + 1 = l /\ (IF 4 <= n THEN n - 4 + 1 ELSE 0) = l
    BY <2>6
  <2>8. Len(s) = l
    BY <2>5, <2>7, Zenon
  <2>9. ASSUME NEW i \in 1..l PROVE s[i] = b.samples[i]
    <3>1. PICK j \in 1..n : /\ j = 4 + i - 1 /\ j - 3 = i
                            /\ j # 1 /\ j # 2 /\ j # 3
      <4>1. /\ 4 + i - 1 \in 1..n /\ (4 + i - 1) - 3 = i
            /\ 4 + i - 1 # 1 /\ 4 + i - 1 # 2 /\ 4 + i - 1 # 3
        BY <2>6
      <4> QED
        BY <4>1, Zenon
    <3>2. s[i] = partial[j]
      BY <2>5, <2>7, <3>1, Zenon
    <3>3. partial[j] = BatchField(format, b, j).value
      BY <1>9
    <3>4. BatchField(format, b, j) = Field(SampleWidth(format), b.samples[i])
      BY <3>1, Zenon DEF BatchField
    <3>5. Field(SampleWidth(format), b.samples[i]).value = b.samples[i]
      BY FieldParts, Zenon
    <3> QED
      BY <3>2, <3>3, <3>4, <3>5, Zenon
  <2>10. s = b.samples
    BY <1>8, <2>6, <2>8, <2>9, SeqEqual
  <2> QED
    BY <1>4, <2>4, <2>10, Zenon
<1>13. next = ends[Done + 2] + 1
  <2>1. FieldsOf(batches[Done + 1]) = n
    BY <1>1, <1>6, <1>7, <1>11, Zenon
  <2> QED
    BY <1>1, <1>3, <1>4, <1>6, <2>1, Zenon
<1>14. [dropped |-> partial[1], stalls |-> partial[2],
        samples |-> SubSeq(partial, 4, Len(partial))] = b
  BY <1>8, <1>10, <1>12, Zenon
<1> QED
  BY <1>6, <1>7, <1>13, <1>14, Zenon

LEMMA ReturnBatchStep == ASSUME FileInv, ReturnBatch PROVE FileInv'
<1>1. /\ BatchRead /\ partial' = <<>> /\ reader' = "dropped" /\ next' = next
      /\ UNCHANGED <<format, writerVars, next>>
      /\ returned' = Append(returned,
             [dropped |-> partial[1], stalls |-> partial[2],
              samples |-> SubSeq(partial, 4, Len(partial))])
  BY DEF ReturnBatch
<1>2. /\ WInv' /\ Count' = Count /\ Len(file') = Len(file)
      /\ batches' = batches /\ ends' = ends
  BY <1>1, WriterKept DEF FileInv
<1>3. /\ Done < Count /\ next = ends[Done + 2] + 1
      /\ [dropped |-> partial[1], stalls |-> partial[2],
          samples |-> SubSeq(partial, 4, Len(partial))] = batches[Done + 1]
  BY <1>1, WholeBatch
<1>4. /\ Done \in Nat /\ Count \in Nat /\ Len(file) \in Nat
      /\ next \in Nat \ {0} /\ next <= Len(file) + 1
      /\ batches[Done + 1] \in Batches
  BY <1>3, ReaderFacts
<1>5. returned' = Append(returned, batches[Done + 1])
  BY <1>1, <1>3, Zenon
<1>6. /\ returned' \in Seq(Batches) /\ Len(returned') = Done + 1
      /\ Done' = Done + 1
      /\ \A k \in 1..Done : returned'[k] = returned[k]
      /\ returned'[Done + 1] = batches[Done + 1]
  BY <1>4, <1>5, AppendProperties DEF FileInv, RInv, ReaderTyped, Done
<1>7. ReturnedSoFar'
  <2>1. ASSUME NEW k \in 1..(Done + 1) PROVE returned'[k] = batches[k]
    <3>1. CASE k = Done + 1
      BY <1>6, <3>1, Zenon
    <3>2. CASE k # Done + 1
      <4>1. k \in 1..Done
        BY <1>4, <3>2
      <4> QED
        BY <1>6, <4>1 DEF FileInv, RInv, ReturnedSoFar
    <3> QED
      BY <3>1, <3>2
  <2>2. Done + 1 <= Count
    BY <1>3, <1>4
  <2> QED
    BY <1>2, <1>6, <2>1, <2>2, Zenon DEF ReturnedSoFar
<1>8. ReaderTyped'
  <2>1. next' \in Nat \ {0} /\ next' <= Len(file') + 1
    BY <1>1, <1>2, <1>4
  <2>2. partial' \in Seq(Nat) /\ Len(partial') <= 3 + MaxBatchSamples
    BY <1>1, CountAssumption
  <2> QED
    BY <1>1, <1>6, <2>1, <2>2 DEF ReaderTyped, InBatch
<1>9. HeaderPlace'
  BY <1>1 DEF HeaderPlace, InHeader
<1>10. BatchPlace'
  <2>1. ends[Done + 2] \in Nat
    <3>1. Done + 2 \in 1..(Count + 1)
      BY <1>3, <1>4
    <3> QED
      BY <3>1, WriterFacts DEF FileInv
  <2>2. Done' + 1 = Done + 2
    BY <1>4, <1>6
  <2>3. Len(partial') = 0
    BY <1>1
  <2>4. next' = ends'[Done' + 1] + 0 + 1
    BY <1>1, <1>2, <1>3, <2>1, <2>2
  <2> QED
    BY <1>1, <2>3, <2>4 DEF BatchPlace
<1> QED
  BY <1>2, <1>7, <1>8, <1>9, <1>10 DEF FileInv, RInv

LEMMA EndStep == ASSUME FileInv, Eof \/ Truncated PROVE FileInv'
<1>1. /\ reader' \in {"eof", "truncated"}
      /\ UNCHANGED <<format, writerVars>>
      /\ next' = next /\ partial' = partial /\ returned' = returned
      /\ Done' = Done
  BY DEF Eof, Truncated, Done
<1>2. /\ WInv' /\ Count' = Count /\ Len(file') = Len(file)
      /\ batches' = batches
  BY <1>1, WriterKept DEF FileInv
<1>3. ReaderTyped'
  BY <1>1, <1>2 DEF FileInv, RInv, ReaderTyped
<1>4. HeaderPlace' /\ BatchPlace'
  BY <1>1 DEF HeaderPlace, BatchPlace, InHeader, InBatch
<1>5. ReturnedSoFar'
  BY <1>1, <1>2 DEF FileInv, RInv, ReturnedSoFar
<1> QED
  BY <1>2, <1>3, <1>4, <1>5 DEF FileInv, RInv

LEMMA FileInvStep == FileInv /\ [Next]_vars => FileInv'
<1> SUFFICES ASSUME FileInv, [Next]_vars PROVE FileInv'
  OBVIOUS
<1>1. CASE ReadTrace
  BY <1>1, ReadTraceStep
<1>2. CASE WriteAll
  BY <1>2, WriteAllStep
<1>3. CASE Interrupt
  BY <1>3, InterruptStep
<1>4. CASE WriteError
  BY <1>4, WriteErrorStep
<1>5. CASE ReadMagic \/ ReadVersion \/ ReadReserved
  BY <1>5, HeaderReadStep
<1>6. CASE ReadDropped \/ ReadStalls \/ ReadCount \/ ReadSample
  BY <1>6, BatchReadStep
<1>7. CASE ReturnBatch
  BY <1>7, ReturnBatchStep
<1>8. CASE Eof \/ Truncated
  BY <1>8, EndStep
<1>9. CASE UNCHANGED vars
  <2>1. UNCHANGED <<format, writerVars>> /\ UNCHANGED <<format, readerVars>>
    BY <1>9 DEF vars
  <2>2. /\ WInv' /\ Count' = Count /\ Len(file') = Len(file)
        /\ batches' = batches /\ ends' = ends
    BY <2>1, WriterKept DEF FileInv
  <2>3. Count \in Nat /\ Len(file) \in Nat
    BY WriterFacts DEF FileInv
  <2>4. /\ Len(file) <= Len(file') /\ Len(file') \in Nat /\ Count <= Count'
        /\ Count' \in Nat
    BY <2>2, <2>3
  <2>5. /\ \A k \in 1..Count : batches'[k] = batches[k]
        /\ \A k \in 1..(Count + 1) : ends'[k] = ends[k]
    BY <2>2
  <2>6. RInv'
    BY <2>1, <2>3, <2>4, <2>5, ReaderKept, Zenon
  <2> QED
    BY <2>2, <2>6 DEF FileInv
<1> QED
  BY <1>1, <1>2, <1>3, <1>4, <1>5, <1>6, <1>7, <1>8, <1>9
    DEF Next, Write, Read

LEMMA FileInvariant == Spec => []FileInv
<1>1. Init => FileInv
  BY InitWriter, InitReader DEF FileInv
<1> QED
  BY <1>1, FileInvStep, PTL DEF Spec

-----------------------------------------------------------------------------
(* What follows from the invariant.                                         *)

LEMMA WantedWidths ==
    /\ DOMAIN WidthWanted = InHeader \cup InBatch
    /\ WidthWanted["magic"] = 8 /\ WidthWanted["version"] = 4
    /\ WidthWanted["reserved"] = 4 /\ WidthWanted["dropped"] = 4
    /\ WidthWanted["stalls"] = 4 /\ WidthWanted["count"] = 4
    /\ WidthWanted["samples"] = SampleWidth(format)
  BY DEF WidthWanted, InHeader, InBatch

\* A field that is there has the width the reader asks for.
LEMMA WidthAsWanted ==
    ASSUME FileInv, reader \in InHeader \cup InBatch, ~BatchRead,
           next <= Len(file)
    PROVE  Has(WidthWanted[reader])
<1>1. CASE reader \in InHeader
  <2>1. /\ reader = "magic" => next = 1
        /\ reader = "version" => next = 2
        /\ reader = "reserved" => next = 3
    BY DEF FileInv, RInv, HeaderPlace
  <2>2. /\ \A j \in 1..3 : j <= Len(file) => file[j] = HeaderField(format, j)
        /\ WriterTyped
    BY DEF FileInv, WInv, AsLaidOut
  <2>3. /\ Field(8, MagicIn(format)).width = 8
        /\ Field(4, format).width = 4 /\ Field(4, 0).width = 4
    BY FieldParts, Zenon
  <2>4. /\ HeaderField(format, 1).width = 8
        /\ HeaderField(format, 2).width = 4
        /\ HeaderField(format, 3).width = 4
    BY <2>2, <2>3, HeaderFieldFacts, Zenon
  <2>5. next \in 1..3 => file[next] = HeaderField(format, next)
    BY <2>2
  <2>6. 1 \in 1..3 /\ 2 \in 1..3 /\ 3 \in 1..3
    OBVIOUS
  <2>7. file[next].width = WidthWanted[reader]
    BY <1>1, <2>1, <2>4, <2>5, <2>6, WantedWidths, Zenon DEF InHeader
  <2> QED
    BY <2>7, Zenon DEF Has
<1>2. CASE reader \in InBatch
  <2>1. PICK b, j :
            /\ b \in Batches
            /\ b = batches[Done + 1] /\ j = Len(partial) + 1
            /\ j \in 1..FieldsOf(b)
            /\ file[next] = BatchField(format, b, j)
    <3>1. /\ Done < Count
          /\ Len(partial) + 1 \in 1..FieldsOf(batches[Done + 1])
          /\ file[next] =
                 BatchField(format, batches[Done + 1], Len(partial) + 1)
      BY <1>2, NextField
    <3>2. batches[Done + 1] \in Batches
      BY <3>1, ReaderFacts
    <3> QED
      BY <3>1, <3>2, Zenon
  <2>2. PICK n \in Nat : n = Len(partial) /\ j = n + 1
    BY <2>1, ReaderFacts, Zenon
  <2>3. /\ reader = "dropped" <=> n = 0
        /\ reader = "stalls" <=> n = 1
        /\ reader = "count" <=> n = 2
    BY <1>2, <2>2, Zenon DEF FileInv, RInv, BatchPlace
  <2>4. /\ reader = "dropped" => j = 1
        /\ reader = "stalls" => j = 2
        /\ reader = "count" => j = 3
        /\ reader = "samples" => j > 3
    <3>1. j = n + 1
      BY <2>2
    <3> QED
      BY <2>3, <3>1
  <2>5. /\ j = 1 => BatchField(format, b, j) = Field(4, b.dropped)
        /\ j = 2 => BatchField(format, b, j) = Field(4, b.stalls)
        /\ j = 3 => BatchField(format, b, j) = Field(4, Len(b.samples))
        /\ j > 3 => BatchField(format, b, j) =
                        Field(SampleWidth(format), b.samples[j - 3])
    BY <2>1, BatchFieldFacts, Zenon DEF U32
  <2>6. /\ Field(4, b.dropped).width = 4
        /\ Field(4, b.stalls).width = 4
        /\ Field(4, Len(b.samples)).width = 4
        /\ Field(SampleWidth(format), b.samples[j - 3]).width =
               SampleWidth(format)
    BY FieldParts, Zenon
  <2>7. /\ j = 1 => BatchField(format, b, j).width = 4
        /\ j = 2 => BatchField(format, b, j).width = 4
        /\ j = 3 => BatchField(format, b, j).width = 4
        /\ j > 3 => BatchField(format, b, j).width = SampleWidth(format)
    BY <2>5, <2>6, Zenon
  <2>8. file[next].width = WidthWanted[reader]
    BY <1>2, <2>1, <2>4, <2>7, WantedWidths, Zenon DEF InBatch
  <2> QED
    BY <2>8, Zenon DEF Has
<1> QED
  BY <1>1, <1>2

LEMMA InvTypes == FileInv => TypeOK
<1> SUFFICES ASSUME FileInv PROVE TypeOK
  OBVIOUS
<1>1. WriterTyped /\ ReaderTyped
  BY DEF FileInv, WInv, RInv
<1>2. ASSUME NEW i \in DOMAIN file PROVE file[i].width \in {3, 4, 8}
  <2>1. file[i] \in Fields
    <3>1. i \in 1..Len(file)
      BY <1>1, LenProperties DEF WriterTyped
    <3> QED
      BY <1>1, <3>1, ElementOfSeq DEF WriterTyped
  <2> QED
    BY <2>1 DEF Fields
<1>3. reader \in DOMAIN WidthWanted \cup {"eof", "truncated", "refused"}
  BY <1>1, WantedWidths DEF ReaderTyped
<1>4. next \in 1..(Len(file) + 1)
  BY ReaderFacts
<1>5. /\ format \in Formats /\ torn \in 0..7 /\ writing \in BOOLEAN
      /\ batches \in Seq(Batches) /\ ends \in Seq(Nat) /\ captured \in Nat
  BY <1>1, Zenon DEF WriterTyped
<1>6. Len(partial) <= 3 + MaxBatchSamples /\ returned \in Seq(Batches)
  BY <1>1, Zenon DEF ReaderTyped
<1> QED
  BY <1>2, <1>3, <1>4, <1>5, <1>6, Zenon DEF TypeOK

LEMMA InvFaithful == FileInv => ReplayFaithful
<1> SUFFICES ASSUME FileInv PROVE ReplayFaithful
  OBVIOUS
<1>1. PICK n \in Nat : n = Len(returned) /\ n <= Len(batches)
  BY ReaderFacts DEF Done, Count
<1>2. /\ returned \in Seq(Batches) /\ batches \in Seq(Batches)
      /\ \A k \in 1..n : returned[k] = batches[k]
  BY <1>1 DEF FileInv, WInv, WriterTyped, RInv, ReaderTyped, ReturnedSoFar, Done
<1>3. Len(batches) \in Nat
  BY <1>2, LenProperties
<1>4. \A k \in 1..n : returned[k] \in Batches /\ batches[k] \in Batches
  <2> SUFFICES ASSUME NEW k \in 1..n
               PROVE  returned[k] \in Batches /\ batches[k] \in Batches
    OBVIOUS
  <2>1. k \in 1..Len(returned)
    BY <1>1
  <2> QED
    BY <1>2, <2>1, ElementOfSeq
<1>5. SubSeq(returned, 1, n) = SubSeq(batches, 1, n)
  <2>1. /\ SubSeq(returned, 1, n) \in Seq(Batches)
        /\ Len(SubSeq(returned, 1, n)) = IF 1 <= n THEN n - 1 + 1 ELSE 0
        /\ \A i \in 1..(n - 1 + 1) : SubSeq(returned, 1, n)[i] = returned[1 + i - 1]
    BY <1>4, SubSeqProperties
  <2>2. /\ SubSeq(batches, 1, n) \in Seq(Batches)
        /\ Len(SubSeq(batches, 1, n)) = IF 1 <= n THEN n - 1 + 1 ELSE 0
        /\ \A i \in 1..(n - 1 + 1) : SubSeq(batches, 1, n)[i] = batches[1 + i - 1]
    BY <1>4, SubSeqProperties
  <2>3. PICK s \in Seq(Batches), t \in Seq(Batches) :
            s = SubSeq(returned, 1, n) /\ t = SubSeq(batches, 1, n)
    BY <2>1, <2>2, Zenon
  <2>4. n - 1 + 1 = n /\ (IF 1 <= n THEN n - 1 + 1 ELSE 0) = n
    OBVIOUS
  <2>5. /\ Len(s) = n /\ Len(t) = n
        /\ \A i \in 1..n : s[i] = returned[1 + i - 1] /\ t[i] = batches[1 + i - 1]
    BY <2>1, <2>2, <2>3, <2>4, Zenon
  <2>6. \A i \in 1..n : s[i] = t[i]
    <3> SUFFICES ASSUME NEW i \in 1..n PROVE s[i] = t[i]
      OBVIOUS
    <3>1. 1 + i - 1 = i
      OBVIOUS
    <3> QED
      BY <1>2, <2>5, <3>1, Zenon
  <2>7. s = t
    BY <2>5, <2>6, SeqEqual
  <2> QED
    BY <2>3, <2>7, Zenon
<1> QED
  BY <1>1, <1>5, Zenon DEF ReplayFaithful, IsPrefix

LEMMA CleanEnd ==
    ASSUME FileInv, [Next]_vars, reader' = "eof", reader # "eof"
    PROVE  Len(returned) <= Len(batches) /\ EndsAfter(Len(returned))
<1>1. Eof
  <2>1. ~UNCHANGED vars
    BY DEF vars, readerVars
  <2>2. ~Write
    BY DEF Write, ReadTrace, WriteAll, Interrupt, WriteError, readerVars
  <2>3. ~(ReadMagic \/ ReadVersion \/ ReadReserved)
    BY DEF ReadMagic, ReadVersion, ReadReserved, Advance
  <2>4. ~(ReadDropped \/ ReadStalls \/ ReadCount \/ ReadSample)
    BY DEF ReadDropped, ReadStalls, ReadCount, ReadSample, Advance
  <2>5. ~ReturnBatch /\ ~Truncated
    BY DEF ReturnBatch, Truncated
  <2> QED
    BY <2>1, <2>2, <2>3, <2>4, <2>5, Zenon DEF Next, Read
<1>2. reader = "dropped" /\ next > Len(file) /\ torn = 0
  BY <1>1 DEF Eof, AtEnd
<1>3. PICK e \in Nat, l \in Nat, p \in Nat, n \in Nat :
          /\ e = ends[Done + 1] /\ l = Len(file) /\ p = Len(partial) /\ n = next
  BY ReaderFacts
<1>4. p = 0 /\ n = e + p + 1
  BY <1>2, <1>3, Zenon DEF FileInv, RInv, BatchPlace, InBatch
<1>5. n > l /\ n <= l + 1
  BY <1>2, <1>3, ReaderFacts, Zenon
<1>6. l = e
  BY <1>4, <1>5
<1>7. Done <= Count
  BY ReaderFacts
<1> QED
  BY <1>2, <1>3, <1>6, <1>7, Zenon DEF EndsAfter, FieldsTo, Done, Count

LEMMA RealTruncation ==
    ASSUME FileInv, [Next]_vars, reader' = "truncated", reader # "truncated"
    PROVE  \/ Len(file) < HeaderFields /\ returned = <<>>
           \/ /\ Len(file) >= FieldsTo(Len(returned))
              /\ ~EndsAfter(Len(returned))
              /\ \/ Len(returned) = Len(batches)
                 \/ Len(file) < FieldsTo(Len(returned) + 1)
<1>1. Truncated
  <2>1. ~UNCHANGED vars
    BY DEF vars, readerVars
  <2>2. ~Write
    BY DEF Write, ReadTrace, WriteAll, Interrupt, WriteError, readerVars
  <2>3. ~(ReadMagic \/ ReadVersion \/ ReadReserved)
    BY DEF ReadMagic, ReadVersion, ReadReserved, Advance
  <2>4. ~(ReadDropped \/ ReadStalls \/ ReadCount \/ ReadSample)
    BY DEF ReadDropped, ReadStalls, ReadCount, ReadSample, Advance
  <2>5. ~ReturnBatch /\ ~Eof
    BY DEF ReturnBatch, Eof
  <2> QED
    BY <2>1, <2>2, <2>3, <2>4, <2>5, Zenon DEF Next, Read
<1>2. /\ reader \in InHeader \cup InBatch
      /\ ~Has(WidthWanted[reader]) /\ ~AtEnd /\ ~BatchRead
  BY <1>1, WantedWidths, Zenon DEF Truncated
<1>3. ~(next <= Len(file))
  BY <1>2, WidthAsWanted
<1>4. /\ Done \in Nat /\ Done <= Count /\ Count \in Nat
      /\ Len(partial) \in Nat /\ Len(file) \in Nat
      /\ next \in Nat \ {0} /\ next <= Len(file) + 1
      /\ ends[Done + 1] \in Nat
  BY ReaderFacts
<1>5. next > Len(file) /\ next = Len(file) + 1
  BY <1>3, <1>4
<1>6. CASE reader \in InHeader
  <2>1. returned = <<>>
    BY <1>6 DEF FileInv, RInv, HeaderPlace
  <2>2. next = 1 \/ next = 2 \/ next = 3
    BY <1>6 DEF FileInv, RInv, HeaderPlace, InHeader
  <2>3. Len(file) < 3
    BY <1>4, <1>5, <2>2
  <2> QED
    BY <2>1, <2>3 DEF HeaderFields
<1>7. CASE reader \in InBatch
  <2>1. PICK e \in Nat, l \in Nat, p \in Nat :
            e = ends[Done + 1] /\ l = Len(file) /\ p = Len(partial)
    BY <1>4
  <2>2. l + 1 = e + p + 1
    BY <1>5, <1>7, <2>1, Zenon DEF FileInv, RInv, BatchPlace
  <2>3. l = e + p
    BY <2>2
  <2>4. l >= e
    BY <2>3
  <2>5. ~EndsAfter(Len(returned))
    <3>1. SUFFICES ASSUME l = e, torn = 0 PROVE FALSE
      BY <2>1, Zenon DEF EndsAfter, FieldsTo, Done
    <3>2. p = 0
      BY <2>3, <3>1
    <3>3. reader = "dropped"
      BY <1>7, <2>1, <3>2, Zenon DEF FileInv, RInv, BatchPlace
    <3> QED
      BY <1>2, <1>5, <3>1, <3>3, Zenon DEF AtEnd
  <2>6. Done = Count \/ Len(file) < FieldsTo(Done + 1)
    <3>1. SUFFICES ASSUME Done < Count PROVE Len(file) < FieldsTo(Done + 1)
      BY <1>4
    <3>2. PICK f \in Nat : /\ f = FieldsOf(batches[Done + 1])
                           /\ ends[Done + 2] = e + f
      BY <2>1, <3>1, ReaderFacts, Zenon
    <3>3. p < f
      BY <1>2, <1>7, <2>1, <3>1, <3>2, NotWhole, Zenon
    <3>4. l < e + f
      BY <2>3, <3>3
    <3>5. Done + 1 + 1 = Done + 2
      BY <1>4
    <3> QED
      BY <2>1, <3>2, <3>4, <3>5, Zenon DEF FieldsTo
  <2> QED
    BY <2>1, <2>4, <2>5, <2>6, Zenon DEF FieldsTo, Done, Count
<1> QED
  BY <1>2, <1>6, <1>7

-----------------------------------------------------------------------------
(* What a replay promises: CaptureFile implements Replay.                   *)

\* The reader is past the version of a format it knows, and no batch of ours
\* is too long for it.
Known ==
    /\ reader \in InBatch \cup {"reserved"} => format \in {1, CAPTURE_VERSION}
    /\ format = CAPTURE_VERSION =>
           \A k \in 1..Count : batches[k] \in ShortBatches

\* The magic and the version of a file are those of its format.
LEMMA VersionRead ==
    ASSUME FileInv, reader \in {"magic", "version"}, next <= Len(file)
    PROVE  /\ reader = "magic" => Value = MagicIn(format)
           /\ reader = "version" => Value = format
<1>1. Len(file) \in Nat /\ WriterTyped
  BY ReaderFacts DEF FileInv, WInv
<1>2. CASE reader = "magic"
  <2>1. next = 1 /\ 1 <= Len(file)
    BY <1>2 DEF FileInv, RInv, HeaderPlace
  <2>2. file[1] = HeaderField(format, 1)
    BY <2>1 DEF FileInv, WInv, AsLaidOut
  <2>3. file[next] = Field(8, MagicIn(format))
    BY <1>1, <2>1, <2>2, HeaderFieldFacts
  <2>4. Value = MagicIn(format)
    <3>1. Field(8, MagicIn(format)).value = MagicIn(format)
      BY FieldParts, Zenon
    <3> QED
      BY <2>3, <3>1 DEF Value
  <2> QED
    BY <1>2, <2>4
<1>3. CASE reader = "version"
  <2>1. next = 2 /\ 2 <= Len(file)
    BY <1>3 DEF FileInv, RInv, HeaderPlace
  <2>2. file[2] = HeaderField(format, 2)
    BY <2>1 DEF FileInv, WInv, AsLaidOut
  <2>3. file[next] = Field(4, format)
    BY <1>1, <2>1, <2>2, HeaderFieldFacts
  <2>4. Value = format
    <3>1. Field(4, format).value = format
      BY FieldParts, Zenon
    <3> QED
      BY <2>3, <3>1 DEF Value
  <2> QED
    BY <1>3, <2>4
<1> QED
  BY <1>2, <1>3

LEMMA KnownInit == Init => Known
  BY EmptySeq DEF Init, Known, InBatch, Count

\* A batch is given to the writer of our format only if it is short.
LEMMA TypedSeq ==
    ASSUME NEW S, NEW T, NEW s \in Seq(S), \A i \in 1..Len(s) : s[i] \in T
    PROVE  s \in Seq(T)
<1>1. Len(s) \in Nat /\ s \in [1..Len(s) -> S]
  BY LenProperties
<1>2. s \in [1..Len(s) -> T]
  BY <1>1
<1> QED
  BY <1>1, <1>2, SeqDef

LEMMA CaptureSeen ==
    ASSUME FileInv, Known, ReadTrace PROVE Known' /\ Captures!Capture
<1>1. /\ format' = format /\ reader' = reader /\ returned' = returned
  BY DEF ReadTrace, readerVars
<1>2. PICK dropped \in Totals, stalls \in Totals, n \in SampleCounts :
          \E b : /\ b = [dropped |-> dropped, stalls |-> stalls,
                         samples |-> [i \in 1..n |-> captured + i]]
                 /\ batches' = Append(batches, b)
                 /\ format = CAPTURE_VERSION => n <= MaxBatchSamples
  BY Zenon DEF ReadTrace
<1>3. PICK b : /\ b = [dropped |-> dropped, stalls |-> stalls,
                       samples |-> [i \in 1..n |-> captured + i]]
               /\ batches' = Append(batches, b)
               /\ format = CAPTURE_VERSION => n <= MaxBatchSamples
  BY <1>2, Zenon
<1>4. n \in Nat /\ captured \in Nat /\ batches \in Seq(Batches)
  BY CountAssumption DEF FileInv, WInv, WriterTyped
<1>5. b \in Batches /\ Len(b.samples) = n
  <2>1. [i \in 1..n |-> captured + i] \in [1..n -> Nat]
    BY <1>4
  <2>2. PICK s : s = [i \in 1..n |-> captured + i]
    OBVIOUS
  <2>3. s \in Seq(Nat) /\ DOMAIN s = 1..n
    BY <1>4, <2>1, <2>2, SeqDef
  <2>4. Len(s) = n
    BY <1>4, <2>3, LenProperties
  <2>5. b = [dropped |-> dropped, stalls |-> stalls, samples |-> s]
    BY <1>3, <2>2, Zenon
  <2> QED
    BY <2>3, <2>4, <2>5 DEF Batches
<1>6. /\ batches' \in Seq(Batches) /\ Len(batches') = Count + 1
      /\ \A k \in 1..Count : batches'[k] = batches[k]
      /\ batches'[Count + 1] = b
  BY <1>3, <1>4, <1>5, AppendProperties DEF Count
<1>7. Count \in Nat
  BY WriterFacts DEF FileInv
<1>8. format = CAPTURE_VERSION =>
          \A k \in 1..(Count + 1) : batches'[k] \in ShortBatches
  <2> SUFFICES ASSUME format = CAPTURE_VERSION, NEW k \in 1..(Count + 1)
               PROVE  batches'[k] \in ShortBatches
    OBVIOUS
  <2>1. CASE k = Count + 1
    <3>1. b \in ShortBatches
      BY <1>3, <1>5, Zenon DEF ShortBatches
    <3> QED
      BY <1>6, <2>1, <3>1, Zenon
  <2>2. CASE k # Count + 1
    <3>1. k \in 1..Count
      BY <1>7, <2>2
    <3> QED
      BY <1>6, <3>1, Zenon DEF Known
  <2> QED
    BY <2>1, <2>2
<1>9. Count' = Count + 1
  BY <1>6 DEF Count
<1>10. Known'
  BY <1>1, <1>8, <1>9 DEF Known
<1>11. batches' \in Seq(IF format = CAPTURE_VERSION THEN ShortBatches
                        ELSE Batches)
  <2>1. CASE format = CAPTURE_VERSION
    <3>1. batches' \in Seq(ShortBatches)
      BY <1>6, <1>8, <2>1, TypedSeq
    <3> QED
      BY <2>1, <3>1, Zenon
  <2>2. CASE format # CAPTURE_VERSION
    BY <1>6, <2>2, Zenon
  <2> QED
    BY <2>1, <2>2
<1>12. Outcome' = Outcome
  BY <1>1 DEF Outcome
<1> QED
  BY <1>1, <1>6, <1>10, <1>11, <1>12 DEF Captures!Capture, Count

\* The steps nobody sees.
LEMMA Unseen ==
    ASSUME Known, UNCHANGED <<format, batches, returned>>,
           \/ reader' = reader
           \/ reader' \in InHeader /\ reader' # "reserved" /\ reader \notin Finished
           \/ /\ reader' \in InBatch \cup {"reserved"}
              /\ format \in {1, CAPTURE_VERSION} /\ reader \notin Finished
    PROVE  Known' /\ UNCHANGED Captures!vars
<1>1. Count' = Count /\ format' = format /\ batches' = batches
  BY DEF Count
<1>2. Known'
  BY <1>1 DEF Known, InHeader, InBatch
<1>3. Outcome' = Outcome
  BY DEF Outcome, InHeader, InBatch, Finished
<1> QED
  BY <1>2, <1>3 DEF Captures!vars

\* A replay that ends has missed at most the last batch.
LEMMA StopSeen ==
    ASSUME FileInv, Known, Eof \/ Truncated
    PROVE  Known' /\ Captures!Stop
<1>1. /\ reader' \in {"eof", "truncated"} /\ reader \in InHeader \cup InBatch
      /\ UNCHANGED <<format, returned>> /\ batches' = batches
  BY WantedWidths
    DEF Eof, Truncated, AtEnd, InBatch, writerVars, history
<1>2. /\ Done \in Nat /\ Count \in Nat /\ Done <= Count /\ Len(file) \in Nat
      /\ \A k \in 1..(Count + 1) : ends[k] \in Nat
  BY ReaderFacts, WriterFacts DEF FileInv
<1>3. Known'
  BY <1>1 DEF Known, InBatch, Count
<1>4. Outcome = "none" /\ Outcome' = reader'
  BY <1>1 DEF Outcome, Finished, InHeader, InBatch
<1>5. FileInv /\ [Next]_vars
  BY DEF Next, Read
<1>6. Count <= Done + 1
  <2> SUFFICES ASSUME ~(Count <= Done + 1) PROVE FALSE
    OBVIOUS
  <2>1. Done + 2 \in 1..Count /\ Count > 0 /\ Done + 2 <= Count
    BY <1>2
  <2>2. ends[Done + 2] <= ends[Count] /\ ends[Count] <= Len(file)
        /\ ends[1] <= ends[Count] /\ ends[1] = 3
    <3>1. /\ Done + 2 \in 1..(Count + 1) /\ Count \in 1..(Count + 1)
          /\ 1 \in 1..(Count + 1) /\ 1 <= Count
      BY <1>2, <2>1
    <3> QED
      BY <2>1, <3>1 DEF FileInv, WInv, Layout, EndsInLast
  <2>3. CASE reader' = "eof"
    <3>1. EndsAfter(Len(returned))
      BY <1>1, <1>5, <2>3, CleanEnd DEF InHeader, InBatch
    <3>2. Len(file) = ends[Done + 1]
      BY <3>1 DEF EndsAfter, FieldsTo, Done
    <3>3. /\ ends[Done + 2] = ends[Done + 1] + FieldsOf(batches[Done + 1])
          /\ FieldsOf(batches[Done + 1]) = 3 + Len(batches[Done + 1].samples)
          /\ Len(batches[Done + 1].samples) \in Nat /\ ends[Done + 1] \in Nat
      BY <1>2, <2>1, ReaderFacts
    <3>4. ends[Count] \in Nat
      BY <1>2, <2>1
    <3> QED
      BY <1>2, <2>2, <3>2, <3>3, <3>4
  <2>4. CASE reader' = "truncated"
    <3>1. \/ Len(file) < HeaderFields
          \/ Done = Count
          \/ Len(file) < FieldsTo(Done + 1)
      BY <1>1, <1>5, <2>4, RealTruncation DEF InHeader, InBatch, Done, Count
    <3>2. /\ ends[Count] \in Nat /\ ends[Done + 2] \in Nat
          /\ Done + 1 + 1 = Done + 2
      BY <1>2, <2>1
    <3>3. ~(Len(file) < HeaderFields)
      BY <1>2, <2>2, <3>2 DEF HeaderFields
    <3>4. ~(Len(file) < FieldsTo(Done + 1))
      <4>1. FieldsTo(Done + 1) = ends[Done + 2]
        BY <3>2, Zenon DEF FieldsTo
      <4> QED
        BY <1>2, <2>2, <3>2, <4>1
    <3> QED
      BY <1>2, <2>1, <3>1, <3>3, <3>4
  <2> QED
    BY <1>1, <2>3, <2>4
<1> QED
  BY <1>1, <1>3, <1>4, <1>6 DEF Captures!Stop, Done, Count

LEMMA ReturnSeen ==
    ASSUME FileInv, Known, ReturnBatch
    PROVE  Known' /\ Captures!Return
<1>1. /\ BatchRead /\ reader = "samples" /\ reader' = "dropped"
      /\ format' = format /\ batches' = batches
      /\ returned' = Append(returned,
             [dropped |-> partial[1], stalls |-> partial[2],
              samples |-> SubSeq(partial, 4, Len(partial))])
  BY DEF ReturnBatch, BatchRead, writerVars, history
<1>2. /\ Done < Count
      /\ returned' = Append(returned, batches[Done + 1])
  BY <1>1, WholeBatch, Zenon
<1>3. batches[Done + 1] \in Batches /\ batches[Done + 1] \in ShortBatches
  <2>1. /\ batches[Done + 1] \in Batches
        /\ FieldsOf(batches[Done + 1]) = 3 + Len(batches[Done + 1].samples)
        /\ Len(batches[Done + 1].samples) \in Nat
        /\ FieldsOf(batches[Done + 1]) \in Nat
    BY <1>2, ReaderFacts
  <2>2. /\ partial[3] <= MaxBatchSamples /\ Len(partial) = 3 + partial[3]
        /\ \A j \in 1..Len(partial) :
               partial[j] = BatchField(format, batches[Done + 1], j).value
        /\ partial \in Seq(Nat) /\ Len(partial) \in Nat
    BY <1>1, LenProperties
      DEF FileInv, RInv, BatchPlace, ReaderTyped, InBatch, BatchRead
  <2>3. /\ reader = "dropped" <=> Len(partial) = 0
        /\ reader = "stalls" <=> Len(partial) = 1
        /\ reader = "count" <=> Len(partial) = 2
    BY <1>1 DEF FileInv, RInv, BatchPlace, InBatch
  <2>4. 3 \in 1..Len(partial)
    BY <1>1, <2>2, <2>3
  <2>5. partial[3] = Len(batches[Done + 1].samples)
    <3>1. 3 \in 1..FieldsOf(batches[Done + 1])
      BY <2>1
    <3>2. BatchField(format, batches[Done + 1], 3) =
              U32(Len(batches[Done + 1].samples))
      BY <2>1, <3>1, BatchFieldFacts
    <3>3. partial[3] = U32(Len(batches[Done + 1].samples)).value
      BY <2>2, <2>4, <3>2
    <3> QED
      BY <3>3, FieldParts, Zenon DEF U32
  <2> QED
    BY <2>1, <2>2, <2>5, Zenon DEF ShortBatches
<1>4. format \in {1, CAPTURE_VERSION}
  BY <1>1 DEF Known, InBatch
<1>5. Outcome = "none" /\ Outcome' = "none"
  BY <1>1 DEF Outcome, Finished
<1>6. Known'
  BY <1>1 DEF Known, InBatch, Count
<1> QED
  BY <1>1, <1>2, <1>3, <1>4, <1>5, <1>6
    DEF Captures!Return, Captures!Due, Done, Count

\* A file is refused for its format or for a batch that is too long.
LEMMA HeaderSeen ==
    ASSUME FileInv, Known, ReadMagic \/ ReadVersion \/ ReadReserved
    PROVE  /\ Known'
           /\ Captures!Refuse \/ UNCHANGED Captures!vars
<1>1. /\ UNCHANGED <<format, returned>> /\ batches' = batches
      /\ next <= Len(file) /\ reader \in InHeader /\ returned = <<>>
  BY DEF ReadMagic, ReadVersion, ReadReserved, Advance, Has, InHeader,
         writerVars, history, FileInv, RInv, HeaderPlace
<1>2. CASE ReadReserved
  BY <1>1, <1>2, Unseen
    DEF ReadReserved, Advance, Known, InHeader, InBatch, Finished
<1>3. CASE ReadMagic /\ reader' = "version"
  BY <1>1, <1>3, Unseen DEF InHeader, Finished
<1>4. CASE ReadVersion /\ reader' = "reserved"
  <2>1. Value \in {1, CAPTURE_VERSION} /\ reader = "version"
    BY <1>4 DEF ReadVersion, Advance
  <2>2. Value = format
    BY <1>1, <2>1, VersionRead
  <2> QED
    BY <1>1, <1>4, <2>1, <2>2, Unseen DEF Finished, InHeader
<1>5. CASE reader' = "refused"
  <2>1. format \notin {1, CAPTURE_VERSION}
    <3>1. CASE ReadMagic
      <4>1. Value # "FREDCAP" /\ reader = "magic"
        BY <1>5, <3>1 DEF ReadMagic, Advance
      <4>2. MagicIn(format) # "FREDCAP"
        BY <1>1, <4>1, VersionRead, Zenon
      <4> QED
        BY <4>2 DEF MagicIn, CAPTURE_VERSION
    <3>2. CASE ReadVersion
      <4>1. Value \notin {1, CAPTURE_VERSION} /\ reader = "version"
        BY <1>5, <3>2 DEF ReadVersion, Advance
      <4> QED
        BY <1>1, <4>1, VersionRead
    <3> QED
      BY <1>5, <3>1, <3>2 DEF ReadReserved, Advance
  <2>2. Known'
    BY <1>1, <1>5 DEF Known, InBatch, Count
  <2>3. Outcome = "none" /\ Outcome' = "refused"
    BY <1>1, <1>5 DEF Outcome, Finished, InHeader
  <2> QED
    BY <1>1, <2>1, <2>2, <2>3 DEF Captures!Refuse
<1> QED
  BY <1>2, <1>3, <1>4, <1>5 DEF ReadMagic, ReadVersion, Advance

LEMMA BatchSeen ==
    ASSUME FileInv, Known, ReadDropped \/ ReadStalls \/ ReadCount \/ ReadSample
    PROVE  /\ Known'
           /\ Captures!Refuse \/ UNCHANGED Captures!vars
<1>1. /\ UNCHANGED <<format, returned>> /\ batches' = batches
      /\ next <= Len(file) /\ reader \in InBatch
      /\ reader' \in InBatch \cup {"refused"}
      /\ reader' = "refused" =>
             ReadCount /\ reader = "count" /\ Value > MaxBatchSamples
  BY DEF ReadDropped, ReadStalls, ReadCount, ReadSample, Advance, Has, InBatch,
         writerVars, history
<1>2. format \in {1, CAPTURE_VERSION}
  BY <1>1 DEF Known
<1>3. CASE reader' # "refused"
  BY <1>1, <1>2, <1>3, Unseen DEF InBatch, Finished
<1>4. CASE reader' = "refused"
  <2>1. reader = "count" /\ Value > MaxBatchSamples /\ ~BatchRead
    BY <1>1, <1>4 DEF BatchRead
  <2>2. Len(partial) = 2
    BY <1>1, <2>1 DEF FileInv, RInv, BatchPlace
  <2>3. /\ Done < Count
        /\ file[next] = BatchField(format, batches[Done + 1], Len(partial) + 1)
        /\ Value \in Nat
    BY <1>1, <2>1, NextField
  <2>4. /\ batches[Done + 1] \in Batches
        /\ Len(batches[Done + 1].samples) \in Nat
        /\ FieldsOf(batches[Done + 1]) = 3 + Len(batches[Done + 1].samples)
        /\ FieldsOf(batches[Done + 1]) \in Nat
    BY <2>3, ReaderFacts
  <2>5. Value = Len(batches[Done + 1].samples)
    <3>1. 3 \in 1..FieldsOf(batches[Done + 1])
      BY <2>4
    <3>2. BatchField(format, batches[Done + 1], 3) =
              U32(Len(batches[Done + 1].samples))
      BY <2>4, <3>1, BatchFieldFacts
    <3>3. Len(partial) + 1 = 3
      BY <2>2
    <3>4. Value = U32(Len(batches[Done + 1].samples)).value
      BY <2>3, <3>2, <3>3 DEF Value
    <3> QED
      BY <3>4, FieldParts, Zenon DEF U32
  <2>6. batches[Done + 1] \notin ShortBatches
    <3>1. ~(Len(batches[Done + 1].samples) <= MaxBatchSamples)
      BY <2>1, <2>4, <2>5, CountAssumption
    <3> QED
      BY <3>1, Zenon DEF ShortBatches
  <2>7. Outcome = "none" /\ Outcome' = "refused"
    BY <1>1, <1>4, <2>1 DEF Outcome, Finished
  <2>8. Known'
    BY <1>1, <1>4 DEF Known, InBatch, Count
  <2> QED
    BY <1>1, <1>2, <2>3, <2>6, <2>7, <2>8
      DEF Captures!Refuse, Captures!Due, Done, Count
<1> QED
  BY <1>3, <1>4

LEMMA StepSeen ==
    FileInv /\ Known /\ [Next]_vars =>
        Known' /\ [Captures!Next]_(Captures!vars)
<1> SUFFICES ASSUME FileInv, Known, [Next]_vars
             PROVE  Known' /\ (Captures!Next \/ UNCHANGED Captures!vars)
  OBVIOUS
<1>1. CASE ReadTrace
  BY <1>1, CaptureSeen DEF Captures!Next
<1>2. CASE WriteAll \/ Interrupt \/ WriteError \/ UNCHANGED vars
  <2>1. UNCHANGED <<format, batches, returned>> /\ reader' = reader
    BY <1>2 DEF WriteAll, Interrupt, WriteError, vars, writerVars, history,
                readerVars
  <2> QED
    BY <2>1, Unseen
<1>3. CASE ReadMagic \/ ReadVersion \/ ReadReserved
  BY <1>3, HeaderSeen DEF Captures!Next
<1>4. CASE ReadDropped \/ ReadStalls \/ ReadCount \/ ReadSample
  BY <1>4, BatchSeen DEF Captures!Next
<1>5. CASE ReturnBatch
  BY <1>5, ReturnSeen DEF Captures!Next
<1>6. CASE Eof \/ Truncated
  BY <1>6, StopSeen DEF Captures!Next
<1> QED
  BY <1>1, <1>2, <1>3, <1>4, <1>5, <1>6 DEF Next, Write, Read

-----------------------------------------------------------------------------
(* The theorems.                                                            *)

\* Type correctness of the file's fields, of the reader's state and of the
\* batches (capture_file.rs lines 13-217): a replay never holds more than a
\* batch of MAX_BATCH_SAMPLES samples, whatever is in the file.
THEOREM FileTypes == Spec => []TypeOK
  BY FileInvariant, InvTypes, PTL

\* What a replay returns is what was captured, from the first batch on and
\* in order, for every number and length of batches and wherever the writer
\* stopped (capture_file.rs lines 38-50 and 104-138).
THEOREM ReplayIsFaithful == Spec => []ReplayFaithful
  BY FileInvariant, InvFaithful, PTL

\* A replay comes to a clean end only where a batch ends, having returned all
\* of the file (capture_file.rs lines 147-165).
THEOREM CleanEnds == Spec => CleanEndIsComplete
<1>1. FileInv /\ [Next]_vars =>
          (reader' = "eof" /\ reader # "eof" =>
               /\ Len(returned) <= Len(batches)
               /\ EndsAfter(Len(returned)))
  BY CleanEnd
<1> QED
  BY <1>1, FileInvariant, PTL DEF Spec, CleanEndIsComplete

\* A replay reports a truncated file only where the header or a batch is cut
\* off, having returned every batch that is whole (capture_file.rs lines
\* 104-165).
THEOREM TruncationsReal == Spec => TruncationIsReal
<1>1. FileInv /\ [Next]_vars =>
          (reader' = "truncated" /\ reader # "truncated" =>
               \/ Len(file) < HeaderFields /\ returned = <<>>
               \/ /\ Len(file) >= FieldsTo(Len(returned))
                  /\ ~EndsAfter(Len(returned))
                  /\ \/ Len(returned) = Len(batches)
                     \/ Len(file) < FieldsTo(Len(returned) + 1))
  BY RealTruncation
<1> QED
  BY <1>1, FileInvariant, PTL DEF Spec, TruncationIsReal

\* Whenever it is replayed and wherever its writer stops, a capture file is
\* what Replay promises: at most the last batch is missing from a replay that
\* ends, and no file of its own format is refused (capture_file.rs lines
\* 52-165).
THEOREM ReplayImplemented == Spec => ImplementsReplay
<1>1. Init => Captures!Init
  BY DEF Init, Captures!Init, Outcome, Finished
<1> QED
  BY <1>1, FileInvariant, KnownInit, StepSeen, PTL
    DEF Spec, ImplementsReplay, Captures!Spec

=============================================================================
