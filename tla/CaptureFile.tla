----------------------------- MODULE CaptureFile -----------------------------
(***************************************************************************)
(* A capture file between the program that writes it (`fredctl capture      *)
(* file`: main.rs lines 173-188 and CaptureWriter, host/src/capture_file.rs) *)
(* and one that replays it (`raw file`, `decode file`: main.rs lines        *)
(* 190-237 and CaptureReader).  The writer runs until a signal ends it or a *)
(* write fails, and the file is not buffered: it is cut off between any two *)
(* writes, or in the middle of one.  The reader may run before that.        *)
(*                                                                          *)
(* The file is the sequence of its fields, each with its width in bytes.    *)
(* Samples are numbered in the order they came from the device.  Files of   *)
(* version 1 and of versions not known yet are written by programs of other *)
(* times, external; they differ in the width of a sample and in how many    *)
(* samples they put in a batch.                                             *)
(***************************************************************************)
EXTENDS Naturals, Sequences, SequencesExt

CONSTANTS
    Formats,         \* versions of the file; 0 for a file without the magic
    Totals,          \* values of the loss counters in a trace packet
    SampleCounts,    \* samples in a trace packet
    MaxBatchSamples, \* MAX_BATCH_SAMPLES, 4096
    MaxBatches       \* bound: batches in the file

ASSUME FormatAssumption == Formats \subseteq Nat
ASSUME TotalAssumption == Totals \subseteq Nat
ASSUME CountAssumption == SampleCounts \subseteq Nat /\ MaxBatchSamples \in Nat
ASSUME BatchAssumption == MaxBatches \in Nat

VARIABLES
    format,    \* version of the file
    file,      \* the fields that are in it
    torn,      \* bytes of one more field behind them
    todo,      \* what the writer has still to write, one sequence per write
    writing,   \* the writer still runs
    \* the reader
    reader,    \* the field it is to read next, or how it ended
    next,      \* where in the file that is
    partial,   \* the batch read so far
    returned,  \* the batches read_batch returned
    \* history
    batches,   \* what the writer was given to write
    ends,      \* the fields up to the end of the header and of each of them
    captured   \* how many samples came from the device

history == <<batches, ends, captured>>
writerVars == <<file, torn, todo, writing, history>>
readerVars == <<reader, next, partial, returned>>
vars == <<format, writerVars, readerVars>>

-----------------------------------------------------------------------------
Field(width, value) == [width |-> width, value |-> value]
U32(value) == Field(4, value)

CAPTURE_VERSION == 2
MagicIn(version) == IF version = 0 THEN "other" ELSE "FREDCAP"

\* CaptureWriter::new.
Header(version) ==
    << <<Field(8, MagicIn(version))>>, <<U32(version)>>, <<U32(0)>> >>

SampleWidth(version) == IF version = 1 THEN 4 ELSE 3

\* Mutant: the counters in the other order.
BatchWrites_CountersSwapped(version, b) ==
    << <<U32(b.stalls)>>, <<U32(b.dropped)>>, <<U32(Len(b.samples))>>,
       [i \in DOMAIN b.samples |-> Field(SampleWidth(version), b.samples[i])] >>

\* Mutant: the samples before their count.
BatchWrites_CountLast(version, b) ==
    << <<U32(b.dropped)>>, <<U32(b.stalls)>>,
       [i \in DOMAIN b.samples |-> Field(SampleWidth(version), b.samples[i])],
       <<U32(Len(b.samples))>> >>

\* write_trace: four writes.
BatchWrites(version, b) ==
    << <<U32(b.dropped)>>, <<U32(b.stalls)>>, <<U32(Len(b.samples))>>,
       [i \in DOMAIN b.samples |-> Field(SampleWidth(version), b.samples[i])] >>

FieldsOf(b) == 3 + Len(b.samples)
HeaderFields == 3

\* The number of fields in the header and the first n batches.
FieldsTo(n) == ends[n + 1]

Init ==
    /\ format \in Formats
    /\ file = <<>> /\ torn = 0
    /\ todo = Header(format)
    /\ writing = TRUE
    /\ reader = "magic" /\ next = 1
    /\ partial = <<>>
    /\ returned = <<>>
    /\ batches = <<>> /\ ends = <<HeaderFields>> /\ captured = 0

-----------------------------------------------------------------------------
(* The writer.                                                              *)

\* read_packet yields a trace packet: other packets are passed over.
ReadTrace ==
    /\ writing /\ todo = <<>> /\ Len(batches) < MaxBatches
    /\ \E dropped, stalls \in Totals, n \in SampleCounts :
           LET b == [dropped |-> dropped, stalls |-> stalls,
                     samples |-> [i \in 1..n |-> captured + i]]
           IN  /\ format = CAPTURE_VERSION => n <= MaxBatchSamples
               /\ batches' = Append(batches, b)
               /\ ends' = Append(ends, FieldsTo(Len(batches)) + FieldsOf(b))
               /\ captured' = captured + n
               /\ todo' = BatchWrites(format, b)
    /\ UNCHANGED <<format, file, torn, writing, readerVars>>

WriteAll ==
    /\ writing /\ todo # <<>>
    /\ file' = file \o Head(todo)
    /\ todo' = Tail(todo)
    /\ UNCHANGED <<format, torn, writing, history, readerVars>>

\* A signal ends the writer between two writes.
Interrupt ==
    /\ writing
    /\ writing' = FALSE
    /\ UNCHANGED <<format, file, torn, todo, history, readerVars>>

\* A write fails half-way, and its error ends the program.
WriteError ==
    /\ writing /\ todo # <<>>
    /\ \E n \in 0..(Len(Head(todo)) - 1) :
           /\ torn' \in 0..(Head(todo)[n + 1].width - 1)
           /\ file' = file \o SubSeq(Head(todo), 1, n)
    /\ writing' = FALSE
    /\ UNCHANGED <<format, todo, history, readerVars>>

-----------------------------------------------------------------------------
(* The reader, one call of Read::read_exact at a time.                      *)

\* There is a field to be read of the width asked for.
Has(width) == next <= Len(file) /\ file[next].width = width

Value == file[next].value

\* The read succeeds, and `to` is next.
Advance(at, width, to) ==
    /\ reader = at /\ Has(width)
    /\ reader' = to
    /\ next' = next + 1

ReadMagic ==
    /\ Advance("magic", 8, IF Value = "FREDCAP" THEN "version" ELSE "refused")
    /\ UNCHANGED <<format, writerVars, partial, returned>>

ReadVersion ==
    /\ Advance("version", 4, IF Value \in {1, CAPTURE_VERSION} THEN "reserved"
                             ELSE "refused")
    /\ UNCHANGED <<format, writerVars, partial, returned>>

ReadReserved ==
    /\ Advance("reserved", 4, "dropped")
    /\ UNCHANGED <<format, writerVars, partial, returned>>

ReadDropped ==
    /\ Advance("dropped", 4, "stalls")
    /\ partial' = <<Value>>
    /\ UNCHANGED <<format, writerVars, returned>>

ReadStalls ==
    /\ Advance("stalls", 4, "count")
    /\ partial' = Append(partial, Value)
    /\ UNCHANGED <<format, writerVars, returned>>

\* Mutant: the count is believed.
ReadCount_Unchecked ==
    /\ Advance("count", 4, "samples")
    /\ partial' = Append(partial, Value)
    /\ UNCHANGED <<format, writerVars, returned>>

\* Mutant: a full batch is refused.
ReadCount_FullRefused ==
    /\ Advance("count", 4, IF Value >= MaxBatchSamples THEN "refused"
                           ELSE "samples")
    /\ partial' = Append(partial, Value)
    /\ UNCHANGED <<format, writerVars, returned>>

ReadCount ==
    /\ Advance("count", 4, IF Value > MaxBatchSamples THEN "refused"
                           ELSE "samples")
    /\ partial' = Append(partial, Value)
    /\ UNCHANGED <<format, writerVars, returned>>

BatchRead == reader = "samples" /\ Len(partial) = 3 + partial[3]

ReadSample ==
    /\ ~BatchRead
    /\ Advance("samples", SampleWidth(format), "samples")
    /\ partial' = Append(partial, Value)
    /\ UNCHANGED <<format, writerVars, returned>>

\* read_batch returns the batch.
ReturnBatch ==
    /\ BatchRead
    /\ returned' = Append(returned,
           [dropped |-> partial[1], stalls |-> partial[2],
            samples |-> SubSeq(partial, 4, Len(partial))])
    /\ partial' = <<>>
    /\ reader' = "dropped"
    /\ UNCHANGED <<format, writerVars, next>>

WidthWanted ==
    [magic |-> 8, version |-> 4, reserved |-> 4, dropped |-> 4, stalls |-> 4,
     count |-> 4, samples |-> SampleWidth(format)]

\* Mutant: an end in the middle of the counter is taken for the end.
AtEnd_ShortRead == reader = "dropped" /\ next > Len(file)

\* read_u32_or_eof: the file ends, if nothing at all is left.
AtEnd == reader = "dropped" /\ next > Len(file) /\ torn = 0

Eof ==
    /\ AtEnd
    /\ reader' = "eof"
    /\ UNCHANGED <<format, writerVars, next, partial, returned>>

\* Mutant: a counter cut short is waited for.
Truncated_NotInCounter ==
    /\ reader \in DOMAIN WidthWanted \ {"dropped"}
    /\ ~Has(WidthWanted[reader]) /\ ~BatchRead
    /\ reader' = "truncated"
    /\ UNCHANGED <<format, writerVars, next, partial, returned>>

\* read_exact finds too little: UnexpectedEof.
Truncated ==
    /\ reader \in DOMAIN WidthWanted
    /\ ~Has(WidthWanted[reader]) /\ ~AtEnd /\ ~BatchRead
    /\ reader' = "truncated"
    /\ UNCHANGED <<format, writerVars, next, partial, returned>>

Write == ReadTrace \/ WriteAll \/ Interrupt \/ WriteError
Read ==
    \/ ReadMagic \/ ReadVersion \/ ReadReserved
    \/ ReadDropped \/ ReadStalls \/ ReadCount \/ ReadSample \/ ReturnBatch
    \/ Eof \/ Truncated

Next == Write \/ Read

Spec == Init /\ [][Next]_vars

\* A replay runs to its end: its reads return.
FairSpec == Spec /\ WF_vars(Read)

-----------------------------------------------------------------------------
Batches == [dropped : Totals, stalls : Totals, samples : Seq(Nat)]

TypeOK ==
    /\ format \in Formats
    /\ \A i \in DOMAIN file : file[i].width \in {3, 4, 8}
    /\ torn \in 0..7
    /\ writing \in BOOLEAN
    /\ reader \in DOMAIN WidthWanted \cup {"eof", "truncated", "refused"}
    /\ next \in 1..(Len(file) + 1)
    /\ Len(partial) <= 3 + MaxBatchSamples
    /\ returned \in Seq(Batches) /\ batches \in Seq(Batches)
    /\ ends \in Seq(Nat) /\ captured \in Nat

\* What is replayed is what was captured, from its first batch on: counters,
\* samples and their order, wherever the writer was stopped and whether or not
\* it still runs (capture_file.rs lines 38-50 and 104-138).
ReplayFaithful == IsPrefix(returned, batches)

\* The file holds the header and the first n batches, and nothing else.
EndsAfter(n) == Len(file) = FieldsTo(n) /\ torn = 0

\* A replay that comes to a clean end has returned every batch of which there
\* is a byte in the file (capture_file.rs lines 147-165).
CleanEndIsComplete ==
    [][reader' = "eof" /\ reader # "eof" =>
           /\ Len(returned) <= Len(batches)
           /\ EndsAfter(Len(returned))]_vars

\* A replay that reports a truncated file has returned every batch that is
\* whole: what it missed is the one batch, or the header, the file ends in.
TruncationIsReal ==
    [][reader' = "truncated" /\ reader # "truncated" =>
           \/ Len(file) < HeaderFields /\ returned = <<>>
           \/ /\ Len(file) >= FieldsTo(Len(returned))
              /\ ~EndsAfter(Len(returned))
              /\ \/ Len(returned) = Len(batches)
                 \/ Len(file) < FieldsTo(Len(returned) + 1)]_vars

\* Whatever is in the file when the replay comes to it, the replay is that of
\* Replay: all batches but the last, which may be under way, before it stops,
\* and no file of ours refused (capture_file.rs lines 52-165).
Finished == {"eof", "truncated", "refused"}
Outcome == IF reader \in Finished THEN reader ELSE "none"
ShortBatches == {b \in Batches : Len(b.samples) <= MaxBatchSamples}
Captures == INSTANCE Replay WITH
    Short <- ShortBatches, Readable <- {1, CAPTURE_VERSION},
    Own <- CAPTURE_VERSION, captured <- batches, end <- Outcome
ImplementsReplay == Captures!Spec

\* Every replay ends once its writer has.
ReplayEnds ==
    ~writing ~> reader \in {"eof", "truncated", "refused"}
=============================================================================
