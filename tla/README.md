# TLA+ models of the RP2040 FRED bridge

An RP2040 listens to the FRED page of the 1 MHz bus between a BBC-style 6502
controller (the TCL 202 ROM) and a lathe, and passes what it hears to a USB
host: the raw bus samples, or the lathe's position and speed decoded from them.
These modules model that path from the bus to the host programs. Paths below are
relative to the root of the repository; line numbers are those of the commit the
modules were written against. `PROJECT.json` maps every definition to the lines
it models.

    TCL 202 ROM --- 1 MHz bus --- lathe
                      |
         PIO sniffer -> FIFO -> core1 -> ring -> core0 == USB == fredctl, Python
                                                 |  (one program at a time) |
                                            trace decoder             capture file

The firmware is built with the PIO transport of the picture, or with a mock that
makes up a lathe of its own.

## 1. Inventory

### Capture loop on core1, and the PIO sniffer
`firmware/src/transport/transport_pio.rs` 261-355, `pio/passive_sniffer.pio`.

* State: the PIO's receive FIFO (4 words), whether the state machine is stuck in
  `push block`, the sticky RXSTALL flag; where the loop of core1 is.
* Operations: sample a bus cycle, block on a full FIFO; pull, test the gate,
  enqueue or count a drop; read and clear RXSTALL, count a stall.
* Interacts with core0 through four statics only: the gate
  `TRACE_CAPTURE_ENABLED`, the lock-free ring `TRACE_SAMPLES`, and the counters
  of drops and stalls.
* Hard: every access interleaves with core0; the gate is tested one step before
  the sample is enqueued; the stall flag is read and cleared in two accesses.
* Correct when: samples keep their order, a sample that is not in the stream is
  in the drop count, a cycle the sniffer missed is in the stall count.

### PIO capture transport and bridge task on core0
`firmware/src/main.rs` 101-167, `transport_pio.rs` 42-259.

* State: the mode (`capture_enabled`, `telemetry_enabled`, the period), the
  stream (`packet_seq`, the decoder, the time telemetry is due), where the task
  is in its loop.
* Operations: PING, CAPTURE_SET, TELEMETRY_SET, the refusals; the reset of the
  stream that goes with a mode command; `process_pending_work` (feed the
  decoder); `poll_outgoing_packet` (make a stream packet); connect, and a read or
  a write that fails.
* Hard: a mode command resets counters and ring while core1 goes on; a packet
  carries samples and counters read at different times; a connection may be lost
  between any two packets and resets nothing.
* Correct when: what a packet says of its own losses is true, no sample of the
  mode before leaks into the new one, a closed gate means silence (but for one
  sample), telemetry is sent only if asked for, neither requests nor stream starve.

### Trace decoder
`protocol/src/trace_decode.rs`. State: the pending command, digits and masks per
axis, the last snapshot. One operation, `ingest`. Hard: it has no framing, so a
lost sample shifts the pairing of commands and responses, and what was kept from
before a loss is kept until it is overwritten. Correct when: a whole cadence
leaves exactly its own answers in the snapshot, and no single loss files an answer
under another command.

### ROM feedback engine
`tcl202.asm` (`event_main`, `fred80_table`, its callbacks, PLONKON, PLONKW). It is
the bus master whose traffic the decoder listens to; it writes the same answers as
text into a buffer BASIC programs read. State: the index into the table, the index
into the text. Hard: the engine may be restarted in mid-table and resets one of
the two. Correct when: text and snapshot agree.

### Host USB transport, fredctl, the monitor client, the Python package
`host/src/transport.rs`, `host/src/main.rs`, `host/src/monitor.rs`, `python/`.

* State: none that outlives a program, except what it leaves in the two USB
  endpoints and in the bridge.
* Operations: open, `transact` (write a request, read until its answer or a
  deadline), read the stream, stop polling.
* Hard: a program may be killed anywhere, in the middle of a packet too; answers
  are matched by sequence number, and every program counts from 1; host and device
  can each wait for the other to read; two mode commands in a row each undo part of
  the other.
* Correct when: a program that succeeded left the bridge in the mode it is for,
  the stream it reads is its own, the losses it reports are those of its own stream,
  and no program left alone blocks another.

### Packets on USB, and who reads them
`protocol/src/bridge_proto.rs`, `host/src/transport.rs` 99-149 and 218-342,
`host/src/monitor.rs`.

* State: the chunk of 64 bytes that comes next, the chunks a bulk read has got, the
  last snapshot of the monitor client.
* Operations: write a packet, move a chunk, end a read (with a short chunk, a full
  buffer, or its time), decode by version (3, or the older 2 and 1, whose samples are
  packed anew), `refresh`, `next_snapshot`.
* Hard: a read given up leaves the tail of its packet to the next, and a tail has
  bus samples where the decoder looks for a header; a packet of a multiple of 64
  bytes ends in an empty chunk; acknowledgements and trace packets come in between.
* Correct when: nothing is accepted but a packet that was sent, once and in order; a
  read given up costs no packet but its own; a snapshot returned is a new one.

### Capture file
`host/src/capture_file.rs`, `host/src/main.rs` 173-237.

* State: the file; how far its writer and its reader are.
* Operations: write the header, write a batch in four pieces; read the header, a
  batch, the end. Version 1 has four-byte samples; other versions and files without
  the magic are refused.
* Hard: the writer is stopped by a signal or a failed write, at any byte; the reader
  may run while the writer does.
* Correct when: a replay is a prefix of the capture, and a clean end and an error
  each tell the truth about the file.

### Mock transport and DRO assembler
`firmware/src/transport/transport_mock.rs` and `transport_mock/`,
`protocol/src/dro_decode.rs`.

* State: two mode flags and a period, the time the next packet is due; the tick of a
  made-up lathe, the place in the cadence, the last answer to each command.
* Operations: the requests, of which a mode command sets its own flag only; a poll,
  which moves the lathe, asks it one command and files the answer, and yields a
  packet of two samples when capturing, or telemetry after the last command.
* Hard: the lathe moves between the bytes of one value; nine polls in ten yield no
  packet and so end the burst; a request may shorten the period while a packet waits.
* Correct when: no answer in a telemetry packet is older than its cadence, no wait
  outlasts the period in force, telemetry flows though requests interrupt it.

### Not modelled
* How the programs print samples and positions: counts and millimetres
  (`dro_decode.rs` `counts_to_mm`, digit arithmetic and rounding in
  `trace_decode.rs`). Arithmetic on one value, which the unit tests of the repository
  reach.
* The place of a byte in a packet, the CRC polynomial and three-byte packing
  (`bridge_proto.rs` 278-288): abstracted in `PacketFraming` to what they are for.
* An older trace payload that is no multiple of four bytes: its remainder is
  dropped (`host/src/transport.rs` 267, 330), and no device sends one.
* `refresh` reading for ever, which needs packets faster than one a millisecond, and
  the time `next_snapshot` allows: the models have no speeds.
* The dictionary the Python package returns and its `close()`; `health_packet` of the
  mock, which nothing calls.
* The tick path of the ROM's `event_handler` (`tcl202.asm` 2290-2540), the ROM's
  command parser and machining commands: the ROM is third-party code in disassembly
  and matters here as the source of the bus traffic.
* `pio/fred_transport.pio`, which no code loads; build script, linker script, pin
  assignment, which have no behaviour of their own.

## 2. Modules

| Module | Models | Extends |
|---|---|---|
| `TraceShared` | the statics the cores share | |
| `CaptureCore1` | sniffer, FIFO, the loop of core1 | `TraceShared` |
| `PioTransport` | bridge task and transport on core0 | `TraceShared` |
| `CaptureSystem` | both cores, interleaved; the properties of the firmware | both |
| `BridgeDevice` | abstract: what the firmware promises to its host | |
| `CaptureRefinement` | the mapping from `CaptureSystem` to `BridgeDevice` | `CaptureSystem` |
| `HostSession` | the host programs, against `BridgeDevice` | `BridgeDevice` |
| `LossReport` | the drop counter on its way into what fredctl reports | `HostSession` |
| `FeedbackDecoder` | the trace decoder | |
| `RomFeedback` | the ROM's feedback engine | |
| `FeedbackPath` | the two on one bus that loses samples | both |
| `PacketFraming` | packets in USB chunks, the decoders, the monitor client | |
| `CaptureFile` | the writer and the reader of a capture file | |
| `PacketLink` | abstract: what the packet link is to the programs | |
| `Replay` | abstract: what a capture file promises to who replays it | |
| `MockBridge` | the bridge task over the mock transport | |
| `CaptureInvariant` | the inductive invariant of `CaptureSystem`, and its proof | `CaptureSystem`, `TLAPS` |
| `CaptureTheorems` | what follows of it, and that `CaptureSystem` implements `BridgeDevice` | `CaptureInvariant`, `CaptureRefinement` |
| `FeedbackTheorems` | proofs about `FeedbackPath` | `FeedbackPath`, `TLAPS` |
| `HostProofs` | proofs about `HostSession` | `HostSession`, `TLAPS` |
| `LossProofs` | proofs about `LossReport` | `LossReport`, `HostProofs` |
| `MockProofs` | proofs about `MockBridge` | `MockBridge`, `TLAPS` |
| `FramingProofs` | proofs about `PacketFraming` | `PacketFraming`, `TLAPS` |
| `FileProofs` | proofs about `CaptureFile` | `CaptureFile`, `TLAPS` |
| `MCHostSession`, `MCLossReport` | values of constants for TLC | `HostSession`, `LossReport` |

The system is checked in layers, each built on what the layer below was shown to do.
`CaptureSystem` implements `BridgeDevice`, and `HostSession` composes the host with
`BridgeDevice` instead of with two cores. `FeedbackPath` takes from `CaptureSystem`
that the samples come in order and may be lost; `PioTransport` takes from
`FeedbackPath` that a snapshot needs a whole cadence of samples (theorem
`SnapshotsCost`, the constant `MinSnapshotSamples`). `HostSession` has packets whole
or cut, and what a reader makes of the tail of one (an error or nothing, never a
packet) is what `PacketFraming` shows. `LossReport` gives the packets of `HostSession`
the count they carry. `CaptureFile` starts where a trace packet was read.
`PacketFraming` implements `PacketLink` and `CaptureFile` implements `Replay`, which
say in a page what the two come to. `MockBridge` stands alone: its two modes do not
exclude each other, so it is no implementation of `BridgeDevice`.

### How the model follows the code

* A step is an access to something another actor can see. On core1 that is each
  pull, gate test, enqueue, counter increment and access to RXSTALL. On core0 code
  between two `await`s or two accesses to a shared static runs alone, so it is one
  step: a mode command is `SetMode` (its flags, the gate and the task's own part of
  `reset_stream_state`), then `ZeroDropCount`, `ZeroStallCount`, and one
  `ClearTraceSamples` per dequeue; a capture packet is one `TakeForBatch` per
  sample, then `ReadDrops` and `ReadStalls`.
* `core0` and `core1` are the program counters. Names of variables, states and
  helpers are those of the source where TLA+ allows them.
* A bus sample is its serial number, so that order, epochs and losses can be told.
  Its 24 bits matter to the decoder only, where a sample is a command, a response,
  or another bus cycle.
* Counters have their width: `WrapInc` wraps at `CounterMod`. `drops` and `stalls`
  are the true counts (they saturate), for the properties to compare with.
* `due_in` is `next_telemetry_due_ms - now_ms`, zero once past; `Tick` is the
  clock.
* Variables marked "history" are read by no action's guard but the bounds'; they
  record what the properties speak of.
* In `PacketFraming` a header is what was sent, if a read has the start of its
  packet; a tail may look like any header there is, since its bytes are samples the
  bus decides. A CRC fits the packet it was made for and nothing else. What a read
  given up does with the chunks it got is the USB library's choice: they are lost, or
  returned as if they were a packet. `bytes` is the length of the bulk read, counted
  as its chunks arrive.
* In `CaptureFile` the file is the sequence of its fields, each with its width in
  bytes; `torn` is the bytes of a field that is cut. A reader asks for a width, as
  `read_exact` does. `ends` and `captured` are history: where each batch ends and how
  many samples there were, counted as the batches come.
* In `MockBridge` the tick counter wraps at `TickMod` and every byte of an answer is
  computed from it as the code does, for the run is about what bytes of two
  phases make together.
* Definitions named `X_Y` are mutants of `X`: a bug somebody could write there,
  used to see that each property notices it. They are no part of any specification.

## 3. What is checked

Each run takes between ten seconds and two minutes on two workers. Deadlock is
checked except where the text says otherwise.

### capture_safety (`CaptureSystem`, 1.2 million states)
Any host, any bus, both cores, every interleaving.

* `NoSilentLoss`: with every packet of samples goes a drop count at least as large
  as the number of samples missing from the stream up to that packet's last.
* `StreamInOrder`: ring and stream are in bus order, nothing is taken twice.
* `EpochFresh`: after a mode command no sample is taken that was pulled before the
  ring was seen empty, save the one core1 held.
* `QuietAfterOff`: once a command that closes the gate is answered, at most one
  more sample is ever taken.
* `TelemetryOnlyWhenAsked`: no telemetry but under TELEMETRY_SET(1), although
  CAPTURE_SET(0) sets `telemetry_enabled` as well.
* `MissesReported`: a bus cycle the sniffer missed is in the stall counter or about
  to be. How long it waits to be counted is a matter of speed and is not bounded.

Bounds: `RingLen` 3 (two samples fill the ring), `FifoDepth` 1 (blocks at the
second sample), `MaxSamples` 4 (fill the ring, drop one, enqueue another after it:
a gap inside a batch), `CounterMod` 2 (the second drop and the second stall wrap
their counters, and a packet may follow with either; larger counts are left to the
theorems, which hold for every width), two samples per packet and two packets per
burst (a burst that ends for either reason), a telemetry period of 0, which the code
makes 1. `MinSnapshotSamples` 2 is one more than the
straggler a closed gate lets pass, which is all the properties need of the 20.

### capture_refinement (`CaptureRefinement`, 363 thousand states)
`SamplesLeaveRing` and `TelemetryFlows`: whatever the host asks and however often,
the sample at the head of the ring is taken while capturing, and a telemetry packet
follows once there is a snapshot. Fairness (`Fairness` in `CaptureSystem`) is weak
fairness of: the steps of core1, which spins; the PIO's blocked push, which goes
through once there is room; core0's own steps, which nothing blocks; the timer of
the task's `select`, which fires when no request comes; the write, because a
connected host reads (a connection that breaks ends the promise); the clock. No
fairness of the host's requests, of connecting, or of the bus.

`ImplementsBridge`: `CaptureSystem` implements `BridgeDevice`. To its host the
firmware is sequential: a request is answered before the next is read, a mode
command is in force as a whole when it is answered, at most a burst of packets goes
out between two reads, and one packet of samples at most follows a closed gate.
Mapped: the phase of the task, the gate, the packets, the burst count; `late` is
whether the straggler may still come.

Bounds: `RingLen` 3, `MaxSamples` 3 (a full ring, a drop and a straggler),
`CounterMod` 2, `FifoDepth` 1, two samples a packet and two packets a burst.

### host_safety (`LossReport` over `HostSession`, 1.5 million states)
Every sequence of up to three programs (fredctl's commands and the Python loop), of
which two may be killed before they stream, one read may be given up in mid-packet
and one wait may run into its deadline, while the bridge drops up to two samples.
"Undisturbed" is: no program ended waiting for an answer, and no deadline passed;
streams cut short, tails and programs that were interrupted are all within it.
`BridgeDevice` is the device; each endpoint holds one packet, which is what the
hardware buffers.

* `ModeAsWanted`: undisturbed, a program that succeeded has its own last command in
  force and the bridge in its mode, whatever streams of earlier programs were still
  in the endpoints.
* `OwnSamples`: a program never takes another program's samples for its own, unless
  a deadline passed or two programs ended with an answer unread.
* `LossesTrue`: the difference fredctl prints with a packet is what the bridge dropped
  since the packet before, or since the mode command, up to a wrap, with the same
  two exceptions. Both are real: leave one out of either property and TLC finds
  another program's samples, or its losses, reported.
* `LossTypeOK`: the difference is one of 32 bits whichever way the total goes.
* `NeverWedged`: undisturbed, host and device never wait for each other to read.
* `RequestAnswered`: every wait for an answer ends without the deadline.

Three programs are two that are killed with answers unread and one that finds them,
which is what the findings and the exceptions take. With two drops and counters of two
values a total wraps and a difference is taken across the wrap. Bursts are of one: a
second packet in a burst differs in nothing from one in the next. The counter of stalls
goes the way of the drops and is left out. Fairness (`FairLoss`, as `FairSession` for
`HostSession` alone) is of the device and of the read loop of `transact`, which reads
again after every packet and passes over an empty read (`ReadReply \/ ReadTail`).
Nothing is assumed of deadlines, kills or new programs.
Deadlock is not checked: a device whose packet nobody reads does wait for ever.

### feedback_safety (`FeedbackPath`, 1.7 million states)
The ROM's cadence of ten transactions and the decoder, which starts at any point of
it; commands and responses may be lost, answers may be no BCD, the engine may be
restarted between two transactions.

* `SnapshotExact`: the end of a cadence that was seen whole leaves a snapshot of its
  ten answers and nothing older.
* `MisfiledNeedsTwoLosses`: an answer is filed under another command only after two
  losses.
* `SnapshotNeedsCadence`: no snapshot before a cadence's worth of samples.
* `TextAgrees`: with no restart, the ROM's text and the snapshot agree at the end of
  a whole cadence.

Bounds: three cycles, two faults, one restart: a fault in the cycle under way, the
damage in the next, recovery in the third. Two losses are what misfiling needs.
`BufLen` 80 is a bound of `RomFeedback` itself. Every restart in mid-table moves the
text up to sixteen places on, over what follows its fields: a table of glyphs and the
glyph drawn, which only the screen shows, and at place 81 `event_feedback_saved_y`,
where a callback keeps the table index. A fifth restart in a row may reach it and the
engine then leaves its table; the model stops before, so it allows four in a row and
any number with whole cycles between. The one-byte text index, 80 at most, cannot wrap
within that bound. `TextAgrees` says nothing once there was a restart; what a restart
does to the text is the run `feedback_text`.
Deadlock is checked: the bus never stops the decoder.

### packet_framing (`PacketFraming`, 227 thousand states)
A device that speaks any of the three protocols, up to three packets, up to two reads
given up in mid-packet, a monitor client that calls `refresh` or `next_snapshot`.

* `Genuine`: what the reader returns was sent, with the samples that were in it, in
  order and none twice, though a tail may look like any header.
* `DamageContained`: an error is reported of pieces of cut packets only, and a packet
  that crossed whole was returned or is itself one of the cut.
* `FreshSnapshot`: `next_snapshot` returns a snapshot read during the call.
* `ImplementsLink`: `PacketFraming` implements `PacketLink`. One packet is under way at
  a time, and it is returned or lost before the next is sent; an error is reported of
  lost packets only. Mapped: what was returned, with what was in it, and whose pieces
  were refused; chunks and reads are internal.

Bounds: `SampleCounts` 1, 5, 15, 36, 68, 99 give one chunk and several, a length that
is a multiple of 64 (36 samples: 128 bytes, as every packet of version 2 is), the
largest packets of versions 1 and 3 (99 samples: the full buffer of 317 bytes), and
tails of 64 and of 32 bytes (of 36 and of 68 samples), at which the older decoders
look. Three packets are one cut, one that its tail runs into, and one after.

### capture_file (`CaptureFile`, 137 thousand states)
A file of version 1, 2, an unknown version or without the magic, its writer stopped
between two writes or at any byte of one, its reader at any time.

* `ReplayFaithful`: the batches replayed are the first of those captured.
* `CleanEndIsComplete`: a clean end means the file ends after the batches replayed.
* `TruncationIsReal`: an error means that it does not, and that no whole batch was
  left out.
* `ImplementsReplay`: `CaptureFile` implements `Replay`. A replay that ends, however it
  does, has missed at most the last batch of those captured by then, and is refused
  only for a format or a batch it has no room for: never, if this version wrote the
  file. Mapped: how the replay ended; fields, bytes and writes are internal.
* `ReplayEnds`: every replay ends once its writer has, under weak fairness of `Read`:
  reads of a file return.

Bounds: two batches (one whole before the one cut), `MaxBatchSamples` 2 with counts
up to 3, so that files of other versions exceed it, counters of two values. Writer
and reader both end, so deadlock is not checked.

### mock_safety (`MockBridge`, 94 thousand states)
Any requests, any clock, connections that fail at any read or write.

* `SnapshotRecent`: an answer in a telemetry packet is of the lathe as it is or as it
  was nine ticks before.
* `NoOldPeriod`: no wait outlasts the period in force.
* `MockTelemetryFlows`: with telemetry on and capture off, telemetry is sent, unless
  a request changes that or the connection fails. Fairness (`FairSpec`) is weak
  fairness of the poll, of the write (the host reads), of the timer of `select` (or a
  read before it fires) and of the clock; none of requests or connections.

Bounds: `TickMod` 1600 is a hundred phases and a wrap, through which the positions
cross byte boundaries and a sign and the speed crosses one; a burst of two; a default
period of 2 ms, requests of 0 (which the code makes 1) and 2.

## 4. What the documents say and the code does not do

Each of these has a run in which TLC finds the documented property violated.

| Run | The document | The code |
|---|---|---|
| `host_ack` | `usb_plan.txt` 139-141: the command waits for its ACK | an ACK or NACK left by an earlier program ends the wait, and so does the deadline once anything was read (`host/src/transport.rs` 183-205) |
| `host_capture` | `firmware/README.md` 55-57: bring-up ends in `capture usb` | its second command closes the gate the first opened (`host/src/main.rs` 116-117) |
| `host_reconnect` | `usb_plan.txt` 183: robust reconnect and timeout handling | a program killed between its write and its read can leave the device waiting to be read and every later write waiting for the device |
| `feedback_text` | `protocol.txt` 106-107: x text at $0C9F after one full cycle | a restart in mid-table leaves the text index where it was, and the next cycle goes past the fields |
| `mock_speed` | `transport_mock/mock_bus.rs` 91, 103: the speed pair is between 800 and 2200 | the lathe moves between the two bytes: the high byte of 1020 with the low byte of 1025 is 769. `MockSpeed.cfg` stops at `TickMod` 800, where the first such pair has come |

Others were met while modelling and have no run, because one line of code shows them:

* `host/README.md` 30 says the device powers up in passive capture mode; nothing is
  streamed until a mode command (`transport_pio.rs` 72).
* `bus_protocol.txt` 80 has the sniffer `push noblock` and drop silently; it is
  `push block`, and the stall is counted (`passive_sniffer.pio` 33).
* `protocol.txt` 108 has the z text end in CR; CR is stored before a sign, and none
  follows z.
* `transport_mock/mock_bus.rs` 12-13 sets bit 16 in the samples of writes, which
  `host/capture_format.txt` 19 gives as read/not-write, set in reads. The trace decoder
  pairs nothing of a capture of the mock.
* The test at `trace_decode.rs` 213 has a sample with the clock low refused; the
  code takes the clock for high (line 11) and accepts it. The sniffer samples with
  the clock high.

## 5. What is proved

TLAPS checks these for every value of the constants that meets the `ASSUME`s: a
ring of at least two slots, counters of at least two values, a FIFO of at least
one word, packets and bursts of at least one, a snapshot of at least two samples,
sequence numbers within their width; `NoResponse` neither a command nor a response;
the sequence numbers 1 and 2 and a tag for every mode command of every session; a
tick counter that wraps at the end of a phase; protocols 1 to 3 and trace packets of
at most 99 samples, which is what the largest packet holds; of the capture file only
that its numbers are natural ones.

| Theorem | Property |
|---|---|
| `CaptureInvariant!TypeCorrect` | `TypeOK` |
| `CaptureTheorems!Invariance` | the inductive invariant `IInv` |
| `CaptureTheorems!OrderKept` | `StreamInOrder` |
| `CaptureTheorems!EpochsSeparate` | `EpochFresh` |
| `CaptureTheorems!GateCloses` | `QuietAfterOff` |
| `CaptureTheorems!TelemetryAsked` | `TelemetryOnlyWhenAsked` |
| `CaptureTheorems!LossReported` | `NoSilentLoss` |
| `CaptureTheorems!StallReported` | `MissesReported` |
| `CaptureTheorems!Implementation` | `ImplementsBridge` |
| `FeedbackTheorems!OneLossNeverMisfiles` | `MisfiledNeedsTwoLosses` |
| `FeedbackTheorems!FeedbackTypes` | `TypeOK` |
| `FeedbackTheorems!CleanCadenceExact` | `SnapshotExact` |
| `FeedbackTheorems!DecodersAgree` | `TextAgrees` |
| `FeedbackTheorems!SnapshotsCost` | `SnapshotNeedsCadence` |
| `HostProofs!SessionTypes` | `TypeOK` |
| `HostProofs!ModeReached` | `ModeAsWanted` |
| `HostProofs!LeftAloneNeverWedged` | `NeverWedged` |
| `HostProofs!StreamIsOwn` | `OwnSamples` |
| `LossProofs!LossTypes` | `LossTypeOK` |
| `LossProofs!ReportsTrue` | `LossesTrue` |
| `MockProofs!MockTypes` | `TypeOK` |
| `MockProofs!PeriodInForce` | `NoOldPeriod` |
| `MockProofs!SnapshotsRecent` | `SnapshotRecent` |
| `FramingProofs!FramingTypes` | `TypeOK` |
| `FramingProofs!PacketsGenuine` | `Genuine` |
| `FramingProofs!OneCutOnePacket` | `DamageContained` |
| `FramingProofs!SnapshotsFresh` | `FreshSnapshot` |
| `FramingProofs!LinkImplemented` | `ImplementsLink` |
| `FileProofs!FileTypes` | `TypeOK` |
| `FileProofs!ReplayIsFaithful` | `ReplayFaithful` |
| `FileProofs!CleanEnds` | `CleanEndIsComplete` |
| `FileProofs!TruncationsReal` | `TruncationIsReal` |
| `FileProofs!ReplayImplemented` | `ImplementsReplay` |

`MaxSamples`, `MaxCycles`, `MaxFaults`, `MaxRestarts`, `MaxSessions`, `MaxKills`,
`MaxCuts`, `MaxDeadlines`, `MaxLost`, `MaxPackets` and `MaxBatches` are constants too,
so the theorems hold of runs of any length and of any number of faults. `BufLen` is
not: the feedback theorems are of restarts that leave the text room (`feedback_safety`).

**The capture invariant.** None of the six properties is inductive: each speaks of
what the host sees, and what makes it true is spread over both cores. `IInv`
(`CaptureInvariant.tla`) is the conjunction of

* `RingOrder`, `TakenOrder`: the samples taken, then those in the ring, then the one
  core1 holds are increasing serials. `Settled`, the newest sample core1 is done
  with, separates the last two;
* `Epoch`: `mark` bounds all of these from below, except during a reset, when
  nothing has been taken;
* `ModeFlags`: the last mode command determines both flags and the gate; above all,
  once a command was given one of the flags is set, so core0 keeps serving the ring;
* `Closed`: behind a closed gate, taken + in the ring + in flight is at most one;
* `Snapshots`: a snapshot has been fed at least `MinSnapshotSamples` > 1 taken
  samples, so with `Closed` there is none behind a closed gate;
* `Accounted`: from the first sample kept, the samples neither taken, nor in the
  ring, nor held by core1 number at most `drops`. It is stated for each sample of
  the ring because a gap inside the ring must already be counted when the sample
  after it is taken: core1 counts the drop before it pulls again;
* `Reported`: the count core0 loaded is at least that of the batch it goes with,
  because it is loaded after the last dequeue;
* `Counters`: the wrapping counters equal the true counts until they wrap;
* `Stalls`: where a missed cycle is recorded while core1 is between its read and its
  clear of RXSTALL.

`CaptureInvariant` and `CaptureTheorems` prove Init => IInv and the preservation
of each part, one step per action, and derive the properties from it.

**The pairing invariant.** `MisfiledNeedsTwoLosses` becomes inductive with
`PendingLost`: a command left pending between transactions has lost its response,
and one pending in a later transaction has lost that transaction's command too.

**The refinement.** `Implementation` follows from `IInv` and `Batching`: a batch of
samples is made under capture only, is not empty once its counters are loaded, and
nothing else is being written meanwhile. With `Closed`, what a shut gate lets through
is then the one straggler `late` allows. Each action of the two cores is shown to be
a step of `BridgeDevice` or a stutter.

**The cadence invariant.** `CadenceInv` follows the cadence under way: `CleanTail`
says that the transactions decoded since the last fault have left their answers in
the decoder, `OpenCadence` that the last answer of the cadence is still that of an
earlier one until its end. `TextKept`, on which `TextAgrees` rests, is the same of
the ROM's text: as long as there was no restart the text index follows from the table
index, and the text is that of the last answers. `CostInv` says that the responses
kept since the last snapshot have cost two samples each, and a pending command one.

**The conversation invariant.** `SessionInv` says of an undisturbed session that of
the request, the work of the device and the answer exactly one is under way while the
program waits, and none otherwise (`Conversation`); and that a program that went
through has its last mode command in force and is at the step of its script where it
streams or ends (`Arrived`). `ModeAsWanted` is then a matter of the eight scripts, and
`NeverWedged` follows from `Conversation`.

**The invariant of one stranded program.** `OwnInv` is of sessions with no deadline
missed and at most one program stranded. `Orderly` says that then at most one request
or answer is left over, and that what is left is `Spare` where a program writes or
waits: before its first mode command is answered anything is, before its second only
an answer with another sequence number. Its own request or answer comes last
(`OwnLast`), so the wait before the stream ends with its own answer, nothing is left
behind it, and every packet from then on is of its mode (`OwnStream`). The proof uses
of the scripts that the first two commands differ in their sequence numbers and that no
stream follows the first.

**The invariant of the reports.** `LossReport` takes the steps of `HostSession`
(`LossSteps`), so `OwnInv` holds of it. To it `LossInv` adds that each total, in the
bridge, in a packet or remembered by the program, is the samples lost since the last
mode command modulo the width (`Since`), and that the packets on their way to a stream
are in order (`Reported`). That the differences are then true is arithmetic modulo the
width (`ModSub`).

**The mock's invariant.** `MInv`: in the cadence under way the answer to the command
at place i is as many ticks old as commands were asked after it.

**The framing invariant.** What a read returns depends on the chunks it holds, so
`FInv` says what these are (`Pending`): the last that crossed, in order, all full and
of one packet. A read that holds less than all of its packet's chunks up to now was
preceded by one given up in it (`MissingIsCut`): whatever the decoder makes of a tail,
or of the start of a packet whose rest a read given up left behind, the packet is one
of `cut`. `NotYet` says that the packet under way was not returned while its first
chunk is still held, which is why none is returned twice. Of the decoders the proof
needs two facts: what has no fitting CRC is refused, whatever its header looks like
(`NoDecode`), and a whole packet decodes to what was sent in each of the three formats
(`WholeDecodes`). The rest is arithmetic: a packet of 128 bytes ends in an empty chunk
and one of 127 does not, so the number of a packet's chunks is a matter of its length
in all of the three formats.

**The file invariant.** `FileInv` has a part for each of the two. The writer's:
batches lie one behind the other at the places `ends` gives (`Layout`), every field
that is in the file is the one that belongs there (`AsLaidOut`), and the writes still
to be made are the last of the batch begun (`InStep`), so the file never ends but in
that batch (`EndsInLast`). The reader's: it is as many fields behind the end of
the last batch it returned as it holds of the next, and these are that batch's first
(`BatchPlace`). When a count comes to be read it is then the true one, wherever the
writer stopped; a read that fails at the first field of a batch has found the file's
end, and one that fails later a batch that is not whole. The reader may run before,
after or between any two writes: its part is preserved by the writer's steps
because a file only grows.

**The two refinements.** `LinkImplemented` needs nothing beyond `FInv`: that the next
packet is not sent before the last was returned or lost is `NoneLost` of a packet that
has crossed whole, and that none is returned twice is the order in `Genuine`.
`ReplayImplemented` adds `Known` to `FileInv`: past the version the format is one the
reader knows, and no batch given to the writer of version 2 is too long. That at most
the last batch is missed is `EndsInLast`, since a replay has read to the file's end.

**Model-checked only.** The liveness properties (`SamplesLeaveRing`,
`TelemetryFlows`, `RequestAnswered`, `MockTelemetryFlows`, `ReplayEnds`), since
fairness is out of the prover's reach. Every invariant and every action property of
the passing runs, and the refinement, is a theorem.

## 6. Limits of the models

* Relative speed. A sample takes a microsecond and a dequeue a fraction of one; the
  models know order, not time. Hence nothing is said of how soon a stall is counted
  or of the end of `clear_trace_samples` while the gate is open and core1 fills the
  ring. `refresh`, which ends when a read times out after 1 ms, may do so in any
  state of `PacketFraming` in which its read is empty; that it ends is not claimed.
* The ring is taken as the linearizable single-producer queue heapless documents,
  the atomics as atomic; both are libraries outside the repository. So are the USB
  stack and its one-packet endpoints.
* A transaction of the ROM is taken as undisturbed by the foreground, as it runs
  in an interrupt.
* One host program at a time: the interface is claimed.

## 7. Plan

Done: the order was the capture path and its invariant first, since everything
else rests on it; the decoder with its bus master next; then the abstract bridge,
the refinement, and the host on top.

Then the packets, the capture file, the mock and the reported losses, and the proofs
of the refinement, of the decoder's exactness, of the host's conversation, of its
reports, of the packet link and of the capture file.

What is left:

*The host on `PacketLink`.* `HostSession` has a link of its own, of one packet in each
endpoint, tails included. That the two links agree on what a program gets of a tail is
said in section 2 and argued, not checked.

## 8. Running

    tlc -config CaptureSafety.cfg CaptureSystem.tla
    tlc -config HostSafety.cfg MCLossReport.tla
    tlapm CaptureTheorems.tla

and likewise for the others; `PROJECT.json` lists every run with its module.
