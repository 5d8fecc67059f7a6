---------------------------- MODULE PioTransport ----------------------------
(***************************************************************************)
(* Core0: the USB bridge task (firmware/src/main.rs lines 101-167) driving  *)
(* the transport of the pio-real build (PioTransport, transport_pio.rs      *)
(* lines 42-259).  Between two `await`s or two accesses to an object shared *)
(* with core1 the task runs alone, so that is one step here.                *)
(*                                                                          *)
(* The host is the environment: it may send any request, well formed or     *)
(* not, and the connection may fail at any read or write.  The delay the    *)
(* task waits for a request (50 us or 2 ms, main.rs lines 114-118) is not   *)
(* modelled: the timer may fire whenever the task waits.                    *)
(***************************************************************************)
EXTENDS TraceShared

CONSTANTS
    SamplesPerPacket,    \* TRACE_SAMPLES_PER_PACKET, 99
    OutgoingBurst,       \* USB_OUTGOING_BURST_PACKETS, 16
    DecodeBurst,         \* USB_DECODE_BURST_SAMPLES, 512
    MinSnapshotSamples,  \* samples the decoder needs for its first snapshot
    SeqMod,              \* values of a packet's sequence number, 2^16
    RequestSeqs,         \* sequence numbers the host puts in its requests
    DefaultPeriod,       \* telemetry period at power-up, 100 ms
    Periods              \* periods a TELEMETRY_SET may carry

ASSUME BurstAssumption ==
    /\ SamplesPerPacket \in Nat \ {0}
    /\ OutgoingBurst \in Nat \ {0}
    /\ DecodeBurst \in Nat \ {0}
\* A snapshot takes the ten command/response pairs of a cadence.
ASSUME SnapshotAssumption == MinSnapshotSamples \in Nat /\ MinSnapshotSamples > 1
ASSUME SeqAssumption ==
    /\ SeqMod \in Nat /\ SeqMod > 1
    /\ RequestSeqs \subseteq 0..(SeqMod - 1)
ASSUME PeriodAssumption == DefaultPeriod \in Nat /\ Periods \subseteq Nat

VARIABLES
    core0,                \* where the task is
    capture_enabled, telemetry_enabled,
    packet_seq,           \* sequence number of the next stream packet
    ingested,             \* samples the decoder took since it was made anew
    snapshot_valid,
    telemetry_period_ms,
    due_in,               \* next_telemetry_due_ms - now_ms, 0 when past
    processed,            \* process_pending_work: samples of this burst
    sent,                 \* stream packets of this burst
    batch,                \* poll_outgoing_packet: the samples dequeued
    dropped_total,        \* poll_outgoing_packet: the drop counter it loaded
    usb_in,               \* the packet being written to the host
    \* history
    last_mode,            \* the last mode command accepted
    first, last, taken,   \* first and last sample taken from the ring since
                          \* that command, and how many
    mark                  \* newest sample pulled when the ring was last cleared

modes == <<capture_enabled, telemetry_enabled, telemetry_period_ms>>
stream == <<packet_seq, ingested, snapshot_valid, due_in>>
burst == <<processed, sent, batch, dropped_total>>
history == <<last_mode, first, last, taken, mark>>
core0Vars == <<core0, modes, stream, burst, usb_in, history>>

-----------------------------------------------------------------------------
(* Packets (protocol/src/bridge_proto.rs).                                  *)

NoPacket == [type |-> "None"]
ackPacket(seq, t) == [type |-> "Ack", seq |-> seq, about |-> t]
nackPacket(seq, t) == [type |-> "Nack", seq |-> seq, about |-> t]
traceSamples(seq, d, s, samples) ==
    [type |-> "TraceSample", seq |-> seq, dropped_samples_total |-> d,
     rx_stall_count_total |-> s, samples |-> samples]
telemetry(seq) == [type |-> "Telemetry", seq |-> seq]

\* What the host may write: every request the firmware tells apart.  "Other"
\* stands for the message types it has no handler for, "Malformed" for at
\* least MIN_PACKET_SIZE bytes that do not decode; a runt is read in
\* TimerOrRunt.  `on` and `period` count as far as payload_len reaches.
Requests ==
    [type : {"Ping", "CaptureSet", "TelemetrySet", "Other", "Malformed"},
     seq : RequestSeqs, payload_len : {0, 1, 3}, on : BOOLEAN,
     period : Periods]

Replies ==
    [type : {"Ack", "Nack"}, seq : 0..(SeqMod - 1),
     about : {"Ping", "CaptureSet", "TelemetrySet", "Other", "Malformed"}]
TracePackets ==
    [type : {"TraceSample"}, seq : 0..(SeqMod - 1),
     dropped_samples_total : 0..(CounterMod - 1),
     rx_stall_count_total : 0..(CounterMod - 1), samples : Seq(Nat)]
TelemetryPackets == [type : {"Telemetry"}, seq : 0..(SeqMod - 1)]
Packets == {NoPacket} \cup Replies \cup TracePackets \cup TelemetryPackets

-----------------------------------------------------------------------------
Core0Init ==
    /\ core0 = "offline"
    /\ capture_enabled = FALSE
    /\ telemetry_enabled = FALSE
    /\ packet_seq = 1
    /\ ingested = 0
    /\ snapshot_valid = FALSE
    /\ telemetry_period_ms = DefaultPeriod
    /\ due_in = 0
    /\ processed = 0
    /\ sent = 0
    /\ batch = <<>>
    /\ dropped_total = 0
    /\ usb_in = NoPacket
    /\ last_mode = "none"
    /\ first = 0
    /\ last = 0
    /\ taken = 0
    /\ mark = 0

Core0TypeOK ==
    /\ core0 \in {"offline", "select", "zero_drop", "zero_stall", "clear",
                  "reply", "process", "poll", "batch", "read_drops",
                  "read_stalls", "send"}
    /\ capture_enabled \in BOOLEAN /\ telemetry_enabled \in BOOLEAN
    /\ packet_seq \in 0..(SeqMod - 1)
    /\ ingested \in 0..MinSnapshotSamples
    /\ snapshot_valid \in BOOLEAN
    /\ telemetry_period_ms \in {DefaultPeriod} \cup Periods
    /\ due_in \in Nat
    /\ processed \in 0..DecodeBurst
    /\ sent \in 0..OutgoingBurst
    /\ batch \in Seq(Nat)
    /\ dropped_total \in 0..(CounterMod - 1)
    /\ usb_in \in Packets
    /\ last_mode \in {"none", "cap0", "cap1", "tel0", "tel1"}
    /\ first \in Nat /\ last \in Nat /\ taken \in Nat /\ mark \in Nat

-----------------------------------------------------------------------------
(* The bridge task waits for a host, then for a request or its timer.       *)

Connect ==
    /\ core0 = "offline"
    /\ core0' = "select"
    /\ UNCHANGED <<modes, stream, burst, usb_in, history, sharedVars>>

ReadError ==
    /\ core0 = "select"
    /\ core0' = "offline"
    /\ UNCHANGED <<modes, stream, burst, usb_in, history, sharedVars>>

\* The timer fires, or the host wrote less than MIN_PACKET_SIZE bytes.
TimerOrRunt ==
    /\ core0 = "select"
    /\ core0' = "process"
    /\ processed' = 0
    /\ UNCHANGED <<modes, stream, sent, batch, dropped_total, usb_in, history,
                   sharedVars>>

Reply(p) ==
    /\ usb_in' = p
    /\ core0' = "reply"

\* Requests that leave the mode alone: PING, those refused, and packets that
\* do not decode (main.rs lines 126-129).
ReadOther(req) ==
    /\ core0 = "select"
    /\ \/ req.type = "Ping" /\ Reply(ackPacket(req.seq, "Ping"))
       \/ req.type = "Other" /\ Reply(nackPacket(req.seq, "Other"))
       \/ req.type = "Malformed" /\ Reply(nackPacket(0, "Malformed"))
       \/ /\ req.type \in {"CaptureSet", "TelemetrySet"}
          /\ req.payload_len < 1
          /\ Reply(nackPacket(req.seq, req.type))
    /\ UNCHANGED <<modes, stream, burst, history, sharedVars>>

\* A mode command: the flags, then the gate.  reset_stream_state follows; its
\* assignments to the task's own state are part of this step.
SetMode(req, capture, telem, gate, name) ==
    /\ core0 = "select"
    /\ req.payload_len >= 1
    /\ capture_enabled' = capture
    /\ telemetry_enabled' = telem
    /\ trace_capture_enabled' = gate
    /\ packet_seq' = 1
    /\ ingested' = 0
    /\ snapshot_valid' = FALSE
    /\ due_in' = 0
    /\ usb_in' = ackPacket(req.seq, req.type)
    /\ core0' = "zero_drop"
    /\ last_mode' = name
    /\ first' = 0 /\ last' = 0 /\ taken' = 0
    /\ UNCHANGED <<burst, mark, trace_samples, pulled, bus_missed, counters>>

\* Mutant: the gate is opened whatever the command asks for.
CaptureSet_GateStaysOpen(req) ==
    /\ req.type = "CaptureSet"
    /\ SetMode(req, req.on, ~req.on, TRUE, IF req.on THEN "cap1" ELSE "cap0")
    /\ UNCHANGED telemetry_period_ms

CaptureSet(req) ==
    /\ req.type = "CaptureSet"
    /\ SetMode(req, req.on, ~req.on, req.on,
               IF req.on THEN "cap1" ELSE "cap0")
    /\ UNCHANGED telemetry_period_ms

TelemetrySet(req) ==
    /\ req.type = "TelemetrySet"
    /\ SetMode(req, ~req.on, req.on, req.on,
               IF req.on THEN "tel1" ELSE "tel0")
    /\ telemetry_period_ms' = IF req.payload_len >= 3 THEN req.period
                              ELSE telemetry_period_ms

ReadRequest ==
    \E req \in Requests : ReadOther(req) \/ CaptureSet(req) \/ TelemetrySet(req)

-----------------------------------------------------------------------------
(* reset_stream_state, the part that touches what the cores share.          *)

ZeroDropCount ==
    /\ core0 = "zero_drop"
    /\ trace_queue_drop_count' = 0
    /\ drops' = 0
    /\ core0' = "zero_stall"
    /\ UNCHANGED <<modes, stream, burst, usb_in, history,
                   trace_capture_enabled, trace_samples, pulled, bus_missed,
                   trace_rxstall_count, stalls>>

ZeroStallCount ==
    /\ core0 = "zero_stall"
    /\ trace_rxstall_count' = 0
    /\ stalls' = 0
    /\ bus_missed' = FALSE
    /\ core0' = "clear"
    /\ UNCHANGED <<modes, stream, burst, usb_in, history,
                   trace_capture_enabled, trace_samples, pulled,
                   trace_queue_drop_count, drops>>

\* Mutant: one dequeue instead of a loop.
ClearTraceSamples_Once ==
    /\ core0 = "clear"
    /\ trace_samples' = IF trace_samples = <<>> THEN <<>>
                        ELSE Tail(trace_samples)
    /\ core0' = "reply"
    /\ mark' = pulled
    /\ UNCHANGED <<modes, stream, burst, usb_in, last_mode, first, last,
                   taken, trace_capture_enabled, pulled, bus_missed, counters>>

\* clear_trace_samples: dequeue until the ring is seen empty.
ClearTraceSamples ==
    /\ core0 = "clear"
    /\ \/ /\ trace_samples # <<>>
          /\ trace_samples' = Tail(trace_samples)
          /\ UNCHANGED <<core0, mark>>
       \/ /\ trace_samples = <<>>
          /\ core0' = "reply"
          /\ mark' = pulled
          /\ UNCHANGED trace_samples
    /\ UNCHANGED <<modes, stream, burst, usb_in, last_mode, first, last,
                   taken, trace_capture_enabled, pulled, bus_missed, counters>>

-----------------------------------------------------------------------------
(* Writing to the host.  A failed write drops the packet and the            *)
(* connection; nothing is reset.                                             *)

\* Mutant: the loop goes back to reading as soon as it has replied.
WriteReply_SkipsPolling ==
    /\ core0 = "reply"
    /\ core0' = "select"
    /\ processed' = 0
    /\ usb_in' = NoPacket
    /\ UNCHANGED <<modes, stream, sent, batch, dropped_total, history,
                   sharedVars>>

WriteReply ==
    /\ core0 = "reply"
    /\ core0' = "process"
    /\ processed' = 0
    /\ usb_in' = NoPacket
    /\ UNCHANGED <<modes, stream, sent, batch, dropped_total, history,
                   sharedVars>>

WriteStreamPacket ==
    /\ core0 = "send"
    /\ core0' = "poll"
    /\ sent' = sent + 1
    /\ usb_in' = NoPacket
    /\ UNCHANGED <<modes, stream, processed, batch, dropped_total, history,
                   sharedVars>>

WriteError ==
    /\ core0 \in {"reply", "send"}
    /\ core0' = "offline"
    /\ usb_in' = NoPacket
    /\ UNCHANGED <<modes, stream, burst, history, sharedVars>>

-----------------------------------------------------------------------------
(* Taking samples from the ring.                                            *)

\* Mutant: the sample is read but left in the ring.
Take_Peek ==
    /\ trace_samples # <<>>
    /\ UNCHANGED trace_samples
    /\ first' = IF taken = 0 THEN Head(trace_samples) ELSE first
    /\ last' = Head(trace_samples)
    /\ taken' = IF taken < SamplesPerPacket THEN taken + 1 ELSE taken

Take ==
    /\ trace_samples # <<>>
    /\ trace_samples' = Tail(trace_samples)
    /\ first' = IF taken = 0 THEN Head(trace_samples) ELSE first
    /\ last' = Head(trace_samples)
    /\ taken' = taken + 1

\* The decoder is FeedbackDecoder; here it may yield a snapshot at any sample
\* once it has seen as many as a snapshot is made of.
IngestSample ==
    /\ core0 = "process" /\ telemetry_enabled /\ processed < DecodeBurst
    /\ Take
    /\ ingested' = IF ingested < MinSnapshotSamples THEN ingested + 1
                   ELSE ingested
    /\ \/ snapshot_valid' = TRUE /\ ingested' = MinSnapshotSamples
       \/ UNCHANGED snapshot_valid
    /\ processed' = processed + 1
    /\ UNCHANGED <<core0, modes, packet_seq, due_in, sent, batch,
                   dropped_total, usb_in, last_mode, mark,
                   trace_capture_enabled, pulled, bus_missed, counters>>

EndProcessing ==
    /\ core0 = "process"
    /\ ~telemetry_enabled \/ processed = DecodeBurst \/ trace_samples = <<>>
    /\ core0' = "poll"
    /\ sent' = 0
    /\ processed' = 0
    /\ UNCHANGED <<modes, stream, batch, dropped_total, usb_in, history,
                   sharedVars>>

-----------------------------------------------------------------------------
(* poll_outgoing_packet, at most OutgoingBurst times in a pass.             *)

TelemetryDue == telemetry_enabled /\ snapshot_valid /\ due_in = 0

PollNothing ==
    /\ core0 = "poll"
    /\ \/ sent = OutgoingBurst
       \/ ~capture_enabled /\ ~TelemetryDue
    /\ core0' = "select"
    /\ UNCHANGED <<modes, stream, burst, usb_in, history, sharedVars>>

PollTelemetry ==
    /\ core0 = "poll" /\ sent < OutgoingBurst
    /\ ~capture_enabled /\ TelemetryDue
    /\ usb_in' = telemetry(packet_seq)
    /\ packet_seq' = (packet_seq + 1) % SeqMod
    /\ due_in' = IF telemetry_period_ms = 0 THEN 1 ELSE telemetry_period_ms
    /\ core0' = "send"
    /\ UNCHANGED <<modes, ingested, snapshot_valid, burst, history, sharedVars>>

PollCapture ==
    /\ core0 = "poll" /\ sent < OutgoingBurst
    /\ capture_enabled
    /\ batch' = <<>>
    /\ core0' = "batch"
    /\ UNCHANGED <<modes, stream, processed, sent, dropped_total, usb_in,
                   history, sharedVars>>

TakeForBatch ==
    /\ core0 = "batch" /\ Len(batch) < SamplesPerPacket
    /\ Take
    /\ batch' = Append(batch, Head(trace_samples))
    /\ UNCHANGED <<core0, modes, stream, processed, sent, dropped_total,
                   usb_in, last_mode, mark, trace_capture_enabled, pulled,
                   bus_missed, counters>>

EndBatch ==
    /\ core0 = "batch"
    /\ Len(batch) = SamplesPerPacket \/ trace_samples = <<>>
    /\ core0' = IF batch = <<>> THEN "select" ELSE "read_drops"
    /\ UNCHANGED <<modes, stream, burst, usb_in, history, sharedVars>>

ReadDrops ==
    /\ core0 = "read_drops"
    /\ dropped_total' = trace_queue_drop_count
    /\ core0' = "read_stalls"
    /\ UNCHANGED <<modes, stream, processed, sent, batch, usb_in, history,
                   sharedVars>>

ReadStalls ==
    /\ core0 = "read_stalls"
    /\ usb_in' = traceSamples(packet_seq, dropped_total, trace_rxstall_count,
                              batch)
    /\ packet_seq' = (packet_seq + 1) % SeqMod
    /\ core0' = "send"
    /\ batch' = <<>>
    /\ dropped_total' = 0
    /\ UNCHANGED <<modes, ingested, snapshot_valid, due_in, processed, sent,
                   history, sharedVars>>

-----------------------------------------------------------------------------
\* A millisecond of the clock telemetry is scheduled by.
Tick ==
    /\ due_in > 0
    /\ due_in' = due_in - 1
    /\ UNCHANGED <<core0, modes, packet_seq, ingested, snapshot_valid, burst,
                   usb_in, history, sharedVars>>

\* The steps core0 takes by itself, with no part of the host in them.
Core0Step ==
    \/ ZeroDropCount \/ ZeroStallCount \/ ClearTraceSamples
    \/ IngestSample \/ EndProcessing
    \/ PollNothing \/ PollTelemetry \/ PollCapture
    \/ TakeForBatch \/ EndBatch \/ ReadDrops \/ ReadStalls

Write == WriteReply \/ WriteStreamPacket

BridgeNext ==
    \/ Connect \/ ReadError \/ TimerOrRunt \/ ReadRequest
    \/ Write \/ WriteError \/ Core0Step \/ Tick
=============================================================================
