----------------------------- MODULE MockBridge ------------------------------
(***************************************************************************)
(* The mock-bus build of the firmware: the bridge task (firmware/src/main.rs *)
(* lines 101-167) over MockTransport (transport_mock.rs), which makes up a   *)
(* lathe (transport_mock/protocol.rs), asks it the commands of the ROM's     *)
(* cadence (mock_bus.rs) and puts its answers together again with the        *)
(* DroAssembler (protocol/src/dro_decode.rs).                                *)
(*                                                                           *)
(* Its modes are not those of BridgeDevice: each mode command sets its own   *)
(* flag, both may be on, and capture outranks telemetry.                     *)
(*                                                                           *)
(* The host may send any request, and the connection may fail at any read or *)
(* write.  The delay the task waits for a request is not modelled.  Sequence *)
(* numbers and bus_cycles only number packets, and are left out.             *)
(***************************************************************************)
EXTENDS Integers, Sequences

CONSTANTS
    TickMod,         \* values of the tick counter, 2^32
    OutgoingBurst,   \* USB_OUTGOING_BURST_PACKETS, 16
    DefaultPeriod,   \* telemetry period at power-up, 100 ms
    Periods          \* periods a mode command may carry

\* The counter wraps at the end of a phase, as 2^32 does.
ASSUME TickAssumption == TickMod \in Nat \ {0} /\ TickMod % 16 = 0
ASSUME BurstAssumption == OutgoingBurst \in Nat \ {0}
ASSUME PeriodAssumption == DefaultPeriod \in Nat /\ Periods \subseteq Nat

VARIABLES
    task,                 \* where the bridge task is
    capture_enabled, telemetry_enabled,
    telemetry_period_ms,
    due_in,               \* next_due_ms - now_ms, 0 when past
    tick,                 \* of the engine, and of the bridge service
    idx,                  \* where the runner is in its cadence, from 0
    dro,                  \* DroAssembler: the last answer to each command
    sent,                 \* stream packets of this burst
    usb_in                \* the packet being written to the host

modes == <<capture_enabled, telemetry_enabled, telemetry_period_ms>>
lathe == <<tick, idx, dro>>
vars == <<task, modes, due_in, lathe, sent, usb_in>>

-----------------------------------------------------------------------------
(* The lathe made up by DroProtocolEngine, and its answers.                 *)

DRO_CADENCE == <<3, 2, 1, 0, 7, 6, 5, 4, 13, 12>>
Commands == {DRO_CADENCE[i] : i \in 1..10}
CommandAt(i) == DRO_CADENCE[i + 1]

\* Mutant: one past the end of the table.
NextIdx_PastEnd(i) == (i + 1) % 11

NextIdx(i) == (i + 1) % 10

\* Sixteen ticks make a phase.
PhaseOf(t) == t \div 16
XCounts(t) == (PhaseOf(t) % 1024) - 512
ZCounts(t) == ((PhaseOf(t) * 3) % 1024) - 512
Rpm(t) == 800 + 5 * (PhaseOf(t) % 256)

SignByte(v) == IF v < 0 THEN 1 ELSE 0
Abs24(v) == (IF v < 0 THEN -v ELSE v) % 16777216
Byte0(v) == v % 256
Byte1(v) == (v \div 256) % 256
Byte2(v) == (v \div 65536) % 256

Answer(cmd, t) ==
    CASE cmd = 3 -> SignByte(XCounts(t))
      [] cmd = 2 -> Byte2(Abs24(XCounts(t)))
      [] cmd = 1 -> Byte1(Abs24(XCounts(t)))
      [] cmd = 0 -> Byte0(Abs24(XCounts(t)))
      [] cmd = 7 -> SignByte(ZCounts(t))
      [] cmd = 6 -> Byte2(Abs24(ZCounts(t)))
      [] cmd = 5 -> Byte1(Abs24(ZCounts(t)))
      [] cmd = 4 -> Byte0(Abs24(ZCounts(t)))
      [] cmd = 13 -> Byte1(Rpm(t))
      [] cmd = 12 -> Byte0(Rpm(t))

-----------------------------------------------------------------------------
(* DroAssembler: the last answer to each command.  The speed it shows.      *)

RpmSeen == dro[13] * 256 + dro[12]

\* Mutant: the assembler is fed for telemetry only.
Assemble_TelemetryOnly(cmd, response) ==
    dro' = IF capture_enabled THEN dro ELSE [dro EXCEPT ![cmd] = response]

Assemble(cmd, response) == dro' = [dro EXCEPT ![cmd] = response]

-----------------------------------------------------------------------------
(* Packets.                                                                 *)

NoPacket == [type |-> "None"]
Ack == [type |-> "Ack"]
Nack == [type |-> "Nack"]
Telemetry == [type |-> "Telemetry"]   \* carries the snapshot of `dro`

\* sample_words: a sample has the data, the low address byte and bit 16.
WRITE == 1
READ == 0
TraceSamples(cmd, response) ==
    [type |-> "TraceSample",
     samples |-> <<[data |-> cmd, addr |-> 128, bit16 |-> WRITE],
                   [data |-> response, addr |-> 241, bit16 |-> READ]>>]

\* As in PioTransport; `on` and `period` count as far as payload_len reaches.
Requests ==
    [type : {"Ping", "CaptureSet", "TelemetrySet", "Other", "Malformed"},
     payload_len : {0, 1, 3}, on : BOOLEAN, period : Periods]

Init ==
    /\ task = "offline"
    /\ capture_enabled = FALSE /\ telemetry_enabled = FALSE
    /\ telemetry_period_ms = DefaultPeriod
    /\ due_in = 0
    /\ tick = 0 /\ idx = 0
    /\ dro = [c \in Commands |-> 0]
    /\ sent = 0
    /\ usb_in = NoPacket

-----------------------------------------------------------------------------
(* The bridge task waits for a host, then for a request or its timer.       *)

Connect ==
    /\ task = "offline"
    /\ task' = "select"
    /\ UNCHANGED <<modes, due_in, lathe, sent, usb_in>>

\* A read or a write fails: the packet is lost, and nothing is reset.
Disconnect ==
    /\ task \in {"select", "reply", "send"}
    /\ task' = "offline"
    /\ usb_in' = NoPacket
    /\ sent' = 0
    /\ UNCHANGED <<modes, due_in, lathe>>

\* The timer fires, or the host wrote less than MIN_PACKET_SIZE bytes.
TimerOrRunt ==
    /\ task = "select"
    /\ task' = "poll"
    /\ UNCHANGED <<modes, due_in, lathe, sent, usb_in>>

\* Mutant: the packet due next stays due when it was.
DueNow_Kept == UNCHANGED due_in

\* Every request that decodes makes the next packet due at once.
DueNow == due_in' = 0

Reply(packet) ==
    /\ task = "select"
    /\ task' = "reply"
    /\ usb_in' = packet
    /\ UNCHANGED <<lathe, sent>>

\* PING, what the bridge refuses, and packets that do not decode.
ReadOther(req) ==
    /\ \/ req.type = "Ping" /\ Reply(Ack) /\ DueNow
       \/ req.type = "Other" /\ Reply(Nack) /\ DueNow
       \/ req.type = "Malformed" /\ Reply(Nack) /\ UNCHANGED due_in
       \/ /\ req.type \in {"CaptureSet", "TelemetrySet"}
          /\ req.payload_len < 1
          /\ Reply(Nack) /\ DueNow
    /\ UNCHANGED modes

\* A mode command of either kind: its flag, and the one period.
SetMode(req, type, flag, other) ==
    /\ req.type = type /\ req.payload_len >= 1
    /\ Reply(Ack)
    /\ flag' = req.on
    /\ telemetry_period_ms' = IF req.payload_len >= 3 THEN req.period
                              ELSE telemetry_period_ms
    /\ DueNow
    /\ UNCHANGED other

ReadRequest ==
    \E req \in Requests :
        \/ ReadOther(req)
        \/ SetMode(req, "TelemetrySet", telemetry_enabled, capture_enabled)
        \/ SetMode(req, "CaptureSet", capture_enabled, telemetry_enabled)

\* Mutant: the loop goes back to reading as soon as it has replied.
WriteReply_SkipsPolling ==
    /\ task = "reply"
    /\ task' = "select"
    /\ usb_in' = NoPacket
    /\ UNCHANGED <<modes, due_in, lathe, sent>>

WriteReply ==
    /\ task = "reply"
    /\ task' = "poll"
    /\ usb_in' = NoPacket
    /\ UNCHANGED <<modes, due_in, lathe, sent>>

WriteStreamPacket ==
    /\ task = "send"
    /\ task' = "poll"
    /\ sent' = sent + 1
    /\ usb_in' = NoPacket
    /\ UNCHANGED <<modes, due_in, lathe>>

-----------------------------------------------------------------------------
(* poll_outgoing_packet, at most OutgoingBurst times in a pass.             *)

MayPoll ==
    /\ sent < OutgoingBurst /\ due_in = 0
    /\ telemetry_enabled \/ capture_enabled

\* The burst is over, the packet not due, or no mode on: the runner rests.
PollNothing ==
    /\ task = "poll" /\ ~MayPoll
    /\ task' = "select"
    /\ sent' = 0
    /\ UNCHANGED <<modes, due_in, lathe, usb_in>>

\* The lathe moves, and answers one command of the cadence.
PollBus ==
    /\ task = "poll" /\ MayPoll
    /\ tick' = (tick + 1) % TickMod
    /\ idx' = NextIdx(idx)
    /\ LET cmd == CommandAt(idx)
           response == Answer(cmd, tick')
       IN  /\ Assemble(cmd, response)
           /\ \/ /\ capture_enabled
                 /\ usb_in' = TraceSamples(cmd, response)
                 /\ task' = "send"
                 /\ UNCHANGED <<due_in, sent>>
              \/ /\ ~capture_enabled /\ cmd = 12
                 /\ usb_in' = Telemetry
                 /\ due_in' = IF telemetry_period_ms = 0 THEN 1
                              ELSE telemetry_period_ms
                 /\ task' = "send"
                 /\ UNCHANGED sent
              \/ /\ ~capture_enabled /\ cmd # 12
                 /\ task' = "select"
                 /\ sent' = 0
                 /\ UNCHANGED <<due_in, usb_in>>
    /\ UNCHANGED modes

\* A millisecond of the clock.
Tick ==
    /\ due_in > 0
    /\ due_in' = due_in - 1
    /\ UNCHANGED <<task, modes, lathe, sent, usb_in>>

Write == WriteReply \/ WriteStreamPacket
Poll == PollNothing \/ PollBus

Next ==
    \/ Connect \/ Disconnect \/ TimerOrRunt \/ ReadRequest
    \/ Write \/ Poll \/ Tick

Spec == Init /\ [][Next]_vars

\* A task polled by its executor makes progress, the timer of its select
\* fires or a request is read before, time passes, and the host reads.
FairSpec ==
    /\ Spec
    /\ WF_vars(Poll) /\ WF_vars(Write) /\ WF_vars(TimerOrRunt)
    /\ WF_vars(Tick)

-----------------------------------------------------------------------------
Bytes == 0..255
Samples == [data : Bytes, addr : Bytes, bit16 : {WRITE, READ}]

TypeOK ==
    /\ task \in {"offline", "select", "reply", "poll", "send"}
    /\ capture_enabled \in BOOLEAN /\ telemetry_enabled \in BOOLEAN
    /\ telemetry_period_ms \in {DefaultPeriod} \cup Periods
    /\ due_in \in Nat
    /\ tick \in 0..(TickMod - 1) /\ idx \in 0..9
    /\ dro \in [Commands -> Bytes]
    /\ sent \in 0..OutgoingBurst
    /\ \/ usb_in \in {NoPacket, Ack, Nack, Telemetry}
       \/ /\ DOMAIN usb_in = {"type", "samples"}
          /\ usb_in.type = "TraceSample"
          /\ Len(usb_in.samples) = 2
          /\ \A i \in 1..2 : usb_in.samples[i] \in Samples

\* The lathe moves between the commands of a cadence and keeps moving while
\* samples are captured, but no answer in a telemetry packet is older than the
\* cadence the packet ends: each is of the lathe's present phase or the one
\* before (bridge_service.rs lines 110-132).
SnapshotRecent ==
    usb_in = Telemetry =>
        \A c \in Commands :
            dro[c] \in {Answer(c, tick), Answer(c, (tick - 9) % TickMod)}

\* A request may shorten the period while a packet waits for the longer one:
\* no wait outlasts the period in force (transport_mock.rs line 26).
NoOldPeriod ==
    due_in <= IF telemetry_period_ms = 0 THEN 1 ELSE telemetry_period_ms

\* With telemetry on and capture off the host gets telemetry, whatever it
\* asks meanwhile, unless a request changes the mode or the connection fails:
\* nine polls in ten yield nothing and end the burst (main.rs lines 151-164).
TelemetryWanted == telemetry_enabled /\ ~capture_enabled
MockTelemetryFlows ==
    TelemetryWanted
        ~> (usb_in = Telemetry \/ ~TelemetryWanted \/ task = "offline")

-----------------------------------------------------------------------------
(* What the tests and documents say and the code does not do.               *)

\* mock_bus.rs line 103: "assert!((800..=2200).contains(&rpm))".
SpeedSensible == usb_in = Telemetry => RpmSeen \in 800..2200
=============================================================================
