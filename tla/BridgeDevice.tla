---------------------------- MODULE BridgeDevice ----------------------------
(***************************************************************************)
(* What the firmware promises to a USB host: the abstract specification of  *)
(* the bridge (main.rs lines 101-167 over transport_pio.rs).  It answers    *)
(* every request before it reads the next, a mode command takes effect as a *)
(* whole, it streams only what the mode calls for, at most Burst packets    *)
(* between two looks at the host, and once the gate is closed at most one   *)
(* packet of samples more.  CaptureRefinement shows that CaptureSystem      *)
(* implements it; HostSession talks to it.                                  *)
(***************************************************************************)
EXTENDS Naturals

CONSTANTS
    Seqs,    \* sequence numbers
    Tags,    \* who asks, a history of HostSession
    NoTag,   \* nobody yet
    Burst    \* USB_OUTGOING_BURST_PACKETS

ASSUME DeviceAssumption == Burst \in Nat \ {0} /\ NoTag \in Tags

VARIABLES
    phase,               \* where the bridge task is
    capture_enabled, telemetry_enabled,
    gate,                \* TRACE_CAPTURE_ENABLED
    late,                \* a sample may still come through a closed gate
    sent,                \* stream packets of this burst
    usb_in,              \* the packet being written to the host
    owner                \* history: who set the mode

mode == <<capture_enabled, telemetry_enabled, gate, owner>>
deviceVars == <<phase, mode, late, sent, usb_in>>

NoPacket == [type |-> "None"]
Reply(type, seq, tag) == [type |-> type, seq |-> seq, tag |-> tag]
StreamPacket(type) == [type |-> type, tag |-> owner]

ModeRequests ==
    [type : {"CaptureSet", "TelemetrySet"}, seq : Seqs, on : BOOLEAN,
     tag : Tags]

DeviceInit ==
    /\ phase = "offline"
    /\ capture_enabled = FALSE /\ telemetry_enabled = FALSE
    /\ gate = TRUE
    /\ late = TRUE
    /\ sent = 0
    /\ usb_in = NoPacket
    /\ owner = NoTag

-----------------------------------------------------------------------------
Connect ==
    /\ phase = "offline"
    /\ phase' = "ready"
    /\ UNCHANGED <<mode, late, sent, usb_in>>

\* A read or a write fails: the packet is lost, the mode stays.
Disconnect ==
    /\ phase \in {"ready", "replying", "sending"}
    /\ phase' = "offline"
    /\ usb_in' = NoPacket
    /\ sent' = 0
    /\ UNCHANGED <<mode, late>>

\* The task gives up waiting for a request, to see to its stream.
Poll ==
    /\ phase = "ready"
    /\ phase' = "busy"
    /\ UNCHANGED <<mode, late, sent, usb_in>>

\* Mutant: the gate stays as it was.
SetMode_GateKept(req) ==
    /\ phase = "ready"
    /\ capture_enabled' = (req.on <=> req.type = "CaptureSet")
    /\ telemetry_enabled' = (req.on <=> req.type = "TelemetrySet")
    /\ owner' = req.tag
    /\ late' = TRUE
    /\ usb_in' = Reply("Ack", req.seq, req.tag)
    /\ phase' = "replying"
    /\ UNCHANGED <<gate, sent>>

\* A mode command.  TELEMETRY_SET(0) is capture behind a closed gate,
\* CAPTURE_SET(0) is telemetry behind one.
SetMode(req) ==
    /\ phase = "ready"
    /\ capture_enabled' = (req.on <=> req.type = "CaptureSet")
    /\ telemetry_enabled' = (req.on <=> req.type = "TelemetrySet")
    /\ gate' = req.on
    /\ owner' = req.tag
    /\ late' = TRUE
    /\ usb_in' = Reply("Ack", req.seq, req.tag)
    /\ phase' = "replying"
    /\ UNCHANGED sent

\* Any other request is answered and changes nothing.
Refuse ==
    /\ phase = "ready"
    /\ \E type \in {"Ack", "Nack"}, seq \in Seqs, tag \in Tags :
           usb_in' = Reply(type, seq, tag)
    /\ phase' = "replying"
    /\ UNCHANGED <<mode, late, sent>>

Replied ==
    /\ phase = "replying"
    /\ phase' = "busy"
    /\ usb_in' = NoPacket
    /\ UNCHANGED <<mode, late, sent>>

StreamSamples ==
    /\ phase = "busy" /\ sent < Burst
    /\ capture_enabled /\ (gate \/ late)
    /\ usb_in' = StreamPacket("TraceSample")
    /\ late' = gate
    /\ phase' = "sending"
    /\ UNCHANGED <<mode, sent>>

StreamTelemetry ==
    /\ phase = "busy" /\ sent < Burst
    /\ telemetry_enabled /\ gate
    /\ usb_in' = StreamPacket("Telemetry")
    /\ phase' = "sending"
    /\ UNCHANGED <<mode, late, sent>>

\* Mutant: the packets of a burst are not counted.
Streamed_NotCounted ==
    /\ phase = "sending"
    /\ phase' = "busy"
    /\ usb_in' = NoPacket
    /\ UNCHANGED <<mode, late, sent>>

Streamed ==
    /\ phase = "sending"
    /\ phase' = "busy"
    /\ sent' = sent + 1
    /\ usb_in' = NoPacket
    /\ UNCHANGED <<mode, late>>

\* The stream has nothing more, or had its burst.
Rest ==
    /\ phase = "busy"
    /\ phase' = "ready"
    /\ sent' = 0
    /\ UNCHANGED <<mode, late, usb_in>>

DeviceNext ==
    \/ Connect \/ Disconnect \/ Poll \/ Refuse \/ Replied
    \/ \E req \in ModeRequests : SetMode(req)
    \/ StreamSamples \/ StreamTelemetry \/ Streamed \/ Rest

Spec == DeviceInit /\ [][DeviceNext]_deviceVars
=============================================================================
