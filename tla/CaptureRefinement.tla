------------------------- MODULE CaptureRefinement --------------------------
(***************************************************************************)
(* CaptureSystem implements BridgeDevice.  The steps of a reset and those   *)
(* that fill a packet are internal; so are the clocks, the counters and all *)
(* of core1.                                                                *)
(***************************************************************************)
EXTENDS CaptureSystem

CONSTANT Nobody   \* the tag of every request: nobody tells hosts apart here

\* The bridge task as its host can tell its states apart.
Phase ==
    CASE core0 = "offline" -> "offline"
      [] core0 = "select" -> "ready"
      [] core0 \in {"zero_drop", "zero_stall", "clear", "reply"} -> "replying"
      [] core0 = "send" -> "sending"
      [] OTHER -> "busy"

\* `sent` is zeroed when the polling starts, not when it ends.
BurstSoFar == IF core0 \in {"poll", "batch", "read_drops", "read_stalls", "send"}
              THEN sent ELSE 0

\* The sample that came through a closed gate has not been sent.
Straggler ==
    \/ trace_capture_enabled \/ ~capture_enabled
    \/ taken = 0 \/ batch # <<>>

PacketSeen ==
    CASE usb_in.type \in {"Ack", "Nack"} ->
           [type |-> usb_in.type, seq |-> usb_in.seq, tag |-> Nobody]
      [] usb_in.type \in {"TraceSample", "Telemetry"} ->
           [type |-> usb_in.type, tag |-> Nobody]
      [] OTHER -> usb_in

Bridge == INSTANCE BridgeDevice WITH
    Seqs <- 0..(SeqMod - 1), Tags <- {Nobody}, NoTag <- Nobody,
    Burst <- OutgoingBurst,
    phase <- Phase, gate <- trace_capture_enabled, late <- Straggler,
    sent <- BurstSoFar, usb_in <- PacketSeen, owner <- Nobody

\* The host sees of the two cores what BridgeDevice allows: above all that a
\* mode command is never seen half done, however core1 runs during it, and
\* that at most one packet of samples follows a command that closes the gate.
ImplementsBridge == Bridge!Spec
=============================================================================
