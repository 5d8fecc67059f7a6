--------------------------- MODULE CaptureSystem ---------------------------
(***************************************************************************)
(* The passive-capture firmware: core1 and the PIO produce, core0 consumes  *)
(* and serves the USB host, interleaved at every access to what they share. *)
(***************************************************************************)
EXTENDS CaptureCore1, PioTransport

vars == <<sharedVars, core1Vars, core0Vars>>

Init == SharedInit /\ Core1Init /\ Core0Init

Core1 == CaptureNext /\ UNCHANGED core0Vars
Core0 == BridgeNext /\ UNCHANGED core1Vars

Next == Core0 \/ Core1

Spec == Init /\ [][Next]_vars

\* Neither core ever waits for the other: core1 spins, core0's own steps are
\* never blocked, its timer fires when no request comes, and the host reads
\* what is written.  The host need not connect nor send anything, and the bus
\* need not run.
Fairness ==
    /\ WF_vars(Core1Step /\ UNCHANGED core0Vars)
    /\ WF_vars(Unblock /\ UNCHANGED core0Vars)
    /\ WF_vars(Core0Step /\ UNCHANGED core1Vars)
    /\ WF_vars(TimerOrRunt /\ UNCHANGED core1Vars)
    /\ WF_vars(Write /\ UNCHANGED core1Vars)
    /\ WF_vars(Tick /\ UNCHANGED core1Vars)

FairSpec == Spec /\ Fairness

TypeOK == SharedTypeOK /\ Core1TypeOK /\ Core0TypeOK

-----------------------------------------------------------------------------
\* A mode command is being carried out: the ring may hold older samples.
Resetting == core0 \in {"zero_drop", "zero_stall", "clear"}

\* Core1 holds a sample that passed the gate and may still enter the ring.
InFlight == IF core1 = "enqueue" THEN 1 ELSE 0

\* When the host is sent samples, every sample missing between the first and
\* the newest one taken since the mode was set is in the packet's
\* dropped_samples_total (unless the counter wrapped).  Core1 counts a drop
\* after the failed enqueue and core0 loads the counter after it dequeues
\* (transport_pio.rs lines 342-343, 204-217); the reset zeroes the counter
\* before it clears the ring (lines 119-121).
NoSilentLoss ==
    usb_in.type = "TraceSample" /\ drops < CounterMod =>
        last - first + 1 - taken <= usb_in.dropped_samples_total

\* Samples stay in bus order and none is taken twice: what is in the ring is
\* increasing and newer than all that was taken since the mode was set.
StreamInOrder ==
    /\ \A i, j \in 1..Len(trace_samples) :
           i < j => trace_samples[i] < trace_samples[j]
    /\ taken > 0 /\ trace_samples # <<>> => last < Head(trace_samples)

\* No sample taken under a mode command was pulled from the FIFO before the
\* ring was seen empty for that command, but for the one core1 then held.
EpochFresh == taken > 0 => first >= mark

\* Once a command that closes the gate is answered, at most one more sample
\* is ever taken: the one core1 had let through the gate.  Both commands
\* leave one of the two flags set (transport_pio.rs lines 144-146, 156-158),
\* so core0 goes on serving the ring.
QuietAfterOff ==
    last_mode \in {"cap0", "tel0"} /\ ~Resetting =>
        taken + Len(trace_samples) + InFlight <= 1

\* Telemetry is only sent after TELEMETRY_SET(1).  CAPTURE_SET(0) sets
\* telemetry_enabled too (transport_pio.rs line 144); what keeps it silent is
\* that no snapshot can come of the samples that pass a closed gate.
TelemetryOnlyWhenAsked ==
    usb_in.type = "Telemetry" => last_mode = "tel1"

\* A bus cycle the PIO could not sample leaves a trace the host will see: the
\* stall counter is not zero, or core1 is about to count.  stalled() reads and
\* clears the flag in two accesses; a push that blocks in between sets the
\* flag again because only core1 can end it.
MissesReported ==
    bus_missed =>
        \/ trace_rxstall_count > 0 \/ stalls = CounterMod
        \/ rxstall \/ saw_stall \/ core1 = "stall_count"

-----------------------------------------------------------------------------
\* While capturing, the oldest sample in the ring is taken, however many
\* requests the host sends: every request is followed by a round of
\* poll_outgoing_packet (main.rs lines 151-164).  Only the loss of the
\* connection, or a new mode command, ends the promise.
SamplesLeaveRing ==
    \A k \in 1..MaxSamples :
        (capture_enabled /\ trace_samples # <<>> /\ Head(trace_samples) = k)
            ~> \/ trace_samples = <<>> \/ Head(trace_samples) # k
               \/ core0 = "offline"

\* Once there is a snapshot a telemetry packet is sent, whether samples and
\* requests keep coming or not.
TelemetryFlows ==
    (telemetry_enabled /\ snapshot_valid)
        ~> usb_in.type = "Telemetry" \/ ~snapshot_valid \/ core0 = "offline"
=============================================================================
