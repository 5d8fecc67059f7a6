---------------------------- MODULE CaptureCore1 ----------------------------
(***************************************************************************)
(* The producer side of the capture path: the PIO state machine that        *)
(* samples the bus (pio/passive_sniffer.pio), its receive FIFO, and the     *)
(* endless loop of core1 that empties the FIFO into the ring                *)
(* (capture_core1_loop, transport_pio.rs lines 261-355).  The state starts  *)
(* after the set-up of lines 265-330, when the FIFO is empty and its stall  *)
(* flag has been cleared.                                                   *)
(***************************************************************************)
EXTENDS TraceShared

CONSTANTS
    FifoDepth,   \* words of the receive FIFO, 4 on the RP2040
    MaxSamples   \* bound: bus cycles the PIO samples

ASSUME FifoDepthAssumption == FifoDepth \in Nat \ {0}
ASSUME MaxSamplesAssumption == MaxSamples \in Nat

VARIABLES
    rx_words,    \* words in the receive FIFO
    sm_blocked,  \* the state machine waits in `push block`, a word in its ISR
    rxstall,     \* sticky RXSTALL bit of the PIO's FDEBUG register
    core1,       \* where core1 is in its loop
    saw_stall    \* what `stalled()` read from RXSTALL

core1Vars == <<rx_words, sm_blocked, rxstall, core1, saw_stall>>

Core1Init ==
    /\ rx_words = 0
    /\ sm_blocked = FALSE
    /\ rxstall = FALSE
    /\ core1 = "pull"
    /\ saw_stall = FALSE

Core1TypeOK ==
    /\ rx_words \in 0..FifoDepth
    /\ sm_blocked \in BOOLEAN
    /\ rxstall \in BOOLEAN
    /\ core1 \in {"pull", "gate", "enqueue", "drop", "stall_read",
                  "stall_clear", "stall_count"}
    /\ saw_stall \in BOOLEAN

-----------------------------------------------------------------------------
(* The PIO state machine.  A rising edge of 1MHZE with FRED asserted ends   *)
(* in `push block`; while it blocks, edges go by unsampled.                  *)

MoreSamples == pulled + rx_words < MaxSamples

PushSample ==
    /\ ~sm_blocked /\ rx_words < FifoDepth
    /\ MoreSamples
    /\ rx_words' = rx_words + 1
    /\ UNCHANGED <<sm_blocked, rxstall, core1, saw_stall, sharedVars>>

BlockOnFullFifo ==
    /\ ~sm_blocked /\ rx_words = FifoDepth
    /\ MoreSamples
    /\ sm_blocked' = TRUE
    /\ rxstall' = TRUE
    /\ UNCHANGED <<rx_words, core1, saw_stall, sharedVars>>

\* The push goes through within a clock of the PIO (50 ns, line 317) once
\* there is room, long before the next edge (1 us): only a full FIFO loses one.
MissCycle ==
    /\ sm_blocked /\ rx_words = FifoDepth
    /\ bus_missed' = TRUE
    /\ UNCHANGED <<core1Vars, trace_capture_enabled, trace_samples, pulled,
                   counters>>

\* The blocked push goes through once core1 has made room.
Unblock ==
    /\ sm_blocked /\ rx_words < FifoDepth
    /\ sm_blocked' = FALSE
    /\ rx_words' = rx_words + 1
    /\ UNCHANGED <<rxstall, core1, saw_stall, sharedVars>>

BusCycle == PushSample \/ BlockOnFullFifo \/ MissCycle

-----------------------------------------------------------------------------
(* The loop of core1.                                                       *)

\* try_pull() returns a word, or ends the inner loop.
TryPull ==
    /\ core1 = "pull"
    /\ \/ /\ rx_words > 0
          /\ rx_words' = rx_words - 1
          /\ pulled' = pulled + 1
          /\ core1' = "gate"
       \/ /\ rx_words = 0
          /\ core1' = "stall_read"
          /\ UNCHANGED <<rx_words, pulled>>
    /\ UNCHANGED <<sm_blocked, rxstall, saw_stall, trace_capture_enabled,
                   trace_samples, bus_missed, counters>>

CheckGate ==
    /\ core1 = "gate"
    /\ core1' = IF trace_capture_enabled THEN "enqueue" ELSE "pull"
    /\ UNCHANGED <<rx_words, sm_blocked, rxstall, saw_stall, sharedVars>>

\* Mutant: the error of enqueue() is ignored.
Enqueue_ErrorIgnored ==
    /\ core1 = "enqueue"
    /\ trace_samples' = IF Len(trace_samples) < RingCapacity
                        THEN Append(trace_samples, pulled) ELSE trace_samples
    /\ core1' = "pull"
    /\ UNCHANGED <<rx_words, sm_blocked, rxstall, saw_stall,
                   trace_capture_enabled, pulled, bus_missed, counters>>

\* enqueue() of the sample just pulled fails when the ring is full.
Enqueue ==
    /\ core1 = "enqueue"
    /\ \/ /\ Len(trace_samples) < RingCapacity
          /\ trace_samples' = Append(trace_samples, pulled)
          /\ core1' = "pull"
       \/ /\ Len(trace_samples) >= RingCapacity
          /\ core1' = "drop"
          /\ UNCHANGED trace_samples
    /\ UNCHANGED <<rx_words, sm_blocked, rxstall, saw_stall,
                   trace_capture_enabled, pulled, bus_missed, counters>>

CountDrop ==
    /\ core1 = "drop"
    /\ trace_queue_drop_count' = WrapInc(trace_queue_drop_count)
    /\ drops' = CountUp(drops)
    /\ core1' = "pull"
    /\ UNCHANGED <<rx_words, sm_blocked, rxstall, saw_stall,
                   trace_capture_enabled, trace_samples, pulled, bus_missed,
                   trace_rxstall_count, stalls>>

\* stalled() reads RXSTALL ...
ReadStall ==
    /\ core1 = "stall_read"
    /\ saw_stall' = rxstall
    /\ core1' = "stall_clear"
    /\ UNCHANGED <<rx_words, sm_blocked, rxstall, sharedVars>>

\* Mutant: the flag is cleared but what it said is thrown away.
ClearStall_ResultIgnored ==
    /\ core1 = "stall_clear"
    /\ rxstall' = (sm_blocked /\ rx_words = FifoDepth)
    /\ core1' = "pull"
    /\ saw_stall' = FALSE
    /\ UNCHANGED <<rx_words, sm_blocked, sharedVars>>

\* ... and clears it; a push that still finds the FIFO full sets it again.
ClearStall ==
    /\ core1 = "stall_clear"
    /\ rxstall' = (sm_blocked /\ rx_words = FifoDepth)
    /\ core1' = IF saw_stall THEN "stall_count" ELSE "pull"
    /\ saw_stall' = FALSE
    /\ UNCHANGED <<rx_words, sm_blocked, sharedVars>>

CountStall ==
    /\ core1 = "stall_count"
    /\ trace_rxstall_count' = WrapInc(trace_rxstall_count)
    /\ stalls' = CountUp(stalls)
    /\ core1' = "pull"
    /\ UNCHANGED <<rx_words, sm_blocked, rxstall, saw_stall,
                   trace_capture_enabled, trace_samples, pulled, bus_missed,
                   trace_queue_drop_count, drops>>

Core1Step ==
    \/ TryPull \/ CheckGate \/ Enqueue \/ CountDrop
    \/ ReadStall \/ ClearStall \/ CountStall

CaptureNext == BusCycle \/ Unblock \/ Core1Step
=============================================================================
