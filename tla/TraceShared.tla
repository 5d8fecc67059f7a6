---------------------------- MODULE TraceShared ----------------------------
(***************************************************************************)
(* What the two RP2040 cores share (firmware/src/transport/transport_pio.rs *)
(* lines 33-40): the capture gate, the sample ring and the two loss         *)
(* counters.  A bus sample is its serial number: core1 numbers the samples  *)
(* it pulls from the PIO receive FIFO 1, 2, 3, ...  The value of a sample   *)
(* plays no part here (encode_trace_sample is the identity, line 358).      *)
(*                                                                          *)
(* Each access to a shared object is one step.  On the RP2040 the atomics   *)
(* are portable-atomic's, whose fetch_add runs in a critical section, and   *)
(* the ring is heapless::spsc, whose enqueue publishes a sample after it    *)
(* has been written.                                                        *)
(***************************************************************************)
EXTENDS Naturals, Sequences

CONSTANTS
    RingLen,     \* TRACE_SAMPLE_RING_LEN: heapless keeps one slot free
    CounterMod   \* values of the loss counters, 2^32 in the code

ASSUME RingLenAssumption == RingLen \in Nat /\ RingLen > 1
ASSUME CounterModAssumption == CounterMod \in Nat /\ CounterMod > 1

VARIABLES
    trace_capture_enabled,   \* core1 keeps the samples it pulls
    trace_samples,           \* the ring, oldest sample first
    trace_queue_drop_count,  \* samples that found the ring full
    trace_rxstall_count,     \* times core1 saw the PIO stalled
    \* history
    pulled,                  \* serial of the newest sample pulled
    drops,                   \* drops counted since the counter was zeroed
    stalls,                  \* stalls counted since the counter was zeroed
    bus_missed               \* the bus ran a cycle the PIO could not sample,
                             \* since the stall counter was zeroed

counters == <<trace_queue_drop_count, trace_rxstall_count, drops, stalls>>
sharedVars == <<trace_capture_enabled, trace_samples, pulled, bus_missed,
                counters>>

-----------------------------------------------------------------------------
RingCapacity == RingLen - 1

\* Mutant: an increment that does not wrap.
WrapInc_Unbounded(c) == c + 1

\* fetch_add(1) on a counter of the loss counters' width.
WrapInc(c) == IF c + 1 = CounterMod THEN 0 ELSE c + 1

\* The true count behind a counter, up to the point where the counter wraps.
CountUp(c) == IF c = CounterMod THEN c ELSE c + 1

\* PioTransport::new, before core1 is spawned.
SharedInit ==
    /\ trace_capture_enabled = TRUE
    /\ trace_samples = <<>>
    /\ trace_queue_drop_count = 0
    /\ trace_rxstall_count = 0
    /\ pulled = 0
    /\ drops = 0
    /\ stalls = 0
    /\ bus_missed = FALSE

SharedTypeOK ==
    /\ trace_capture_enabled \in BOOLEAN
    /\ trace_samples \in Seq(Nat)
    /\ trace_queue_drop_count \in 0..(CounterMod - 1)
    /\ trace_rxstall_count \in 0..(CounterMod - 1)
    /\ pulled \in Nat
    /\ drops \in 0..CounterMod
    /\ stalls \in 0..CounterMod
    /\ bus_missed \in BOOLEAN
=============================================================================
