-------------------------- MODULE CaptureInvariant --------------------------
(***************************************************************************)
(* Machine-checked proofs about CaptureSystem, for every value of its       *)
(* constants: that its states are well typed, the inductive invariant       *)
(* behind its safety properties, and that every step keeps the order of the *)
(* samples.                                                                 *)
(***************************************************************************)
EXTENDS CaptureSystem, SequenceTheorems, TLAPS

\* A poll that goes on to build or send a packet is within its burst.
WithinBurst ==
    core0 \in {"batch", "read_drops", "read_stalls", "send"} =>
        sent < OutgoingBurst

TypeInv == TypeOK /\ WithinBurst

-----------------------------------------------------------------------------
LEMMA CounterTypes ==
    ASSUME NEW c, NEW d
    PROVE  /\ c \in 0..(CounterMod - 1) => WrapInc(c) \in 0..(CounterMod - 1)
           /\ d \in 0..CounterMod => CountUp(d) \in 0..CounterMod
  BY CounterModAssumption DEF WrapInc, CountUp

LEMMA PacketTypes ==
    /\ NoPacket \in Packets
    /\ \A n \in 0..(SeqMod - 1) : telemetry(n) \in Packets
    /\ \A n \in 0..(SeqMod - 1), d, s \in 0..(CounterMod - 1),
          b \in Seq(Nat) : traceSamples(n, d, s, b) \in Packets
    /\ \A n \in 0..(SeqMod - 1),
          t \in {"Ping", "CaptureSet", "TelemetrySet", "Other", "Malformed"} :
          ackPacket(n, t) \in Packets /\ nackPacket(n, t) \in Packets
<1>1. NoPacket \in Packets
  BY DEF Packets
<1>2. ASSUME NEW n \in 0..(SeqMod - 1) PROVE telemetry(n) \in Packets
  BY DEF Packets, TelemetryPackets, telemetry
<1>3. ASSUME NEW n \in 0..(SeqMod - 1), NEW d \in 0..(CounterMod - 1),
             NEW s \in 0..(CounterMod - 1), NEW b \in Seq(Nat)
      PROVE  traceSamples(n, d, s, b) \in Packets
  BY DEF Packets, TracePackets, traceSamples
<1>4. ASSUME NEW n \in 0..(SeqMod - 1),
             NEW t \in {"Ping", "CaptureSet", "TelemetrySet", "Other",
                        "Malformed"}
      PROVE  ackPacket(n, t) \in Packets /\ nackPacket(n, t) \in Packets
  BY DEF Packets, Replies, ackPacket, nackPacket
<1> QED
  BY <1>1, <1>2, <1>3, <1>4

LEMMA TypeInit == Init => TypeInv
<1> SUFFICES ASSUME Init PROVE TypeInv
  OBVIOUS
<1>0. /\ 0 \in 0..(CounterMod - 1) /\ 0 \in 0..CounterMod
      /\ 0 \in 0..FifoDepth /\ 0 \in 0..MinSnapshotSamples
      /\ 0 \in 0..DecodeBurst /\ 0 \in 0..OutgoingBurst
      /\ 0 \in Nat /\ 1 \in 0..(SeqMod - 1)
  BY CounterModAssumption, FifoDepthAssumption, BurstAssumption,
     SnapshotAssumption, SeqAssumption
<1>1. SharedTypeOK
  BY <1>0, EmptySeq, Zenon DEF Init, SharedInit, SharedTypeOK
<1>2. Core1TypeOK
  BY <1>0, Zenon DEF Init, Core1Init, Core1TypeOK
<1>3. Core0TypeOK
  BY <1>0, EmptySeq, PacketTypes, Zenon DEF Init, Core0Init, Core0TypeOK
<1>4. WithinBurst
  BY DEF Init, Core0Init, WithinBurst
<1> QED
  BY <1>1, <1>2, <1>3, <1>4 DEF TypeInv, TypeOK

LEMMA TypeCore1 == TypeInv /\ Core1 => TypeInv'
<1> SUFFICES ASSUME TypeInv, Core1 PROVE TypeInv'
  OBVIOUS
<1> USE CounterModAssumption, FifoDepthAssumption
    DEF TypeInv, TypeOK, SharedTypeOK, Core1TypeOK, sharedVars, counters,
        core1Vars
<1>0. Core0TypeOK' /\ WithinBurst'
  BY DEF Core1, core0Vars, modes, stream, burst, history, Core0TypeOK,
         WithinBurst
<1>1. CASE PushSample
  BY <1>0, <1>1 DEF PushSample
<1>2. CASE BlockOnFullFifo
  BY <1>0, <1>2 DEF BlockOnFullFifo
<1>3. CASE MissCycle
  BY <1>0, <1>3 DEF MissCycle
<1>4. CASE Unblock
  <2>1. rx_words' \in 0..FifoDepth
    BY <1>4 DEF Unblock
  <2> QED
    BY <1>0, <1>4, <2>1, Zenon DEF Unblock
<1>5. CASE TryPull
  BY <1>0, <1>5 DEF TryPull
<1>6. CASE CheckGate
  BY <1>0, <1>6 DEF CheckGate
<1>7. CASE Enqueue
  <2>1. Append(trace_samples, pulled) \in Seq(Nat)
    BY AppendProperties, Zenon
  <2>2. trace_samples' \in Seq(Nat)
    BY <1>7, <2>1, Zenon DEF Enqueue
  <2> QED
    BY <1>0, <1>7, <2>2, Zenon DEF Enqueue
<1>8. CASE CountDrop
  BY <1>0, <1>8, CounterTypes DEF CountDrop
<1>9. CASE ReadStall
  BY <1>0, <1>9 DEF ReadStall
<1>10. CASE ClearStall
  BY <1>0, <1>10 DEF ClearStall
<1>11. CASE CountStall
  BY <1>0, <1>11, CounterTypes DEF CountStall
<1> QED
  BY <1>1, <1>2, <1>3, <1>4, <1>5, <1>6, <1>7, <1>8, <1>9, <1>10, <1>11
  DEF Core1, CaptureNext, BusCycle, Core1Step

LEMMA RequestTypes ==
    ASSUME NEW req \in Requests
    PROVE  /\ req.type \in {"Ping", "CaptureSet", "TelemetrySet", "Other",
                            "Malformed"}
           /\ req.seq \in 0..(SeqMod - 1)
           /\ req.on \in BOOLEAN
           /\ req.period \in Periods
  BY SeqAssumption DEF Requests

LEMMA TakeTypes ==
    ASSUME trace_samples \in Seq(Nat), first \in Nat, taken \in Nat, Take
    PROVE  /\ Head(trace_samples) \in Nat
           /\ trace_samples' \in Seq(Nat)
           /\ first' \in Nat /\ last' \in Nat /\ taken' \in Nat
  BY HeadTailProperties DEF Take

LEMMA TypeCore0 == TypeInv /\ Core0 => TypeInv'
<1> SUFFICES ASSUME TypeInv, Core0 PROVE TypeInv'
  OBVIOUS
<1> USE DEF TypeInv, TypeOK, SharedTypeOK, Core0TypeOK, WithinBurst,
            sharedVars, counters, modes, stream, burst, history
<1>0. Core1TypeOK'
  BY DEF Core0, core1Vars, Core1TypeOK
<1>n. /\ 0 \in 0..(CounterMod - 1) /\ 0 \in 0..CounterMod
      /\ 0 \in 0..MinSnapshotSamples /\ 0 \in 0..DecodeBurst
      /\ 0 \in 0..OutgoingBurst /\ 0 \in Nat
      /\ 0 \in 0..(SeqMod - 1) /\ 1 \in 0..(SeqMod - 1)
      /\ (packet_seq + 1) % SeqMod \in 0..(SeqMod - 1)
  BY CounterModAssumption, BurstAssumption, SnapshotAssumption, SeqAssumption
<1>1. CASE Connect
  BY <1>0, <1>1 DEF Connect
<1>2. CASE ReadError
  BY <1>0, <1>2 DEF ReadError
<1>3. CASE TimerOrRunt
  BY <1>0, <1>n, <1>3, Zenon DEF TimerOrRunt
<1>4. CASE ReadRequest
  <2> PICK req \in Requests :
           ReadOther(req) \/ CaptureSet(req) \/ TelemetrySet(req)
    BY <1>4 DEF ReadRequest
  <2>1. CASE ReadOther(req)
    <3>1. usb_in' \in Packets
      BY <2>1, <1>n, RequestTypes, PacketTypes DEF ReadOther, Reply
    <3> QED
      BY <1>0, <2>1, <3>1, ZenonT(30) DEF ReadOther, Reply
  <2>2. ASSUME NEW capture \in BOOLEAN, NEW telem \in BOOLEAN,
               NEW gate \in BOOLEAN,
               NEW name \in {"cap0", "cap1", "tel0", "tel1"},
               req.type \in {"CaptureSet", "TelemetrySet"},
               SetMode(req, capture, telem, gate, name),
               telemetry_period_ms' \in {DefaultPeriod} \cup Periods
        PROVE  TypeInv'
    <3>1. usb_in' \in Packets
      BY <2>2, RequestTypes, PacketTypes DEF SetMode
    <3> QED
      BY <1>0, <1>n, <2>2, <3>1, Zenon DEF SetMode
  <2>3. CASE CaptureSet(req)
    <3>1. CASE req.on
      BY <2>2, <2>3, <3>1, Zenon DEF CaptureSet
    <3>2. CASE ~req.on
      BY <2>2, <2>3, <3>2, RequestTypes, Zenon DEF CaptureSet
    <3> QED
      BY <3>1, <3>2
  <2>4. CASE TelemetrySet(req)
    <3>0. telemetry_period_ms' \in {DefaultPeriod} \cup Periods
      BY <2>4, RequestTypes DEF TelemetrySet
    <3>1. CASE req.on
      BY <2>2, <2>4, <3>0, <3>1, Zenon DEF TelemetrySet
    <3>2. CASE ~req.on
      BY <2>2, <2>4, <3>0, <3>2, RequestTypes, Zenon DEF TelemetrySet
    <3> QED
      BY <3>1, <3>2
  <2> QED
    BY <2>1, <2>3, <2>4
<1>5. CASE WriteReply
  BY <1>0, <1>n, <1>5, PacketTypes, Zenon DEF WriteReply
<1>6. CASE WriteStreamPacket
  <2>1. sent' \in 0..OutgoingBurst
    BY <1>6, BurstAssumption DEF WriteStreamPacket
  <2> QED
    BY <1>0, <1>6, <2>1, PacketTypes, Zenon DEF WriteStreamPacket
<1>7. CASE WriteError
  BY <1>0, <1>7, PacketTypes, Zenon DEF WriteError
<1>8. CASE ZeroDropCount
  BY <1>0, <1>n, <1>8, Zenon DEF ZeroDropCount
<1>9. CASE ZeroStallCount
  BY <1>0, <1>n, <1>9, Zenon DEF ZeroStallCount
<1>10. CASE ClearTraceSamples
  <2>1. trace_samples' \in Seq(Nat)
    BY <1>10, HeadTailProperties DEF ClearTraceSamples
  <2> QED
    BY <1>0, <1>10, <2>1, ZenonT(30) DEF ClearTraceSamples
<1>11. CASE IngestSample
  <2>1. /\ ingested' \in 0..MinSnapshotSamples
        /\ processed' \in 0..DecodeBurst
    BY <1>11, SnapshotAssumption, BurstAssumption DEF IngestSample
  <2>2. Take
    BY <1>11, Zenon DEF IngestSample
  <2> QED
    BY <1>0, <1>11, <2>1, <2>2, TakeTypes, Zenon DEF IngestSample
<1>12. CASE EndProcessing
  BY <1>0, <1>n, <1>12, Zenon DEF EndProcessing
<1>13. CASE PollNothing
  BY <1>0, <1>13 DEF PollNothing
<1>14. CASE PollTelemetry
  <2>1. usb_in' \in Packets /\ due_in' \in Nat /\ sent < OutgoingBurst
    BY <1>14, PacketTypes, PeriodAssumption DEF PollTelemetry
  <2> QED
    BY <1>0, <1>n, <1>14, <2>1, Zenon DEF PollTelemetry
<1>15. CASE PollCapture
  BY <1>0, <1>15 DEF PollCapture
<1>16. CASE TakeForBatch
  <2>1. Take
    BY <1>16, Zenon DEF TakeForBatch
  <2>2. batch' \in Seq(Nat)
    BY <1>16, <2>1, TakeTypes, AppendProperties DEF TakeForBatch
  <2> QED
    BY <1>0, <1>16, <2>1, <2>2, TakeTypes, Zenon DEF TakeForBatch
<1>17. CASE EndBatch
  BY <1>0, <1>17 DEF EndBatch
<1>18. CASE ReadDrops
  BY <1>0, <1>18 DEF ReadDrops
<1>19. CASE ReadStalls
  <2>1. usb_in' \in Packets
    BY <1>19, PacketTypes DEF ReadStalls
  <2> QED
    BY <1>0, <1>n, <1>19, <2>1, EmptySeq, Zenon DEF ReadStalls
<1>20. CASE Tick
  BY <1>0, <1>20 DEF Tick
<1> QED
  BY <1>1, <1>2, <1>3, <1>4, <1>5, <1>6, <1>7, <1>8, <1>9, <1>10, <1>11,
     <1>12, <1>13, <1>14, <1>15, <1>16, <1>17, <1>18, <1>19, <1>20
  DEF Core0, BridgeNext, Write, Core0Step

\* Every variable keeps to its type, for every ring, FIFO, burst and counter
\* size: capture and bridge handlers never leave their state spaces.
THEOREM TypeCorrect == Spec => []TypeOK
<1>1. TypeInv /\ UNCHANGED vars => TypeInv'
  BY DEF TypeInv, TypeOK, SharedTypeOK, Core1TypeOK, Core0TypeOK, WithinBurst,
         vars, sharedVars, counters, core1Vars, core0Vars, modes, stream,
         burst, history
<1>2. TypeInv /\ [Next]_vars => TypeInv'
  BY <1>1, TypeCore0, TypeCore1 DEF Next
<1> QED
  BY TypeInit, <1>2, PTL DEF Spec, TypeInv

-----------------------------------------------------------------------------
(* The inductive invariant, part by part.                                   *)

\* Core1 has pulled a sample it has not yet dealt with.
Holding == core1 \in {"gate", "enqueue", "drop"}

\* The newest sample core1 is done with.
Settled == IF Holding THEN pulled - 1 ELSE pulled

\* The ring, the samples taken from it and the sample core1 holds, in order.
RingOrder ==
    /\ \A i \in 1..Len(trace_samples) :
           1 <= trace_samples[i] /\ trace_samples[i] <= Settled
    /\ \A i, j \in 1..Len(trace_samples) :
           i < j => trace_samples[i] < trace_samples[j]
    /\ Holding => pulled >= 1

TakenOrder ==
    taken > 0 =>
        /\ first <= last /\ last <= Settled
        /\ \A i \in 1..Len(trace_samples) : last < trace_samples[i]

Epoch ==
    /\ mark <= pulled
    /\ Resetting => taken = 0
    /\ taken > 0 => first >= mark
    /\ ~Resetting => \A i \in 1..Len(trace_samples) : trace_samples[i] >= mark

\* The mode says what the flags and the gate are.
ModeFlags ==
    /\ capture_enabled <=> last_mode \in {"cap1", "tel0"}
    /\ telemetry_enabled <=> last_mode \in {"cap0", "tel1"}
    /\ trace_capture_enabled <=> last_mode \in {"none", "cap1", "tel1"}

Closed ==
    ~trace_capture_enabled /\ ~Resetting =>
        taken + Len(trace_samples) + InFlight <= 1

Snapshots ==
    /\ ingested <= taken
    /\ snapshot_valid => ingested = MinSnapshotSamples

Sending ==
    /\ usb_in.type \in {"TraceSample", "Telemetry"} => core0 = "send"
    /\ usb_in.type = "Telemetry" => last_mode = "tel1"

\* Every sample from the first kept on is taken, in the ring or counted as a
\* drop.  F is the first sample kept since the mode was set.
FirstKept == IF taken > 0 THEN first ELSE Head(trace_samples)

Accounted ==
    ~Resetting /\ drops < CounterMod =>
        /\ taken > 0 => last - first + 1 - taken <= drops
        /\ \A i \in 1..Len(trace_samples) :
               trace_samples[i] - FirstKept + 1 - (taken + i) <= drops
        /\ trace_capture_enabled /\ (taken > 0 \/ trace_samples # <<>>) =>
               Settled - FirstKept + 1 - (taken + Len(trace_samples)) <= drops

Reported ==
    /\ core0 = "batch" /\ batch # <<>> => taken > 0
    /\ core0 \in {"read_drops", "read_stalls"} => taken > 0
    /\ core0 = "read_stalls" /\ drops < CounterMod =>
           last - first + 1 - taken <= dropped_total
    /\ usb_in.type = "TraceSample" /\ drops < CounterMod =>
           last - first + 1 - taken <= usb_in.dropped_samples_total

Counters ==
    /\ drops < CounterMod => trace_queue_drop_count = drops
    /\ stalls < CounterMod => trace_rxstall_count = stalls

Stalls ==
    /\ saw_stall => core1 = "stall_clear"
    /\ sm_blocked /\ rx_words = FifoDepth => rxstall
    /\ core1 = "stall_clear" /\ rxstall /\ ~saw_stall =>
           sm_blocked /\ rx_words = FifoDepth
    /\ bus_missed =>
           stalls > 0 \/ rxstall \/ saw_stall \/ core1 = "stall_count"

IInv ==
    /\ TypeInv
    /\ RingOrder /\ TakenOrder /\ Epoch
    /\ ModeFlags /\ Closed /\ Snapshots /\ Sending
    /\ Accounted /\ Reported /\ Counters /\ Stalls


LEMMA TypeStep == TypeInv /\ [Next]_vars => TypeInv'
<1>1. TypeInv /\ UNCHANGED vars => TypeInv'
  BY DEF TypeInv, TypeOK, SharedTypeOK, Core1TypeOK, Core0TypeOK, WithinBurst,
         vars, sharedVars, counters, core1Vars, core0Vars, modes, stream,
         burst, history
<1> QED
  BY <1>1, TypeCore0, TypeCore1 DEF Next

KeepsMode ==
    /\ core0 = "select" /\ core0' = "reply"
    /\ usb_in'.type \in {"Ack", "Nack"}
    /\ UNCHANGED <<modes, stream, burst, history, sharedVars>>

NewMode ==
    /\ core0 = "select" /\ core0' = "zero_drop"
    /\ usb_in'.type = "Ack"
    /\ first' = 0 /\ last' = 0 /\ taken' = 0
    /\ ingested' = 0 /\ snapshot_valid' = FALSE
    /\ UNCHANGED <<burst, mark, trace_samples, pulled, bus_missed, counters>>
    /\ \/ /\ last_mode' \in {"cap1"} /\ capture_enabled' = TRUE
          /\ telemetry_enabled' = FALSE /\ trace_capture_enabled' = TRUE
       \/ /\ last_mode' \in {"cap0"} /\ capture_enabled' = FALSE
          /\ telemetry_enabled' = TRUE /\ trace_capture_enabled' = FALSE
       \/ /\ last_mode' \in {"tel1"} /\ capture_enabled' = FALSE
          /\ telemetry_enabled' = TRUE /\ trace_capture_enabled' = TRUE
       \/ /\ last_mode' \in {"tel0"} /\ capture_enabled' = TRUE
          /\ telemetry_enabled' = FALSE /\ trace_capture_enabled' = FALSE

LEMMA RequestEffect == ReadRequest => KeepsMode \/ NewMode
<1> SUFFICES ASSUME NEW req \in Requests,
                    ReadOther(req) \/ CaptureSet(req) \/ TelemetrySet(req)
             PROVE  KeepsMode \/ NewMode
  BY DEF ReadRequest
<1>1. CASE ReadOther(req)
  BY <1>1 DEF ReadOther, Reply, KeepsMode, ackPacket, nackPacket
<1>2. CASE CaptureSet(req)
  BY <1>2, RequestTypes DEF CaptureSet, SetMode, NewMode, ackPacket
<1>3. CASE TelemetrySet(req)
  BY <1>3, RequestTypes DEF TelemetrySet, SetMode, NewMode, ackPacket
<1> QED
  BY <1>1, <1>2, <1>3

LEMMA AppendFacts ==
    ASSUME trace_samples \in Seq(Nat), pulled \in Nat
    PROVE  LET n == Len(trace_samples)
               s == Append(trace_samples, pulled)
           IN  /\ n \in Nat /\ Len(s) = n + 1 /\ s[n + 1] = pulled
               /\ \A i \in 1..n : s[i] = trace_samples[i] /\ s[i] \in Nat
<1>1. /\ Len(trace_samples) \in Nat
      /\ \A i \in 1..Len(trace_samples) : trace_samples[i] \in Nat
  BY LenProperties, ElementOfSeq
<1>2. /\ Len(Append(trace_samples, pulled)) = Len(trace_samples) + 1
      /\ Append(trace_samples, pulled)[Len(trace_samples) + 1] = pulled
      /\ \A i \in 1..Len(trace_samples) :
             Append(trace_samples, pulled)[i] = trace_samples[i]
  BY AppendProperties
<1> QED
  BY <1>1, <1>2

\* What the order invariants ask of a step that adds or removes no sample.
LEMMA QuietOrder ==
    ASSUME TypeInv, TypeInv', RingOrder, TakenOrder, Epoch,
           UNCHANGED <<trace_samples, taken, first, last, mark>>,
           Settled <= Settled', pulled <= pulled', Holding' => pulled' >= 1,
           Resetting' <=> Resetting
    PROVE  (RingOrder /\ TakenOrder /\ Epoch)'
<1>0. /\ trace_samples \in Seq(Nat) /\ pulled \in Nat /\ pulled' \in Nat
      /\ first \in Nat /\ last \in Nat /\ taken \in Nat /\ mark \in Nat
  BY Zenon DEF TypeInv, TypeOK, SharedTypeOK, Core0TypeOK
<1>s. Settled \in Int /\ Settled' \in Int
  BY <1>0 DEF Settled
<1>1. \A i \in 1..Len(trace_samples) : trace_samples[i] \in Nat
  BY <1>0, ElementOfSeq
<1>2. RingOrder'
  BY <1>0, <1>s, <1>1 DEF RingOrder
<1>3. TakenOrder'
  BY <1>0, <1>s, <1>1 DEF TakenOrder
<1>4. Epoch'
  BY <1>0, <1>s, <1>1 DEF Epoch
<1> QED
  BY <1>2, <1>3, <1>4

\* Taking the oldest sample from the ring.
LEMMA TakeOrder ==
    ASSUME TypeInv, RingOrder, TakenOrder, Epoch, ~Resetting, Take,
           UNCHANGED <<pulled, mark, core0, core1>>
    PROVE  (RingOrder /\ TakenOrder /\ Epoch)'
<1> DEFINE s == trace_samples
           n == Len(trace_samples)
<1>0. /\ taken \in Nat /\ first \in Nat /\ last \in Nat /\ mark \in Nat
      /\ pulled \in Nat /\ Settled \in Int
  BY DEF TypeInv, TypeOK, SharedTypeOK, Core0TypeOK, Settled
<1>1. /\ s \in Seq(Nat) /\ s # <<>> /\ n \in Nat \ {0}
      /\ \A i \in 1..n : s[i] \in Nat
  BY ElementOfSeq, EmptySeq DEF Take, TypeInv, TypeOK, SharedTypeOK
<1>2. /\ Len(trace_samples') = n - 1
      /\ \A i \in 1..(n - 1) : trace_samples'[i] = s[i + 1]
      /\ Head(s) = s[1]
  BY <1>1, HeadTailProperties DEF Take
<1>3. /\ Settled' = Settled /\ (Holding' <=> Holding)
      /\ (Resetting' <=> Resetting)
      /\ taken' = taken + 1 /\ last' = s[1]
      /\ first' = IF taken = 0 THEN s[1] ELSE first
  BY <1>2 DEF Take, Settled, Holding, Resetting
<1> HIDE DEF s, n
<1>4. RingOrder'
  <2>1. \A i \in 1..(n - 1) : i + 1 \in 1..n
    BY <1>1
  <2>2. \A i \in 1..Len(trace_samples') :
            1 <= trace_samples'[i] /\ trace_samples'[i] <= Settled'
    BY <1>1, <1>2, <1>3, <2>1 DEF RingOrder, s, n
  <2>3. \A i, j \in 1..Len(trace_samples') :
            i < j => trace_samples'[i] < trace_samples'[j]
    <3> TAKE i, j \in 1..Len(trace_samples')
    <3> HAVE i < j
    <3>1. i + 1 \in 1..n /\ j + 1 \in 1..n /\ i + 1 < j + 1
      BY <1>1, <1>2
    <3>2. s[i + 1] < s[j + 1]
      BY <3>1 DEF RingOrder, s, n
    <3> QED
      BY <1>1, <1>2, <3>1, <3>2
  <2> QED
    BY <2>2, <2>3, <1>3 DEF RingOrder
<1>5. /\ first' <= last' /\ first' >= mark
      /\ last' <= Settled
  BY <1>0, <1>1, <1>3 DEF RingOrder, TakenOrder, Epoch, s, n
<1>6. \A i \in 1..(n - 1) : last' < trace_samples'[i] /\ s[i + 1] >= mark
  <2> TAKE i \in 1..(n - 1)
  <2>1. 1 \in 1..n /\ i + 1 \in 1..n /\ 1 < i + 1
    BY <1>1
  <2>2. s[1] < s[i + 1] /\ s[i + 1] >= mark
    BY <2>1 DEF RingOrder, Epoch, s, n
  <2> QED
    BY <1>2, <1>3, <2>1, <2>2
<1>7. TakenOrder'
  BY <1>2, <1>3, <1>5, <1>6 DEF TakenOrder
<1>8. Epoch'
  BY <1>0, <1>2, <1>3, <1>5, <1>6 DEF Epoch
<1> QED
  BY <1>4, <1>7, <1>8
LEMMA TypeFacts ==
    TypeInv =>
        /\ trace_samples \in Seq(Nat) /\ pulled \in Nat /\ taken \in Nat
        /\ first \in Nat /\ last \in Nat /\ mark \in Nat
  BY Zenon DEF TypeInv, TypeOK, SharedTypeOK, Core0TypeOK

LEMMA TailFacts ==
    ASSUME trace_samples \in Seq(Nat), trace_samples # <<>>
    PROVE  LET n == Len(trace_samples)
               t == Tail(trace_samples)
           IN  /\ n \in Nat /\ n >= 1 /\ Len(t) = n - 1
               /\ Head(trace_samples) = trace_samples[1]
               /\ \A i \in 1..(n - 1) : t[i] = trace_samples[i + 1]
               /\ \A i \in 1..n : trace_samples[i] \in Nat
<1>1. /\ Len(trace_samples) \in Nat /\ Len(trace_samples) >= 1
      /\ \A i \in 1..Len(trace_samples) : trace_samples[i] \in Nat
  BY EmptySeq, ElementOfSeq
<1> QED
  BY <1>1, HeadTailProperties

\* Adding the sample core1 holds.
LEMMA EnqueueOrder ==
    ASSUME TypeInv, RingOrder, TakenOrder, Epoch, Holding, ~Holding',
           trace_samples' = Append(trace_samples, pulled),
           UNCHANGED <<pulled, first, last, taken, mark>>,
           Resetting' <=> Resetting
    PROVE  (RingOrder /\ TakenOrder /\ Epoch)'
<1>0. /\ trace_samples \in Seq(Nat) /\ pulled \in Nat /\ taken \in Nat
      /\ first \in Nat /\ last \in Nat /\ mark \in Nat
  BY TypeFacts
<1> DEFINE n == Len(trace_samples)
<1>1. /\ n \in Nat /\ Len(trace_samples') = n + 1
      /\ trace_samples'[n + 1] = pulled
      /\ \A i \in 1..n : /\ trace_samples'[i] = trace_samples[i]
                         /\ trace_samples[i] \in Nat
  BY <1>0, AppendFacts
<1>2. /\ Settled = pulled - 1 /\ Settled' = pulled /\ pulled >= 1
  BY <1>0 DEF Settled, RingOrder
<1> HIDE DEF n
<1>4. \A i \in 1..(n + 1) : i \in 1..n \/ i = n + 1
  BY <1>1
<1>n. \A i \in 1..n : 1 <= trace_samples[i] /\ trace_samples[i] < pulled
  BY <1>1, <1>2, <1>0 DEF RingOrder, n
<1>5. RingOrder'
  <2>1. \A i \in 1..(n + 1) :
            1 <= trace_samples'[i] /\ trace_samples'[i] <= pulled
    BY <1>1, <1>2, <1>4, <1>n, <1>0
  <2>2. ASSUME NEW i \in 1..(n + 1), NEW j \in 1..(n + 1), i < j
        PROVE  trace_samples'[i] < trace_samples'[j]
    <3>1. i \in 1..n
      BY <1>1, <2>2
    <3>2. CASE j \in 1..n
      BY <1>1, <2>2, <3>1, <3>2 DEF RingOrder, n
    <3>3. CASE j = n + 1
      BY <1>1, <1>n, <3>1, <3>3
    <3> QED
      BY <1>4, <3>2, <3>3
  <2> QED
    BY <1>1, <1>2, <2>1, <2>2 DEF RingOrder
<1>6. TakenOrder'
  BY <1>1, <1>2, <1>4, <1>0 DEF TakenOrder, n
<1>7. Epoch'
  BY <1>1, <1>2, <1>4, <1>0 DEF Epoch, n
<1> QED
  BY <1>5, <1>6, <1>7

-----------------------------------------------------------------------------
(* Every step keeps the order.                                              *)

LEMMA StepOrder == IInv /\ [Next]_vars => (RingOrder /\ TakenOrder /\ Epoch)'
<1> SUFFICES ASSUME IInv, [Next]_vars PROVE (RingOrder /\ TakenOrder /\ Epoch)'
  OBVIOUS
<1> USE DEF vars, sharedVars, counters, core1Vars, core0Vars, modes, stream,
            burst, history
<1> USE DEF IInv, TypeInv, TypeOK, SharedTypeOK, Core1TypeOK, Core0TypeOK,
            RingOrder, TakenOrder, Epoch, Holding, Settled, Resetting
<1>t. TypeInv'
  BY TypeStep DEF IInv
<1>f. /\ trace_samples \in Seq(Nat) /\ pulled \in Nat /\ taken \in Nat
      /\ first \in Nat /\ last \in Nat /\ mark \in Nat
  BY TypeFacts DEF IInv
<1>0. CASE UNCHANGED vars
  BY <1>0
<1>1. CASE PushSample /\ UNCHANGED core0Vars
  BY <1>1 DEF PushSample
<1>2. CASE BlockOnFullFifo /\ UNCHANGED core0Vars
  BY <1>2 DEF BlockOnFullFifo
<1>3. CASE MissCycle /\ UNCHANGED core0Vars
  BY <1>3 DEF MissCycle
<1>4. CASE Unblock /\ UNCHANGED core0Vars
  BY <1>4 DEF Unblock
<1>5. CASE TryPull /\ UNCHANGED core0Vars
  <2>1. /\ UNCHANGED <<trace_samples, taken, first, last, mark>>
        /\ Settled <= Settled' /\ pulled <= pulled'
        /\ Holding' => pulled' >= 1
        /\ Resetting' <=> Resetting
    BY <1>5 DEF TryPull, Holding, Settled, Resetting
  <2> QED
    BY <1>t, <2>1, QuietOrder
<1>6. CASE CheckGate /\ UNCHANGED core0Vars
  <2>1. /\ UNCHANGED <<trace_samples, taken, first, last, mark>>
        /\ Settled <= Settled' /\ pulled <= pulled'
        /\ Holding' => pulled' >= 1
        /\ Resetting' <=> Resetting
    BY <1>6 DEF CheckGate, Holding, Settled, Resetting
  <2> QED
    BY <1>t, <2>1, QuietOrder
<1>7. CASE Enqueue /\ UNCHANGED core0Vars
  <2>1. CASE trace_samples' = trace_samples /\ core1' = "drop"
    <3>1. /\ UNCHANGED <<taken, first, last, mark>>
          /\ Settled <= Settled' /\ pulled <= pulled'
          /\ Holding' => pulled' >= 1
          /\ Resetting' <=> Resetting
      BY <1>7, <2>1 DEF Enqueue, Holding, Settled,
                        RingOrder, Resetting
    <3> QED
      BY <1>t, <2>1, <3>1, QuietOrder
  <2>2. CASE trace_samples' = Append(trace_samples, pulled) /\ core1' = "pull"
    <3>1. /\ Holding /\ ~Holding'
          /\ UNCHANGED <<pulled, first, last, taken, mark>>
          /\ Resetting' <=> Resetting
      BY <1>7, <2>2 DEF Enqueue, Resetting, Holding
    <3> QED
      BY <2>2, <3>1, EnqueueOrder, Zenon
  <2> QED
    BY <1>7, <2>1, <2>2, Zenon DEF Enqueue
<1>8. CASE CountDrop /\ UNCHANGED core0Vars
  <2>1. /\ UNCHANGED <<trace_samples, taken, first, last, mark>>
        /\ Settled <= Settled' /\ pulled <= pulled'
        /\ Holding' => pulled' >= 1
        /\ Resetting' <=> Resetting
    BY <1>8 DEF CountDrop, Holding, Settled, Resetting
  <2> QED
    BY <1>t, <2>1, QuietOrder
<1>9. CASE ReadStall /\ UNCHANGED core0Vars
  BY <1>9 DEF ReadStall
<1>10. CASE ClearStall /\ UNCHANGED core0Vars
  BY <1>10 DEF ClearStall
<1>11. CASE CountStall /\ UNCHANGED core0Vars
  BY <1>11 DEF CountStall
<1>12. CASE Connect /\ UNCHANGED core1Vars
  BY <1>12 DEF Connect
<1>13. CASE ReadError /\ UNCHANGED core1Vars
  BY <1>13 DEF ReadError
<1>14. CASE TimerOrRunt /\ UNCHANGED core1Vars
  BY <1>14 DEF TimerOrRunt
<1>15. CASE ReadRequest /\ UNCHANGED core1Vars
  <2>1. CASE KeepsMode
    BY <1>15, <2>1, QuietOrder, <1>t DEF KeepsMode
  <2>2. CASE NewMode
    BY <1>15, <2>2 DEF NewMode
  <2> QED
    BY <1>15, <2>1, <2>2, RequestEffect
<1>16. CASE WriteReply /\ UNCHANGED core1Vars
  BY <1>16 DEF WriteReply
<1>17. CASE WriteStreamPacket /\ UNCHANGED core1Vars
  BY <1>17 DEF WriteStreamPacket
<1>18. CASE WriteError /\ UNCHANGED core1Vars
  BY <1>18 DEF WriteError
<1>19. CASE ZeroDropCount /\ UNCHANGED core1Vars
  BY <1>19 DEF ZeroDropCount
<1>20. CASE ZeroStallCount /\ UNCHANGED core1Vars
  BY <1>20 DEF ZeroStallCount
<1>21. CASE ClearTraceSamples /\ UNCHANGED core1Vars
  <2>0. /\ UNCHANGED <<pulled, core1, first, last, taken>>
        /\ Resetting /\ taken = 0
    BY <1>21 DEF ClearTraceSamples, Resetting, Epoch
  <2>s. Settled' = Settled /\ (Holding' <=> Holding)
    BY <2>0 DEF Settled, Holding
  <2>1. CASE /\ trace_samples # <<>> /\ trace_samples' = Tail(trace_samples)
             /\ UNCHANGED <<core0, mark>>
    <3>1. /\ Len(trace_samples') = Len(trace_samples) - 1
          /\ Len(trace_samples) \in Nat
          /\ \A i \in 1..(Len(trace_samples) - 1) :
                 trace_samples'[i] = trace_samples[i + 1]
      BY <2>1, <1>f, TailFacts
    <3>2. RingOrder'
      <4>1. \A i \in 1..(Len(trace_samples) - 1) :
                i + 1 \in 1..Len(trace_samples)
        BY <3>1
      <4>2. ASSUME NEW i \in 1..(Len(trace_samples) - 1),
                   NEW j \in 1..(Len(trace_samples) - 1), i < j
            PROVE  trace_samples'[i] < trace_samples'[j]
        <5>1. i + 1 < j + 1
          BY <4>2
        <5> QED
          BY <3>1, <4>1, <5>1 DEF RingOrder
      <4> QED
        BY <3>1, <4>1, <4>2, <2>0, <2>s DEF RingOrder
    <3>3. TakenOrder' /\ Epoch'
      BY <2>0, <2>1 DEF TakenOrder, Epoch, Resetting
    <3> QED
      BY <3>2, <3>3
  <2>2. CASE trace_samples = <<>> /\ UNCHANGED trace_samples /\ mark' = pulled
    <3>1. Len(trace_samples') = 0
      BY <2>2
    <3> QED
      BY <1>f, <2>0, <2>s, <2>2, <3>1 DEF RingOrder, TakenOrder, Epoch
  <2> QED
    BY <1>21, <2>1, <2>2, Zenon DEF ClearTraceSamples
<1>22. CASE IngestSample /\ UNCHANGED core1Vars
  <2>1. Take /\ ~Resetting /\ UNCHANGED <<pulled, mark, core0, core1>>
    BY <1>22, Zenon DEF IngestSample, Resetting
  <2> QED
    BY <2>1, TakeOrder, Zenon
<1>23. CASE EndProcessing /\ UNCHANGED core1Vars
  BY <1>23 DEF EndProcessing
<1>24. CASE PollNothing /\ UNCHANGED core1Vars
  BY <1>24 DEF PollNothing
<1>25. CASE PollTelemetry /\ UNCHANGED core1Vars
  BY <1>25 DEF PollTelemetry
<1>26. CASE PollCapture /\ UNCHANGED core1Vars
  BY <1>26 DEF PollCapture
<1>27. CASE TakeForBatch /\ UNCHANGED core1Vars
  <2>1. Take /\ ~Resetting /\ UNCHANGED <<pulled, mark, core0, core1>>
    BY <1>27, Zenon DEF TakeForBatch, Resetting
  <2> QED
    BY <2>1, TakeOrder, Zenon
<1>28. CASE EndBatch /\ UNCHANGED core1Vars
  BY <1>28 DEF EndBatch
<1>29. CASE ReadDrops /\ UNCHANGED core1Vars
  BY <1>29 DEF ReadDrops
<1>30. CASE ReadStalls /\ UNCHANGED core1Vars
  BY <1>30 DEF ReadStalls
<1>31. CASE Tick /\ UNCHANGED core1Vars
  BY <1>31 DEF Tick
<1> QED
  BY <1>0, <1>1, <1>2, <1>3, <1>4, <1>5, <1>6, <1>7, <1>8, <1>9, <1>10, <1>11,
     <1>12, <1>13, <1>14, <1>15, <1>16, <1>17, <1>18, <1>19, <1>20, <1>21,
     <1>22, <1>23, <1>24, <1>25, <1>26, <1>27, <1>28, <1>29, <1>30, <1>31
  DEF Next, Core0, Core1, CaptureNext, BusCycle, Core1Step, BridgeNext, Write,
      Core0Step
=============================================================================
