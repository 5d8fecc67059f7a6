-------------------------- MODULE CaptureTheorems ---------------------------
(***************************************************************************)
(* The rest of the invariant's proof - the modes, the loss accounting and   *)
(* the stall flag - and the safety theorems of CaptureSystem.  Then the     *)
(* proof that the two-core firmware implements the bridge its host sees:    *)
(* IInv gives what the steps of BridgeDevice ask of a packet, that          *)
(* telemetry has an open gate behind it and that behind a closed one only   *)
(* one sample is left to send.                                              *)
(***************************************************************************)
EXTENDS CaptureRefinement, CaptureInvariant

-----------------------------------------------------------------------------
(* The modes and the gate.                                                 *)

LEMMA StepModes ==
    IInv /\ [Next]_vars =>
        (ModeFlags /\ Closed /\ Snapshots /\ Sending)'
<1> SUFFICES ASSUME IInv, [Next]_vars
             PROVE  (ModeFlags /\ Closed /\ Snapshots /\ Sending)'
  OBVIOUS
<1> USE DEF vars, sharedVars, counters, core1Vars, core0Vars, modes, stream,
            burst, history
<1> USE DEF IInv, TypeInv, TypeOK, SharedTypeOK, Core1TypeOK, Core0TypeOK,
            ModeFlags, Closed, Snapshots, Sending, Resetting, InFlight
<1>t. TypeInv'
  BY TypeStep DEF IInv
<1>0. CASE UNCHANGED vars
  BY <1>0
<1>1. CASE PushSample /\ UNCHANGED core0Vars
  BY <1>1 DEF PushSample
<1>2. CASE BlockOnFullFifo /\ UNCHANGED core0Vars
  BY <1>2 DEF BlockOnFullFifo
<1>3. CASE MissCycle /\ UNCHANGED core0Vars
  BY <1>3 DEF MissCycle
<1>4. CASE Unblock /\ UNCHANGED core0Vars
  BY <1>4 DEF Unblock
<1>5. CASE TryPull /\ UNCHANGED core0Vars
  BY <1>5 DEF TryPull
<1>6. CASE CheckGate /\ UNCHANGED core0Vars
  BY <1>6 DEF CheckGate
<1>7. CASE Enqueue /\ UNCHANGED core0Vars
  BY <1>7 DEF Enqueue
<1>8. CASE CountDrop /\ UNCHANGED core0Vars
  BY <1>8 DEF CountDrop
<1>9. CASE ReadStall /\ UNCHANGED core0Vars
  BY <1>9 DEF ReadStall
<1>10. CASE ClearStall /\ UNCHANGED core0Vars
  BY <1>10 DEF ClearStall
<1>11. CASE CountStall /\ UNCHANGED core0Vars
  BY <1>11 DEF CountStall
<1>12. CASE Connect /\ UNCHANGED core1Vars
  BY <1>12 DEF Connect
<1>13. CASE ReadError /\ UNCHANGED core1Vars
  BY <1>13 DEF ReadError
<1>14. CASE TimerOrRunt /\ UNCHANGED core1Vars
  BY <1>14 DEF TimerOrRunt
<1>15. CASE ReadRequest /\ UNCHANGED core1Vars
  <2>1. CASE KeepsMode
    BY <1>15, <2>1 DEF KeepsMode
  <2>2. CASE NewMode
    BY <1>15, <2>2 DEF NewMode
  <2> QED
    BY <1>15, <2>1, <2>2, RequestEffect
<1>16. CASE WriteReply /\ UNCHANGED core1Vars
  BY <1>16 DEF WriteReply, NoPacket
<1>17. CASE WriteStreamPacket /\ UNCHANGED core1Vars
  BY <1>17 DEF WriteStreamPacket, NoPacket
<1>18. CASE WriteError /\ UNCHANGED core1Vars
  BY <1>18 DEF WriteError, NoPacket
<1>19. CASE ZeroDropCount /\ UNCHANGED core1Vars
  BY <1>19 DEF ZeroDropCount
<1>20. CASE ZeroStallCount /\ UNCHANGED core1Vars
  BY <1>20 DEF ZeroStallCount
<1>21. CASE ClearTraceSamples /\ UNCHANGED core1Vars
  <2>1. CASE trace_samples # <<>> /\ UNCHANGED core0
    BY <1>21, <2>1 DEF ClearTraceSamples
  <2>2. CASE trace_samples = <<>> /\ UNCHANGED trace_samples
    <3>1. Len(trace_samples') = 0 /\ taken' = 0
      BY <1>21, <2>2 DEF ClearTraceSamples, Epoch
    <3> QED
      BY <1>21, <2>2, <3>1 DEF ClearTraceSamples
  <2> QED
    BY <1>21, <2>1, <2>2, ZenonT(30) DEF ClearTraceSamples
<1>22. CASE IngestSample /\ UNCHANGED core1Vars
  BY <1>22 DEF IngestSample, Take
<1>23. CASE EndProcessing /\ UNCHANGED core1Vars
  BY <1>23 DEF EndProcessing
<1>24. CASE PollNothing /\ UNCHANGED core1Vars
  BY <1>24 DEF PollNothing
<1>25. CASE PollTelemetry /\ UNCHANGED core1Vars
  <2>1. telemetry_enabled /\ snapshot_valid /\ core0 = "poll"
    BY <1>25 DEF PollTelemetry, TelemetryDue
  <2>2. taken > 1
    BY <2>1, SnapshotAssumption, TypeFacts
  <2>3. Len(trace_samples) \in Nat
    BY LenProperties, TypeFacts
  <2>4. last_mode = "tel1"
    BY <2>1, <2>2, <2>3
  <2> QED
    BY <1>25, <2>4 DEF PollTelemetry, telemetry
<1>26. CASE PollCapture /\ UNCHANGED core1Vars
  BY <1>26 DEF PollCapture
<1>27. CASE TakeForBatch /\ UNCHANGED core1Vars
  BY <1>27 DEF TakeForBatch, Take
<1>28. CASE EndBatch /\ UNCHANGED core1Vars
  BY <1>28 DEF EndBatch
<1>29. CASE ReadDrops /\ UNCHANGED core1Vars
  BY <1>29 DEF ReadDrops
<1>30. CASE ReadStalls /\ UNCHANGED core1Vars
  BY <1>30 DEF ReadStalls, traceSamples
<1>31. CASE Tick /\ UNCHANGED core1Vars
  BY <1>31 DEF Tick
<1> QED
  BY <1>0, <1>1, <1>2, <1>3, <1>4, <1>5, <1>6, <1>7, <1>8, <1>9, <1>10, <1>11,
     <1>12, <1>13, <1>14, <1>15, <1>16, <1>17, <1>18, <1>19, <1>20, <1>21,
     <1>22, <1>23, <1>24, <1>25, <1>26, <1>27, <1>28, <1>29, <1>30, <1>31
  DEF Next, Core0, Core1, CaptureNext, BusCycle, Core1Step, BridgeNext, Write,
      Core0Step

-----------------------------------------------------------------------------
(* The loss counters and the PIO's stall flag.                             *)

LEMMA StepStalls == IInv /\ [Next]_vars => (Counters /\ Stalls)'
<1> SUFFICES ASSUME IInv, [Next]_vars PROVE (Counters /\ Stalls)'
  OBVIOUS
<1> USE DEF vars, sharedVars, counters, core1Vars, core0Vars, modes, stream,
            burst, history
<1> USE DEF IInv, TypeInv, TypeOK, SharedTypeOK, Core1TypeOK, Core0TypeOK,
            Counters, Stalls
<1>t. TypeInv'
  BY TypeStep DEF IInv
<1>0. CASE UNCHANGED vars
  BY <1>0
<1>1. CASE PushSample /\ UNCHANGED core0Vars
  BY <1>1 DEF PushSample
<1>2. CASE BlockOnFullFifo /\ UNCHANGED core0Vars
  BY <1>2 DEF BlockOnFullFifo
<1>3. CASE MissCycle /\ UNCHANGED core0Vars
  BY <1>3 DEF MissCycle
<1>4. CASE Unblock /\ UNCHANGED core0Vars
  BY <1>4 DEF Unblock
<1>5. CASE TryPull /\ UNCHANGED core0Vars
  BY <1>5 DEF TryPull
<1>6. CASE CheckGate /\ UNCHANGED core0Vars
  BY <1>6 DEF CheckGate
<1>7. CASE Enqueue /\ UNCHANGED core0Vars
  BY <1>7 DEF Enqueue
<1>8. CASE CountDrop /\ UNCHANGED core0Vars
  BY <1>8, CounterModAssumption DEF CountDrop, WrapInc, CountUp
<1>9. CASE ReadStall /\ UNCHANGED core0Vars
  <2>1. /\ UNCHANGED <<rx_words, sm_blocked, rxstall, drops, stalls,
                       bus_missed, trace_queue_drop_count,
                       trace_rxstall_count>>
        /\ core1 = "stall_read" /\ core1' = "stall_clear"
        /\ saw_stall' = rxstall
    BY <1>9 DEF ReadStall
  <2>2. Counters'
    BY <2>1
  <2>3. stalls' > 0 <=> stalls > 0
    BY <2>1
  <2>4. rx_words' = FifoDepth <=> rx_words = FifoDepth
    BY <2>1
  <2>5. ~saw_stall /\ core1 # "stall_count"
    BY <2>1
  <2> QED
    BY <2>1, <2>2, <2>3, <2>4, <2>5, Zenon
<1>10. CASE ClearStall /\ UNCHANGED core0Vars
  BY <1>10 DEF ClearStall
<1>11. CASE CountStall /\ UNCHANGED core0Vars
  BY <1>11, CounterModAssumption DEF CountStall, WrapInc, CountUp
<1>12. CASE Connect /\ UNCHANGED core1Vars
  BY <1>12 DEF Connect
<1>13. CASE ReadError /\ UNCHANGED core1Vars
  BY <1>13 DEF ReadError
<1>14. CASE TimerOrRunt /\ UNCHANGED core1Vars
  BY <1>14 DEF TimerOrRunt
<1>15. CASE ReadRequest /\ UNCHANGED core1Vars
  <2>1. CASE KeepsMode
    BY <1>15, <2>1 DEF KeepsMode
  <2>2. CASE NewMode
    BY <1>15, <2>2 DEF NewMode
  <2> QED
    BY <1>15, <2>1, <2>2, RequestEffect
<1>16. CASE WriteReply /\ UNCHANGED core1Vars
  BY <1>16 DEF WriteReply
<1>17. CASE WriteStreamPacket /\ UNCHANGED core1Vars
  BY <1>17 DEF WriteStreamPacket
<1>18. CASE WriteError /\ UNCHANGED core1Vars
  BY <1>18 DEF WriteError
<1>19. CASE ZeroDropCount /\ UNCHANGED core1Vars
  BY <1>19 DEF ZeroDropCount
<1>20. CASE ZeroStallCount /\ UNCHANGED core1Vars
  BY <1>20 DEF ZeroStallCount
<1>21. CASE ClearTraceSamples /\ UNCHANGED core1Vars
  BY <1>21 DEF ClearTraceSamples
<1>22. CASE IngestSample /\ UNCHANGED core1Vars
  BY <1>22 DEF IngestSample, Take
<1>23. CASE EndProcessing /\ UNCHANGED core1Vars
  BY <1>23 DEF EndProcessing
<1>24. CASE PollNothing /\ UNCHANGED core1Vars
  BY <1>24 DEF PollNothing
<1>25. CASE PollTelemetry /\ UNCHANGED core1Vars
  BY <1>25 DEF PollTelemetry
<1>26. CASE PollCapture /\ UNCHANGED core1Vars
  BY <1>26 DEF PollCapture
<1>27. CASE TakeForBatch /\ UNCHANGED core1Vars
  BY <1>27 DEF TakeForBatch, Take
<1>28. CASE EndBatch /\ UNCHANGED core1Vars
  BY <1>28 DEF EndBatch
<1>29. CASE ReadDrops /\ UNCHANGED core1Vars
  BY <1>29 DEF ReadDrops
<1>30. CASE ReadStalls /\ UNCHANGED core1Vars
  BY <1>30 DEF ReadStalls
<1>31. CASE Tick /\ UNCHANGED core1Vars
  BY <1>31 DEF Tick
<1> QED
  BY <1>0, <1>1, <1>2, <1>3, <1>4, <1>5, <1>6, <1>7, <1>8, <1>9, <1>10, <1>11,
     <1>12, <1>13, <1>14, <1>15, <1>16, <1>17, <1>18, <1>19, <1>20, <1>21,
     <1>22, <1>23, <1>24, <1>25, <1>26, <1>27, <1>28, <1>29, <1>30, <1>31
  DEF Next, Core0, Core1, CaptureNext, BusCycle, Core1Step, BridgeNext, Write,
      Core0Step

-----------------------------------------------------------------------------
(* No sample is lost without being counted.                                *)

LEMMA DropTypes ==
    TypeInv => /\ drops \in 0..CounterMod /\ CounterMod \in Nat
               /\ trace_queue_drop_count \in 0..(CounterMod - 1)
               /\ dropped_total \in 0..(CounterMod - 1)
  BY CounterModAssumption, Zenon
     DEF TypeInv, TypeOK, SharedTypeOK, Core0TypeOK

\* A step that adds or removes no sample: core1 gets past a sample the gate
\* lets through only when it counts it.
LEMMA QuietLoss ==
    ASSUME TypeInv, TypeInv', Accounted,
           UNCHANGED <<trace_samples, taken, first, last>>,
           trace_capture_enabled' => trace_capture_enabled,
           Resetting' <=> Resetting,
           drops' < CounterMod => /\ drops < CounterMod /\ drops <= drops'
                                  /\ Settled' - Settled <= drops' - drops
    PROVE  Accounted'
<1>0. /\ trace_samples \in Seq(Nat) /\ pulled \in Nat /\ pulled' \in Nat
      /\ first \in Nat /\ last \in Nat /\ taken \in Nat
      /\ drops \in Int /\ drops' \in Int /\ CounterMod \in Nat
  <2>1. pulled' \in Nat /\ drops' \in 0..CounterMod
    BY Zenon DEF TypeInv, TypeOK, SharedTypeOK
  <2> QED
    BY <2>1, TypeFacts, DropTypes
<1>1. /\ \A i \in 1..Len(trace_samples) : trace_samples[i] \in Nat
      /\ Len(trace_samples) \in Nat
  BY <1>0, ElementOfSeq, LenProperties
<1>2. /\ trace_samples # <<>> => Head(trace_samples) \in Nat
      /\ FirstKept' = FirstKept
      /\ Settled \in Int /\ Settled' \in Int
  BY <1>0, <1>1, HeadTailProperties DEF FirstKept, Settled
<1> SUFFICES ASSUME ~Resetting, drops' < CounterMod
             PROVE  Accounted'
  BY DEF Accounted
<1>3. taken > 0 \/ trace_samples # <<>> => FirstKept \in Nat
  BY <1>0, <1>2 DEF FirstKept
<1>4. taken > 0 => last - first + 1 - taken <= drops'
  BY <1>0 DEF Accounted
<1>5. \A i \in 1..Len(trace_samples) :
          trace_samples[i] - FirstKept + 1 - (taken + i) <= drops'
  <2> TAKE i \in 1..Len(trace_samples)
  <2>1. trace_samples # <<>>
    BY <1>0, EmptySeq
  <2>2. trace_samples[i] - FirstKept + 1 - (taken + i) <= drops
    BY <1>0 DEF Accounted
  <2>3. /\ trace_samples[i] \in Nat /\ FirstKept \in Nat
        /\ drops <= drops'
    BY <1>1, <1>3, <2>1
  <2>4. i \in Int
    OBVIOUS
  <2> QED
    BY <1>0, <2>2, <2>3, <2>4
<1>6. trace_capture_enabled' /\ (taken > 0 \/ trace_samples # <<>>) =>
          Settled' - FirstKept + 1 - (taken + Len(trace_samples)) <= drops'
  <2> SUFFICES ASSUME trace_capture_enabled',
                      taken > 0 \/ trace_samples # <<>>
               PROVE  Settled' - FirstKept + 1 - (taken + Len(trace_samples))
                          <= drops'
    OBVIOUS
  <2>1. Settled - FirstKept + 1 - (taken + Len(trace_samples)) <= drops
    BY DEF Accounted
  <2>2. /\ Settled \in Int /\ Settled' \in Int /\ FirstKept \in Int
        /\ taken \in Int /\ Len(trace_samples) \in Int
        /\ drops \in Int /\ drops' \in Int
    BY <1>0, <1>1, <1>2, <1>3
  <2>3. Settled' - Settled <= drops' - drops
    OBVIOUS
  <2>4. \A a, b, f, t, n, d, e \in Int :
            a - f + 1 - (t + n) <= d /\ b - a <= e - d =>
                b - f + 1 - (t + n) <= e
    OBVIOUS
  <2> QED
    BY <2>1, <2>2, <2>3, <2>4, Zenon
<1> QED
  BY <1>2, <1>4, <1>5, <1>6 DEF Accounted

\* Taking a sample moves it from the ring to the taken ones.
LEMMA TakeLoss ==
    ASSUME TypeInv, Accounted, ~Resetting, Take,
           UNCHANGED <<pulled, drops, core0, core1, trace_capture_enabled>>
    PROVE  Accounted' /\ (drops < CounterMod =>
                              last' - first' + 1 - taken' <= drops)
<1> DEFINE s == trace_samples
           n == Len(trace_samples)
           F == FirstKept
<1>0. /\ s \in Seq(Nat) /\ pulled \in Nat
      /\ first \in Nat /\ last \in Nat /\ taken \in Nat
      /\ drops \in Int /\ CounterMod \in Nat
  BY TypeFacts, DropTypes
<1>1. /\ n \in Nat /\ n >= 1 /\ Len(trace_samples') = n - 1
      /\ Head(s) = s[1]
      /\ \A i \in 1..(n - 1) : trace_samples'[i] = s[i + 1]
      /\ \A i \in 1..n : s[i] \in Nat
      /\ s # <<>>
  BY <1>0, TailFacts DEF Take
<1>2. /\ Settled' = Settled /\ Settled \in Int
      /\ (Resetting' <=> Resetting)
      /\ taken' = taken + 1 /\ last' = s[1]
  BY <1>0, <1>1 DEF Take, Settled, Holding, Resetting
<1>3. F \in Nat /\ FirstKept' = F /\ first' = F
  BY <1>0, <1>1 DEF Take, FirstKept
<1>4. SUFFICES ASSUME drops < CounterMod
               PROVE  Accounted' /\ last' - first' + 1 - taken' <= drops
  BY <1>2 DEF Accounted
<1>5. /\ \A i \in 1..n : s[i] - F + 1 - (taken + i) <= drops
      /\ trace_capture_enabled => Settled - F + 1 - (taken + n) <= drops
  BY <1>1, <1>4 DEF Accounted
<1> HIDE DEF s, n, F
<1>6. last' - first' + 1 - taken' <= drops
  <2>1. 1 \in 1..n
    BY <1>1
  <2>2. s[1] - F + 1 - (taken + 1) <= drops
    BY <1>5, <2>1
  <2> QED
    BY <1>2, <1>3, <2>2
<1>7. \A i \in 1..(n - 1) :
          trace_samples'[i] - F + 1 - (taken' + i) <= drops
  <2> TAKE i \in 1..(n - 1)
  <2>1. i + 1 \in 1..n
    BY <1>1
  <2>2. s[i + 1] - F + 1 - (taken + (i + 1)) <= drops
    BY <1>5, <2>1
  <2>3. s[i + 1] \in Nat /\ trace_samples'[i] = s[i + 1] /\ i \in Nat
    BY <1>1, <2>1
  <2> QED
    BY <1>0, <1>2, <1>3, <2>2, <2>3
<1>8. trace_capture_enabled =>
          Settled' - F + 1 - (taken' + (n - 1)) <= drops
  BY <1>0, <1>1, <1>2, <1>3, <1>5
<1> QED
  BY <1>1, <1>3, <1>6, <1>7, <1>8 DEF Accounted

\* Adding the sample core1 holds.  If the gate has closed meanwhile it is the
\* first one kept.
LEMMA EnqueueLoss ==
    ASSUME TypeInv, Accounted, Closed, core1 = "enqueue", ~Holding',
           trace_samples' = Append(trace_samples, pulled),
           UNCHANGED <<pulled, drops, core0, first, last, taken,
                       trace_capture_enabled>>
    PROVE  Accounted'
<1> DEFINE s == trace_samples
           n == Len(trace_samples)
           F == FirstKept
<1>0. /\ s \in Seq(Nat) /\ pulled \in Nat
      /\ first \in Nat /\ last \in Nat /\ taken \in Nat
      /\ drops \in Int /\ drops >= 0 /\ CounterMod \in Nat
  BY TypeFacts, DropTypes
<1>1. /\ n \in Nat /\ Len(trace_samples') = n + 1
      /\ trace_samples'[n + 1] = pulled
      /\ \A i \in 1..n : trace_samples'[i] = s[i] /\ s[i] \in Nat
  BY <1>0, AppendFacts
<1>2. /\ Settled = pulled - 1 /\ Settled' = pulled
      /\ (Resetting' <=> Resetting)
      /\ trace_samples' # <<>> /\ (n = 0 <=> s = <<>>)
  BY <1>0, <1>1, EmptySeq, AppendProperties DEF Settled, Holding, Resetting
<1>3. SUFFICES ASSUME ~Resetting, drops < CounterMod
               PROVE  Accounted'
  BY <1>2 DEF Accounted
<1>4. /\ n > 0 => Head(s) = s[1] /\ Head(trace_samples') = s[1] /\ s[1] \in Nat
      /\ n = 0 => Head(trace_samples') = pulled
  BY <1>0, <1>1, <1>2, HeadTailProperties
<1>5. taken > 0 => last - first + 1 - taken <= drops
  BY <1>3 DEF Accounted
<1>6. CASE taken > 0 \/ n > 0
  <2>1. FirstKept' = F /\ F \in Nat
    BY <1>0, <1>4, <1>6 DEF FirstKept
  <2>2. \A i \in 1..n : s[i] - F + 1 - (taken + i) <= drops
    BY <1>3 DEF Accounted
  <2>3. trace_capture_enabled
    BY <1>0, <1>1, <1>3, <1>6 DEF Closed, InFlight
  <2>4. Settled - F + 1 - (taken + n) <= drops
    BY <1>2, <1>3, <1>6, <2>3, <1>0 DEF Accounted
  <2> HIDE DEF s, n, F
  <2>5. pulled - F + 1 - (taken + (n + 1)) <= drops
    BY <1>0, <1>1, <1>2, <2>1, <2>4
  <2>6. \A i \in 1..(n + 1) :
            trace_samples'[i] - F + 1 - (taken + i) <= drops
    <3> TAKE i \in 1..(n + 1)
    <3>1. CASE i \in 1..n
      BY <1>1, <2>2, <3>1
    <3>2. CASE i = n + 1
      BY <1>1, <2>5, <3>2
    <3> QED
      BY <1>1, <3>1, <3>2
  <2> QED
    BY <1>1, <1>2, <1>5, <2>1, <2>5, <2>6 DEF Accounted
<1>7. CASE taken = 0 /\ n = 0
  <2>1. FirstKept' = pulled
    BY <1>4, <1>7 DEF FirstKept
  <2>2. \A i \in 1..1 : trace_samples'[i] = pulled
    BY <1>1, <1>7
  <2> HIDE DEF s, n, F
  <2>3. /\ Len(trace_samples') = 1
        /\ \A i \in 1..1 :
               trace_samples'[i] - pulled + 1 - (taken + i) <= drops
        /\ pulled - pulled + 1 - (taken + 1) <= drops
    BY <1>0, <1>1, <1>7, <2>2
  <2> QED
    BY <1>2, <1>5, <1>7, <2>1, <2>3 DEF Accounted
<1> QED
  BY <1>0, <1>1, <1>6, <1>7

LEMMA SettledInt == TypeInv => Settled \in Int /\ Settled - Settled = 0
  BY TypeFacts DEF Settled

LEMMA StepLoss == IInv /\ [Next]_vars => (Accounted /\ Reported)'
<1> SUFFICES ASSUME IInv, [Next]_vars PROVE (Accounted /\ Reported)'
  OBVIOUS
<1> USE DEF vars, sharedVars, counters, core1Vars, core0Vars, modes, stream,
            burst, history
<1> USE DEF IInv, TypeInv, TypeOK, SharedTypeOK, Core1TypeOK, Core0TypeOK,
            Accounted, Reported, Resetting, Settled, Holding, FirstKept
<1>t. TypeInv'
  BY TypeStep DEF IInv
<1>0. CASE UNCHANGED vars
  BY <1>0
<1>1. CASE PushSample /\ UNCHANGED core0Vars
  BY <1>1 DEF PushSample
<1>2. CASE BlockOnFullFifo /\ UNCHANGED core0Vars
  BY <1>2 DEF BlockOnFullFifo
<1>3. CASE MissCycle /\ UNCHANGED core0Vars
  BY <1>3 DEF MissCycle
<1>4. CASE Unblock /\ UNCHANGED core0Vars
  BY <1>4 DEF Unblock
<1>5. CASE TryPull /\ UNCHANGED core0Vars
  <2>1. /\ UNCHANGED <<trace_samples, taken, first, last, drops, core0,
                       trace_capture_enabled, batch, usb_in, dropped_total>>
    BY <1>5 DEF TryPull
  <2>3. ~Holding /\ Settled = pulled
    BY <1>5 DEF TryPull
  <2>4. \/ core1' = "gate" /\ pulled' = pulled + 1
        \/ core1' = "stall_read" /\ pulled' = pulled
    BY <1>5 DEF TryPull
  <2>5. Settled' = Settled
    <3>1. CASE core1' = "gate" /\ pulled' = pulled + 1
      <4>1. Settled' = pulled' - 1 /\ pulled \in Nat
        BY <3>1, TypeFacts
      <4> QED
        BY <2>3, <3>1, <4>1
    <3>2. CASE core1' = "stall_read" /\ pulled' = pulled
      BY <2>3, <3>2
    <3> QED
      BY <2>4, <3>1, <3>2
  <2>2. Accounted'
    BY <1>t, <2>1, <2>5, QuietLoss, SettledInt
  <2> QED
    BY <2>1, <2>2
<1>6. CASE CheckGate /\ UNCHANGED core0Vars
  BY <1>6 DEF CheckGate
<1>7. CASE Enqueue /\ UNCHANGED core0Vars
  <2>0. /\ UNCHANGED <<taken, first, last, drops, core0, pulled,
                       trace_capture_enabled, batch, usb_in, dropped_total>>
        /\ core1 = "enqueue"
    BY <1>7 DEF Enqueue
  <2>1. CASE trace_samples' = Append(trace_samples, pulled) /\ core1' = "pull"
    <3>1. Accounted'
      BY <2>0, <2>1, EnqueueLoss
    <3> QED
      BY <2>0, <3>1
  <2>2. CASE core1' = "drop" /\ UNCHANGED trace_samples
    <3>1. Accounted'
      BY <1>t, <2>0, <2>2, QuietLoss, SettledInt
    <3> QED
      BY <2>0, <3>1
  <2> QED
    BY <1>7, <2>1, <2>2 DEF Enqueue
<1>8. CASE CountDrop /\ UNCHANGED core0Vars
  <2>1. /\ UNCHANGED <<trace_samples, taken, first, last, core0, pulled,
                       trace_capture_enabled, batch, usb_in, dropped_total>>
        /\ drops' = CountUp(drops)
        /\ core1 = "drop" /\ core1' = "pull"
    BY <1>8 DEF CountDrop
  <2>2. Settled' = Settled + 1
    BY <2>1
  <2>3. drops' < CounterMod => drops' = drops + 1 /\ drops < CounterMod
    BY <2>1, DropTypes DEF CountUp
  <2>4. Accounted'
    BY <1>t, <2>1, <2>2, <2>3, QuietLoss, SettledInt, DropTypes
  <2>5. Reported'
    BY <2>1, <2>3, DropTypes
  <2> QED
    BY <2>4, <2>5
<1>9. CASE ReadStall /\ UNCHANGED core0Vars
  BY <1>9 DEF ReadStall
<1>10. CASE ClearStall /\ UNCHANGED core0Vars
  BY <1>10 DEF ClearStall
<1>11. CASE CountStall /\ UNCHANGED core0Vars
  BY <1>11 DEF CountStall
<1>12. CASE Connect /\ UNCHANGED core1Vars
  BY <1>12 DEF Connect
<1>13. CASE ReadError /\ UNCHANGED core1Vars
  BY <1>13 DEF ReadError
<1>14. CASE TimerOrRunt /\ UNCHANGED core1Vars
  BY <1>14 DEF TimerOrRunt
<1>15. CASE ReadRequest /\ UNCHANGED core1Vars
  <2>1. CASE KeepsMode
    BY <1>15, <2>1 DEF KeepsMode
  <2>2. CASE NewMode
    BY <1>15, <2>2 DEF NewMode
  <2> QED
    BY <1>15, <2>1, <2>2, RequestEffect
<1>16. CASE WriteReply /\ UNCHANGED core1Vars
  BY <1>16 DEF WriteReply, NoPacket
<1>17. CASE WriteStreamPacket /\ UNCHANGED core1Vars
  BY <1>17 DEF WriteStreamPacket, NoPacket
<1>18. CASE WriteError /\ UNCHANGED core1Vars
  BY <1>18 DEF WriteError, NoPacket
<1>19. CASE ZeroDropCount /\ UNCHANGED core1Vars
  BY <1>19 DEF ZeroDropCount, Sending
<1>20. CASE ZeroStallCount /\ UNCHANGED core1Vars
  BY <1>20 DEF ZeroStallCount
<1>21. CASE ClearTraceSamples /\ UNCHANGED core1Vars
  <2>0. UNCHANGED <<usb_in, first, last, taken, drops>> /\ taken = 0 /\ core0 =
  "clear"
    BY <1>21 DEF ClearTraceSamples, Epoch
  <2>1. CASE UNCHANGED core0
    BY <2>0, <2>1, Zenon DEF Sending
  <2>2. CASE trace_samples = <<>> /\ UNCHANGED trace_samples
    <3>1. Len(trace_samples') = 0 /\ core0' = "reply"
      BY <1>21, <2>2 DEF ClearTraceSamples
    <3> QED
      BY <2>0, <2>2, <3>1 DEF Sending
  <2> QED
    BY <1>21, <2>1, <2>2, ZenonT(30) DEF ClearTraceSamples
<1>22. CASE IngestSample /\ UNCHANGED core1Vars
  <2>1. /\ UNCHANGED <<drops, core0, pulled, core1, trace_capture_enabled,
                       usb_in, dropped_total>>
        /\ core0 = "process" /\ Take
    BY <1>22 DEF IngestSample
  <2>2. Accounted' /\ (drops < CounterMod =>
                           last' - first' + 1 - taken' <= drops)
    BY <2>1, TakeLoss
  <2>3. usb_in.type # "TraceSample"
    BY <2>1 DEF Sending
  <2> QED
    BY <2>1, <2>2, <2>3
<1>23. CASE EndProcessing /\ UNCHANGED core1Vars
  BY <1>23 DEF EndProcessing
<1>24. CASE PollNothing /\ UNCHANGED core1Vars
  BY <1>24 DEF PollNothing
<1>25. CASE PollTelemetry /\ UNCHANGED core1Vars
  BY <1>25 DEF PollTelemetry, telemetry
<1>26. CASE PollCapture /\ UNCHANGED core1Vars
  BY <1>26 DEF PollCapture
<1>27. CASE TakeForBatch /\ UNCHANGED core1Vars
  <2>1. /\ UNCHANGED <<drops, core0, pulled, core1, trace_capture_enabled,
                       usb_in, dropped_total>>
        /\ core0 = "batch" /\ Take
    BY <1>27 DEF TakeForBatch
  <2>2. Accounted'
    BY <2>1, TakeLoss
  <2>3. usb_in.type # "TraceSample"
    BY <2>1 DEF Sending
  <2>4. taken' > 0
    BY <2>1, TypeFacts DEF Take
  <2> QED
    BY <2>1, <2>2, <2>3, <2>4
<1>28. CASE EndBatch /\ UNCHANGED core1Vars
  BY <1>28 DEF EndBatch
<1>29. CASE ReadDrops /\ UNCHANGED core1Vars
  BY <1>29 DEF ReadDrops, Counters
<1>30. CASE ReadStalls /\ UNCHANGED core1Vars
  BY <1>30 DEF ReadStalls, traceSamples
<1>31. CASE Tick /\ UNCHANGED core1Vars
  BY <1>31 DEF Tick
<1> QED
  BY <1>0, <1>1, <1>2, <1>3, <1>4, <1>5, <1>6, <1>7, <1>8, <1>9, <1>10, <1>11,
     <1>12, <1>13, <1>14, <1>15, <1>16, <1>17, <1>18, <1>19, <1>20, <1>21,
     <1>22, <1>23, <1>24, <1>25, <1>26, <1>27, <1>28, <1>29, <1>30, <1>31
  DEF Next, Core0, Core1, CaptureNext, BusCycle, Core1Step, BridgeNext, Write,
      Core0Step

-----------------------------------------------------------------------------
(* The theorems.                                                            *)

LEMMA InvInit == Init => IInv
<1> SUFFICES ASSUME Init PROVE IInv
  OBVIOUS
<1>1. TypeInv
  BY TypeInit
<1>2. /\ trace_samples = <<>> /\ pulled = 0 /\ taken = 0 /\ core1 = "pull"
      /\ core0 = "offline" /\ mark = 0 /\ usb_in = NoPacket
      /\ last_mode = "none" /\ ingested = 0
      /\ drops = 0 /\ stalls = 0
      /\ trace_queue_drop_count = 0 /\ trace_rxstall_count = 0
      /\ saw_stall = FALSE /\ sm_blocked = FALSE /\ rxstall = FALSE
      /\ bus_missed = FALSE /\ trace_capture_enabled = TRUE
      /\ capture_enabled = FALSE /\ telemetry_enabled = FALSE
      /\ snapshot_valid = FALSE
  BY DEF Init, SharedInit, Core1Init, Core0Init
<1>3. Len(trace_samples) = 0
  BY <1>2
<1>4. RingOrder /\ TakenOrder /\ Epoch
  BY <1>2, <1>3 DEF RingOrder, TakenOrder, Epoch, Holding
<1>5. ModeFlags /\ Snapshots
  BY <1>2 DEF ModeFlags, Snapshots
<1>6. Closed /\ Accounted
  BY <1>2, <1>3 DEF Closed, Accounted
<1>7. Sending /\ Reported
  BY <1>2 DEF Sending, Reported, NoPacket
<1>8. Counters /\ Stalls
  BY <1>2 DEF Counters, Stalls
<1> QED
  BY <1>1, <1>4, <1>5, <1>6, <1>7, <1>8 DEF IInv

LEMMA InvStep == IInv /\ [Next]_vars => IInv'
  BY TypeStep, StepOrder, StepModes, StepStalls, StepLoss DEF IInv

\* The inductive invariant holds of every behaviour of the firmware.
THEOREM Invariance == Spec => []IInv
  BY InvInit, InvStep, PTL DEF Spec

\* Samples stay in bus order from the FIFO to the host, and none is taken
\* twice, whatever resets and requests come between.
THEOREM OrderKept == Spec => []StreamInOrder
<1>1. IInv => StreamInOrder
  <2> SUFFICES ASSUME IInv PROVE StreamInOrder
    OBVIOUS
  <2>1. taken > 0 /\ trace_samples # <<>> => last < Head(trace_samples)
    <3> SUFFICES ASSUME taken > 0, trace_samples # <<>>
                 PROVE  last < Head(trace_samples)
      OBVIOUS
    <3>1. trace_samples \in Seq(Nat)
      BY TypeFacts DEF IInv
    <3>2. 1 \in 1..Len(trace_samples) /\ Head(trace_samples) = trace_samples[1]
      BY <3>1, TailFacts
    <3> QED
      BY <3>2 DEF IInv, TakenOrder
  <2> QED
    BY <2>1 DEF IInv, RingOrder, StreamInOrder
<1> QED
  BY <1>1, Invariance, PTL

\* Samples of an earlier mode never reach the host under a new one, but for
\* the one core1 held when the ring was cleared.
THEOREM EpochsSeparate == Spec => []EpochFresh
<1>1. IInv => EpochFresh
  BY DEF IInv, Epoch, EpochFresh
<1> QED
  BY <1>1, Invariance, PTL

\* A command that closes the gate lets at most one more sample through.
THEOREM GateCloses == Spec => []QuietAfterOff
<1>1. IInv => QuietAfterOff
  BY DEF IInv, ModeFlags, Closed, QuietAfterOff
<1> QED
  BY <1>1, Invariance, PTL

\* Telemetry goes only to a host that asked for it, although CAPTURE_SET(0)
\* sets the flag too.
THEOREM TelemetryAsked == Spec => []TelemetryOnlyWhenAsked
<1>1. IInv => TelemetryOnlyWhenAsked
  BY DEF IInv, Sending, TelemetryOnlyWhenAsked
<1> QED
  BY <1>1, Invariance, PTL

\* Whatever core1 drops between two samples sent to the host is in the total
\* that is sent with them, unless 2^32 drops wrap the counter.
THEOREM LossReported == Spec => []NoSilentLoss
<1>1. IInv => NoSilentLoss
  BY DEF IInv, Reported, NoSilentLoss
<1> QED
  BY <1>1, Invariance, PTL

\* A bus cycle the PIO misses is never forgotten by the non-atomic read and
\* clear of RXSTALL.
THEOREM StallReported == Spec => []MissesReported
<1>1. IInv => MissesReported
  <2> SUFFICES ASSUME IInv, bus_missed, stalls # CounterMod
               PROVE  \/ trace_rxstall_count > 0 \/ rxstall \/ saw_stall
                      \/ core1 = "stall_count"
    BY DEF MissesReported
  <2>1. stalls \in 0..CounterMod /\ CounterMod \in Nat
    BY CounterModAssumption, Zenon DEF IInv, TypeInv, TypeOK, SharedTypeOK
  <2>2. trace_rxstall_count = stalls
    BY <2>1 DEF IInv, Counters
  <2> QED
    BY <2>2 DEF IInv, Stalls
<1> QED
  BY <1>1, Invariance, PTL

-----------------------------------------------------------------------------
(* The bridge its host sees.                                               *)

\* A batch is made under capture, is not empty once its counters are loaded,
\* and is gone when its packet is on the way.  Nothing is written meanwhile.
Batching ==
    /\ core0 \in {"batch", "read_drops", "read_stalls"} => capture_enabled
    /\ core0 \in {"read_drops", "read_stalls"} => batch # <<>>
    /\ batch # <<>> => core0 \in {"batch", "read_drops", "read_stalls"}
    /\ core0 \in {"offline", "select", "process", "poll", "batch",
                  "read_drops", "read_stalls"} => usb_in = NoPacket

-----------------------------------------------------------------------------
LEMMA BatchingInit == Init => Batching
  BY DEF Init, Core0Init, Batching

LEMMA BatchingStep == IInv /\ Batching /\ [Next]_vars => Batching'
<1> SUFFICES ASSUME IInv, Batching, [Next]_vars PROVE Batching'
  OBVIOUS
<1> USE DEF Batching, vars, core0Vars, modes, stream, burst, history
<1>0. CASE UNCHANGED vars \/ Core1
  BY <1>0 DEF Core1
<1>1. CASE Connect \/ ReadError \/ TimerOrRunt
  BY <1>1 DEF Connect, ReadError, TimerOrRunt
<1>2. CASE ReadRequest
  BY <1>2, RequestEffect DEF KeepsMode, NewMode
<1>3. CASE Write \/ WriteError
  BY <1>3 DEF Write, WriteReply, WriteStreamPacket, WriteError
<1>4. CASE ZeroDropCount \/ ZeroStallCount \/ ClearTraceSamples
  BY <1>4 DEF ZeroDropCount, ZeroStallCount, ClearTraceSamples
<1>5. CASE IngestSample \/ EndProcessing
  BY <1>5 DEF IngestSample, EndProcessing
<1>6. CASE PollNothing \/ PollTelemetry \/ PollCapture
  BY <1>6 DEF PollNothing, PollTelemetry, PollCapture
<1>7. CASE TakeForBatch
  BY <1>7 DEF TakeForBatch
<1>8. CASE EndBatch
  BY <1>8 DEF EndBatch
<1>9. CASE ReadDrops \/ ReadStalls \/ Tick
  BY <1>9 DEF ReadDrops, ReadStalls, Tick
<1> QED
  BY <1>0, <1>1, <1>2, <1>3, <1>4, <1>5, <1>6, <1>7, <1>8, <1>9
  DEF Next, Core0, BridgeNext, Core0Step

-----------------------------------------------------------------------------
(* What the host sees of a step.                                            *)

\* Nothing at all.
Unseen ==
    /\ Phase' = Phase /\ BurstSoFar' = BurstSoFar
    /\ (Straggler' <=> Straggler) /\ UNCHANGED usb_in
    /\ UNCHANGED <<capture_enabled, telemetry_enabled, trace_capture_enabled>>

LEMMA UnseenStutters == Unseen => UNCHANGED Bridge!deviceVars
<1> SUFFICES ASSUME Unseen PROVE UNCHANGED Bridge!deviceVars
  OBVIOUS
<1>1. PacketSeen' = PacketSeen
  BY DEF Unseen, PacketSeen
<1>2. Straggler' = Straggler
  BY DEF Unseen, Straggler
<1> QED
  BY <1>1, <1>2 DEF Unseen, Bridge!deviceVars, Bridge!mode

LEMMA Core1Unseen == Core1 => Unseen
<1> SUFFICES ASSUME Core1 PROVE Unseen
  OBVIOUS
<1>1. UNCHANGED core0Vars
  BY DEF Core1
<1>2. UNCHANGED trace_capture_enabled
  BY DEF Core1, CaptureNext, BusCycle, Core1Step, PushSample, BlockOnFullFifo,
         MissCycle, Unblock, TryPull, CheckGate, Enqueue, CountDrop,
         ReadStall, ClearStall, CountStall, sharedVars, counters
<1> QED
  BY <1>1, <1>2 DEF Unseen, Phase, BurstSoFar, Straggler, core0Vars, modes,
                    stream, burst, history

LEMMA ResetUnseen ==
    IInv /\ (ZeroDropCount \/ ZeroStallCount \/ ClearTraceSamples) => Unseen
  BY DEF ZeroDropCount, ZeroStallCount, ClearTraceSamples, Unseen, Phase,
         BurstSoFar, Straggler, modes, stream, burst, history

LEMMA IngestUnseen == IInv /\ (IngestSample \/ EndProcessing) => Unseen
<1> SUFFICES ASSUME IInv, IngestSample \/ EndProcessing PROVE Unseen
  OBVIOUS
<1> USE DEF Unseen, Phase, BurstSoFar, modes, stream, burst, history,
            sharedVars
<1>1. CASE IngestSample
  <2>1. ~capture_enabled /\ ~capture_enabled'
    BY <1>1 DEF IngestSample, IInv, ModeFlags
  <2> QED
    BY <1>1, <2>1 DEF IngestSample, Straggler
<1>2. CASE EndProcessing
  BY <1>2 DEF EndProcessing, Straggler
<1> QED
  BY <1>1, <1>2

\* Behind a closed gate a batch takes one sample at most, the first.
LEMMA BatchUnseen ==
    IInv /\ Batching
        /\ (PollCapture \/ TakeForBatch \/ ReadDrops \/ Tick) => Unseen
<1> SUFFICES ASSUME IInv, Batching,
                    PollCapture \/ TakeForBatch \/ ReadDrops \/ Tick
             PROVE  Unseen
  OBVIOUS
<1> USE DEF Unseen, Phase, BurstSoFar, modes, stream, burst, history,
            sharedVars
<1>1. CASE PollCapture
  BY <1>1 DEF PollCapture, Straggler, Batching
<1>2. CASE TakeForBatch
  <2>1. batch' # <<>>
    <3>1. batch \in Seq(Nat)
      BY DEF IInv, TypeInv, TypeOK, Core0TypeOK
    <3>2. Head(trace_samples) \in Nat
      BY <1>2, TypeFacts, HeadTailProperties DEF TakeForBatch, Take, IInv
    <3> QED
      BY <1>2, <3>1, <3>2, AppendProperties DEF TakeForBatch
  <2>2. trace_capture_enabled \/ taken = 0
    <3>1. Len(trace_samples) \in Nat \ {0}
      BY <1>2, TypeFacts, EmptySeq DEF TakeForBatch, Take, IInv
    <3>2. taken \in Nat /\ InFlight \in Nat
      BY TypeFacts DEF IInv, InFlight
    <3>3. ~Resetting
      BY <1>2 DEF TakeForBatch, Resetting
    <3> QED
      BY <3>1, <3>2, <3>3 DEF IInv, Closed
  <2>3. Straggler /\ Straggler'
    BY <2>1, <2>2 DEF Straggler
  <2> QED
    BY <1>2, <2>3 DEF TakeForBatch
<1>3. CASE ReadDrops
  BY <1>3 DEF ReadDrops, Straggler
<1>4. CASE Tick
  BY <1>4 DEF Tick, Straggler
<1> QED
  BY <1>1, <1>2, <1>3, <1>4

-----------------------------------------------------------------------------
(* The steps the host sees.                                                 *)

LEMMA RequestSeen == IInv /\ ReadRequest => Bridge!DeviceNext
<1> SUFFICES ASSUME IInv, NEW req \in Requests,
                    ReadOther(req) \/ CaptureSet(req) \/ TelemetrySet(req)
             PROVE  Bridge!DeviceNext
  BY DEF ReadRequest
<1>0. /\ req.seq \in 0..(SeqMod - 1) /\ 0 \in 0..(SeqMod - 1)
      /\ req.on \in BOOLEAN /\ Nobody \in {Nobody}
  BY RequestTypes, SeqAssumption
<1>1. CASE ReadOther(req)
  <2>1. /\ Phase = "ready" /\ Phase' = "replying"
        /\ BurstSoFar' = BurstSoFar /\ Straggler' = Straggler
        /\ UNCHANGED <<capture_enabled, telemetry_enabled,
                       trace_capture_enabled>>
    BY <1>1 DEF ReadOther, Reply, Phase, BurstSoFar, Straggler, modes, burst,
                history, sharedVars
  <2>2. \E type \in {"Ack", "Nack"}, seq \in 0..(SeqMod - 1) :
            usb_in'.type = type /\ usb_in'.seq = seq
    BY <1>0, <1>1 DEF ReadOther, Reply, ackPacket, nackPacket
  <2>3. \E type \in {"Ack", "Nack"}, seq \in 0..(SeqMod - 1) :
            PacketSeen' = Bridge!Reply(type, seq, Nobody)
    BY <2>2 DEF PacketSeen, Bridge!Reply
  <2>4. Bridge!Refuse
    BY <1>0, <2>1, <2>3 DEF Bridge!Refuse, Bridge!mode
  <2> QED
    BY <2>4 DEF Bridge!DeviceNext
<1>2. CASE CaptureSet(req) \/ TelemetrySet(req)
  <2> DEFINE r == [type |-> req.type, seq |-> req.seq, on |-> req.on,
                   tag |-> Nobody]
  <2>1. /\ Phase = "ready" /\ Phase' = "replying"
        /\ BurstSoFar' = BurstSoFar /\ Straggler' = TRUE
        /\ trace_capture_enabled' = req.on
    BY <1>2 DEF CaptureSet, TelemetrySet, SetMode, Phase, BurstSoFar,
                Straggler, burst
  <2>2. /\ req.type \in {"CaptureSet", "TelemetrySet"}
        /\ capture_enabled' = (req.on <=> req.type = "CaptureSet")
        /\ telemetry_enabled' = (req.on <=> req.type = "TelemetrySet")
    BY <1>0, <1>2 DEF CaptureSet, TelemetrySet, SetMode
  <2>3. PacketSeen' = Bridge!Reply("Ack", req.seq, Nobody)
    <3>1. usb_in'.type = "Ack" /\ usb_in'.seq = req.seq
      BY <1>2 DEF CaptureSet, TelemetrySet, SetMode, ackPacket
    <3> QED
      BY <3>1 DEF PacketSeen, Bridge!Reply
  <2>4. r \in Bridge!ModeRequests
    BY <1>0, <2>2 DEF Bridge!ModeRequests
  <2>5. Bridge!SetMode(r)
    BY <2>1, <2>2, <2>3 DEF Bridge!SetMode
  <2> QED
    BY <2>4, <2>5 DEF Bridge!DeviceNext
<1> QED
  BY <1>1, <1>2

LEMMA ConnectionSeen ==
    Batching /\ (Connect \/ ReadError \/ TimerOrRunt \/ WriteError)
        => Bridge!DeviceNext
<1> USE DEF Phase, BurstSoFar, Straggler, PacketSeen, NoPacket,
            Bridge!NoPacket, Bridge!mode, modes, stream, burst, history,
            sharedVars
<1>1. Connect => Bridge!Connect
  BY DEF Connect, Bridge!Connect
<1>2. TimerOrRunt => Bridge!Poll
  BY DEF TimerOrRunt, Bridge!Poll
<1>3. Batching /\ ReadError => Bridge!Disconnect
  BY DEF Batching, ReadError, Bridge!Disconnect
<1>4. WriteError => Bridge!Disconnect
  BY DEF WriteError, Bridge!Disconnect
<1> QED
  BY <1>1, <1>2, <1>3, <1>4 DEF Bridge!DeviceNext

LEMMA WriteSeen == IInv /\ Batching /\ Write => Bridge!DeviceNext
<1> SUFFICES ASSUME IInv, Batching, Write PROVE Bridge!DeviceNext
  OBVIOUS
<1> USE DEF Phase, BurstSoFar, Straggler, PacketSeen, NoPacket,
            Bridge!NoPacket, Bridge!mode, modes, stream, burst, history,
            sharedVars
<1>1. CASE WriteReply
  <2>1. Bridge!Replied
    BY <1>1 DEF WriteReply, Bridge!Replied
  <2> QED
    BY <2>1 DEF Bridge!DeviceNext
<1>2. CASE WriteStreamPacket
  <2>1. Bridge!Streamed
    BY <1>2 DEF WriteStreamPacket, Bridge!Streamed
  <2> QED
    BY <2>1 DEF Bridge!DeviceNext
<1> QED
  BY <1>1, <1>2 DEF Write

\* Telemetry needs a snapshot, a snapshot more than one sample, and so many
\* only come through an open gate.
LEMMA TelemetrySeen == IInv /\ PollTelemetry => Bridge!DeviceNext
<1> SUFFICES ASSUME IInv, PollTelemetry PROVE Bridge!DeviceNext
  OBVIOUS
<1>1. trace_capture_enabled
  <2>1. snapshot_valid /\ ~Resetting
    BY DEF PollTelemetry, TelemetryDue, Resetting
  <2>2. taken > 1
    BY <2>1, SnapshotAssumption, TypeFacts DEF IInv, Snapshots
  <2>3. Len(trace_samples) \in Nat /\ InFlight \in Nat /\ taken \in Nat
    BY TypeFacts, LenProperties DEF IInv, InFlight
  <2> QED
    BY <2>1, <2>2, <2>3 DEF IInv, Closed
<1>2. PacketSeen' = Bridge!StreamPacket("Telemetry")
  BY DEF PollTelemetry, telemetry, PacketSeen, Bridge!StreamPacket
<1>3. Bridge!StreamTelemetry
  BY <1>1, <1>2 DEF PollTelemetry, TelemetryDue, Phase, BurstSoFar, Straggler,
                    Bridge!StreamTelemetry, Bridge!mode, modes, burst,
                    history, sharedVars
<1> QED
  BY <1>3 DEF Bridge!DeviceNext

LEMMA SamplesSeen == IInv /\ Batching /\ ReadStalls => Bridge!DeviceNext
<1> SUFFICES ASSUME IInv, Batching, ReadStalls PROVE Bridge!DeviceNext
  OBVIOUS
<1>1. capture_enabled /\ batch # <<>> /\ sent < OutgoingBurst
  BY DEF ReadStalls, Batching, IInv, TypeInv, WithinBurst
<1>2. taken > 0 /\ taken \in Nat
  BY TypeFacts DEF ReadStalls, IInv, Reported
<1>3. PacketSeen' = Bridge!StreamPacket("TraceSample")
  BY DEF ReadStalls, traceSamples, PacketSeen, Bridge!StreamPacket
<1>4. trace_capture_enabled \in BOOLEAN
  BY DEF IInv, TypeInv, TypeOK, SharedTypeOK
<1>5. Straggler /\ Straggler' = trace_capture_enabled
  <2>1. /\ batch' = <<>> /\ taken' # 0 /\ capture_enabled'
        /\ trace_capture_enabled' = trace_capture_enabled
    BY <1>1, <1>2 DEF ReadStalls, modes, history, sharedVars
  <2>2. Straggler /\ (Straggler' <=> trace_capture_enabled)
    BY <1>1, <2>1 DEF Straggler
  <2>3. Straggler' \in BOOLEAN
    BY DEF Straggler
  <2> QED
    BY <1>4, <2>2, <2>3
<1>6. Bridge!StreamSamples
  BY <1>1, <1>3, <1>5 DEF ReadStalls, Phase, BurstSoFar, Bridge!StreamSamples,
                          Bridge!mode, modes, sharedVars
<1> QED
  BY <1>6 DEF Bridge!DeviceNext

LEMMA RestSeen ==
    IInv /\ Batching /\ (PollNothing \/ EndBatch)
        => Bridge!DeviceNext \/ Unseen
<1> SUFFICES ASSUME IInv, Batching, PollNothing \/ EndBatch
             PROVE  Bridge!DeviceNext \/ Unseen
  OBVIOUS
<1>1. UNCHANGED <<capture_enabled, telemetry_enabled, trace_capture_enabled,
                  sent, batch, taken, usb_in>>
  BY DEF PollNothing, EndBatch, modes, burst, history, sharedVars
<1>2. Phase = "busy" /\ Straggler' = Straggler /\ PacketSeen' = PacketSeen
  BY <1>1 DEF PollNothing, EndBatch, Phase, Straggler, PacketSeen
<1>3. CASE core0' = "select"
  <2>1. Phase' = "ready" /\ BurstSoFar' = 0
    BY <1>3 DEF Phase, BurstSoFar
  <2>2. Bridge!Rest
    BY <1>1, <1>2, <2>1 DEF Bridge!Rest, Bridge!mode
  <2> QED
    BY <2>2 DEF Bridge!DeviceNext
<1>4. CASE core0 = "batch" /\ core0' = "read_drops"
  BY <1>1, <1>2, <1>4 DEF Unseen, Phase, BurstSoFar
<1> QED
  BY <1>3, <1>4 DEF PollNothing, EndBatch

-----------------------------------------------------------------------------
LEMMA InitSeen == Init => Bridge!DeviceInit
  BY DEF Init, SharedInit, Core0Init, Bridge!DeviceInit, Phase, Straggler,
         BurstSoFar, PacketSeen, NoPacket, Bridge!NoPacket

LEMMA StepSeen ==
    IInv /\ Batching /\ [Next]_vars => [Bridge!DeviceNext]_(Bridge!deviceVars)
<1> SUFFICES ASSUME IInv, Batching, [Next]_vars
             PROVE  Bridge!DeviceNext \/ UNCHANGED Bridge!deviceVars
  OBVIOUS
<1>1. CASE UNCHANGED vars
  BY <1>1, UnseenStutters
  DEF vars, core0Vars, modes, stream, burst, history, sharedVars, Unseen,
      Phase, BurstSoFar, Straggler
<1>2. CASE Core1
  BY <1>2, Core1Unseen, UnseenStutters
<1>3. CASE Core0
  BY <1>3, ConnectionSeen, RequestSeen, WriteSeen, ResetUnseen, IngestUnseen,
     RestSeen, TelemetrySeen, BatchUnseen, SamplesSeen, UnseenStutters
  DEF Core0, BridgeNext, Core0Step
<1> QED
  BY <1>1, <1>2, <1>3 DEF Next

\* To its host the firmware is the sequential bridge of BridgeDevice, however
\* its two cores interleave: no mode command is seen half done, and at most
\* one packet of samples follows a command that closes the gate
\* (transport_pio.rs lines 102-259).
THEOREM Implementation == Spec => ImplementsBridge
<1>1. IInv /\ Batching /\ [Next]_vars => Batching'
  BY BatchingStep
<1>2. Spec => []Batching
  BY BatchingInit, <1>1, Invariance, PTL DEF Spec
<1> QED
  BY InitSeen, StepSeen, Invariance, <1>2, PTL
  DEF Spec, ImplementsBridge, Bridge!Spec
=============================================================================
