----------------------------- MODULE MockProofs ------------------------------
(***************************************************************************)
(* Machine-checked proofs about MockBridge: of its snapshots, for every     *)
(* width of the tick counter, burst and set of periods.                     *)
(***************************************************************************)
EXTENDS MockBridge, TLAPS

\* A stream packet is only in the endpoint while the task writes it.
Sending == usb_in.type \in {"Telemetry", "TraceSample"} => task = "send"

\* ... and is within its burst.
WithinBurst == task = "send" => sent < OutgoingBurst

\* `dro` holds the answers of the cadence under way, each from the tick it
\* was given at: the one to the command at i is idx - 1 - i ticks old.
Back(k) == IF tick >= k THEN tick - k ELSE tick - k + TickMod
Fresh(i, k) == dro[CommandAt(i)] = Answer(CommandAt(i), Back(k))

CadenceKept == \A i \in 0..9 : i < idx => Fresh(i, idx - 1 - i)

\* A telemetry packet is made at the end of a cadence.
WholeCadence ==
    usb_in = Telemetry => idx = 0 /\ \A i \in 0..9 : Fresh(i, 9 - i)

MInv ==
    /\ TypeOK /\ NoOldPeriod /\ Sending /\ WithinBurst
    /\ CadenceKept /\ WholeCadence

-----------------------------------------------------------------------------
(* The lathe's answers.                                                     *)

LEMMA TicksPerPhase == TickMod \in Nat /\ TickMod >= 16
  BY TickAssumption

LEMMA CadenceFacts ==
    /\ \A i \in 0..9 : CommandAt(i) \in Commands
    /\ \A c \in Commands : \E i \in 0..9 : c = CommandAt(i)
    /\ \A i, j \in 0..9 : i # j => CommandAt(i) # CommandAt(j)
    /\ \A i \in 0..9 : CommandAt(i) = 12 <=> i = 9
    /\ Commands = {0, 1, 2, 3, 4, 5, 6, 7, 12, 13}
<1>1. /\ CommandAt(0) = 3 /\ CommandAt(1) = 2 /\ CommandAt(2) = 1
      /\ CommandAt(3) = 0 /\ CommandAt(4) = 7 /\ CommandAt(5) = 6
      /\ CommandAt(6) = 5 /\ CommandAt(7) = 4 /\ CommandAt(8) = 13
      /\ CommandAt(9) = 12
  BY DEF CommandAt, DRO_CADENCE
<1>2. \A i \in 0..9 : \/ i = 0 \/ i = 1 \/ i = 2 \/ i = 3 \/ i = 4
                      \/ i = 5 \/ i = 6 \/ i = 7 \/ i = 8 \/ i = 9
  OBVIOUS
<1>3. Commands = {DRO_CADENCE[i] : i \in 1..10}
  BY DEF Commands
<1>4. Commands = {CommandAt(i) : i \in 0..9}
  <2>1. \A i \in 1..10 : i - 1 \in 0..9 /\ CommandAt(i - 1) = DRO_CADENCE[i]
    BY DEF CommandAt
  <2>2. \A i \in 0..9 : i + 1 \in 1..10 /\ CommandAt(i) = DRO_CADENCE[i + 1]
    BY DEF CommandAt
  <2> QED
    BY <1>3, <2>1, <2>2
<1>5. Commands = {0, 1, 2, 3, 4, 5, 6, 7, 12, 13}
  BY <1>1, <1>2, <1>4
<1>6. \A i, j \in 0..9 : i # j => CommandAt(i) # CommandAt(j)
  BY <1>1, <1>2
<1>7. \A i \in 0..9 : CommandAt(i) = 12 <=> i = 9
  BY <1>1, <1>2
<1> QED
  BY <1>4, <1>5, <1>6, <1>7

LEMMA AnswerTypes ==
    ASSUME NEW cmd \in Commands, NEW t \in Nat
    PROVE  Answer(cmd, t) \in Bytes
<1>1. cmd \in {0, 1, 2, 3, 4, 5, 6, 7, 12, 13}
  BY CadenceFacts
<1>2. XCounts(t) \in Int /\ ZCounts(t) \in Int /\ Rpm(t) \in Nat
  BY DEF XCounts, ZCounts, Rpm, PhaseOf
<1>3. \A v \in Int : SignByte(v) \in Bytes /\ Abs24(v) \in Nat
  BY DEF SignByte, Abs24, Bytes
<1>4. \A v \in Nat : Byte0(v) \in Bytes /\ Byte1(v) \in Bytes
                                        /\ Byte2(v) \in Bytes
  BY DEF Byte0, Byte1, Byte2, Bytes
<1> HIDE DEF Bytes
<1> QED
  BY <1>1, <1>2, <1>3, <1>4 DEF Answer

\* An answer is that of a phase.
LEMMA AnswerOfPhase ==
    ASSUME NEW cmd, NEW t, NEW u, PhaseOf(t) = PhaseOf(u)
    PROVE  Answer(cmd, t) = Answer(cmd, u)
  BY DEF Answer, XCounts, ZCounts, Rpm

\* A cadence spans two phases at most, at the wrap of the counter too.
LEMMA TwoPhases ==
    ASSUME tick \in 0..(TickMod - 1), NEW k \in 0..9
    PROVE  PhaseOf(Back(k)) \in {PhaseOf(tick), PhaseOf((tick - 9) % TickMod)}
<1>1. (tick - 9) % TickMod = Back(9)
  BY TicksPerPhase DEF Back
<1>2. PICK m \in Nat \ {0} : TickMod = 16 * m
  <2>1. TickMod \div 16 \in Nat /\ TickMod = 16 * (TickMod \div 16)
    BY TickAssumption
  <2>2. TickMod \div 16 \in Nat \ {0}
    BY <2>1, TicksPerPhase
  <2> QED
    BY <2>1, <2>2
<1>3. CASE tick >= 9
  BY <1>1, <1>3, TicksPerPhase DEF Back, PhaseOf
<1>4. CASE tick < 9
  BY <1>1, <1>2, <1>4, TicksPerPhase DEF Back, PhaseOf
<1> QED
  BY <1>3, <1>4

\* The lathe moves on by one tick: what was k ticks ago is k + 1 ticks ago.
LEMMA BackStep ==
    ASSUME tick \in 0..(TickMod - 1), tick' = (tick + 1) % TickMod
    PROVE  /\ tick' \in 0..(TickMod - 1)
           /\ Back(0)' = tick'
           /\ \A k \in 0..8 : Back(k + 1)' = Back(k)
<1>1. \/ tick + 1 < TickMod /\ tick' = tick + 1
      \/ tick + 1 = TickMod /\ tick' = 0
  BY TicksPerPhase
<1> QED
  BY <1>1, TicksPerPhase DEF Back

-----------------------------------------------------------------------------
(* A poll of the bus.                                                       *)

LEMMA PollKeepsCadence ==
    ASSUME MInv, PollBus
    PROVE  /\ tick' \in 0..(TickMod - 1) /\ idx' \in 0..9
           /\ dro' \in [Commands -> Bytes]
           /\ CadenceKept'
           /\ CommandAt(idx) = 12 => idx' = 0 /\ \A i \in 0..9 : Fresh(i, 9 - i)'
<1>0. /\ tick \in 0..(TickMod - 1) /\ idx \in 0..9
      /\ dro \in [Commands -> Bytes]
  BY DEF MInv, TypeOK
<1> PICK n \in 0..9 : n = idx
  BY <1>0
<1> DEFINE cmd == CommandAt(n)
<1>1. /\ tick' = (tick + 1) % TickMod
      /\ idx' = (IF n = 9 THEN 0 ELSE n + 1)
      /\ dro' = [dro EXCEPT ![cmd] = Answer(cmd, tick')]
      /\ cmd \in Commands
  BY <1>0, CadenceFacts DEF PollBus, Assemble, NextIdx
<1>2. /\ tick' \in 0..(TickMod - 1) /\ tick' \in Nat
      /\ Back(0)' = tick'
      /\ \A k \in 0..8 : Back(k + 1)' = Back(k)
  BY <1>0, <1>1, BackStep, TicksPerPhase
<1>3. dro' \in [Commands -> Bytes]
  BY <1>0, <1>1, <1>2, AnswerTypes
<1>4. Fresh(n, 0)'
  BY <1>0, <1>1, <1>2 DEF Fresh
<1>5. ASSUME NEW i \in 0..9, i < n
      PROVE  Fresh(i, n - i)'
  <2> PICK k \in 0..8 : k = n - 1 - i
    BY <1>5
  <2>1. Fresh(i, k)
    BY <1>5 DEF MInv, CadenceKept
  <2>2. CommandAt(i) # cmd /\ CommandAt(i) \in Commands
    BY <1>5, CadenceFacts
  <2>3. k + 1 = n - i
    OBVIOUS
  <2>4. Fresh(i, k + 1)'
    BY <1>0, <1>1, <1>2, <2>1, <2>2 DEF Fresh
  <2> QED
    BY <2>3, <2>4
<1>6. CadenceKept'
  <2> SUFFICES ASSUME NEW i \in 0..9, i < idx'
               PROVE  Fresh(i, idx - 1 - i)'
    BY DEF CadenceKept
  <2>1. n # 9 /\ idx' = n + 1 /\ i <= n
    BY <1>1
  <2>2. Fresh(i, n - i)'
    BY <1>4, <1>5, <2>1
  <2>3. idx' - 1 - i = n - i
    BY <2>1
  <2> QED
    BY <2>2, <2>3 DEF Fresh, Back
<1>7. ASSUME CommandAt(idx) = 12
      PROVE  idx' = 0 /\ \A i \in 0..9 : Fresh(i, 9 - i)'
  <2>1. n = 9
    BY <1>7, CadenceFacts
  <2>2. ASSUME NEW i \in 0..9
        PROVE  Fresh(i, 9 - i)'
    <3>1. CASE i = 9
      BY <1>4, <2>1, <3>1
    <3>2. CASE i < 9
      BY <1>5, <2>1, <3>2
    <3> QED
      BY <3>1, <3>2
  <2> QED
    BY <1>1, <2>1, <2>2
<1> QED
  BY <1>1, <1>2, <1>3, <1>6, <1>7

\* Every other step leaves the lathe and the assembler alone.
LEMMA QuietStep ==
    ASSUME MInv, UNCHANGED lathe, usb_in' = Telemetry => usb_in = Telemetry
    PROVE  (CadenceKept /\ WholeCadence)'
  BY DEF MInv, lathe, CadenceKept, WholeCadence, Fresh, Back

-----------------------------------------------------------------------------
LEMMA MInvInit == Init => MInv
<1> SUFFICES ASSUME Init PROVE MInv
  OBVIOUS
<1>1. TypeOK
  <2>1. [c \in Commands |-> 0] \in [Commands -> Bytes]
    BY DEF Bytes
  <2>2. /\ 0 \in 0..(TickMod - 1) /\ 0 \in 0..9 /\ 0 \in 0..OutgoingBurst
        /\ 0 \in Nat
    BY TicksPerPhase, BurstAssumption
  <2> QED
    BY <2>1, <2>2, Zenon DEF Init, TypeOK
<1>2. NoOldPeriod
  BY PeriodAssumption DEF Init, NoOldPeriod
<1>3. Sending /\ WithinBurst /\ WholeCadence
  BY DEF Init, Sending, WithinBurst, WholeCadence, NoPacket, Telemetry
<1>4. CadenceKept
  BY DEF Init, CadenceKept
<1> QED
  BY <1>1, <1>2, <1>3, <1>4 DEF MInv

\* A request sets its flag, the period and the wait, and is answered.
LEMMA RequestKeeps == MInv /\ ReadRequest => MInv'
<1> SUFFICES ASSUME MInv, ReadRequest PROVE MInv'
  OBVIOUS
<1> USE DEF modes, lathe
<1>1. PICK req \in Requests :
          \/ ReadOther(req)
          \/ SetMode(req, "TelemetrySet", telemetry_enabled, capture_enabled)
          \/ SetMode(req, "CaptureSet", capture_enabled, telemetry_enabled)
  BY DEF ReadRequest
<1>2. req.on \in BOOLEAN /\ req.period \in Periods /\ req.period \in Nat
  BY PeriodAssumption DEF Requests
<1>3. /\ task' = "reply" /\ usb_in' \in {Ack, Nack}
      /\ UNCHANGED <<tick, idx, dro, sent>>
      /\ capture_enabled' \in BOOLEAN /\ telemetry_enabled' \in BOOLEAN
  BY <1>1, <1>2 DEF ReadOther, SetMode, Reply, MInv, TypeOK
<1>4. /\ telemetry_period_ms' \in {DefaultPeriod} \cup Periods
      /\ telemetry_period_ms' \in Nat
      /\ \/ due_in' = 0
         \/ UNCHANGED <<due_in, telemetry_period_ms>>
  BY <1>1, <1>2, PeriodAssumption
  DEF ReadOther, SetMode, Reply, DueNow, MInv, TypeOK
<1>5. usb_in' # Telemetry /\ usb_in'.type \notin {"Telemetry", "TraceSample"}
  BY <1>3 DEF Ack, Nack, Telemetry
<1>6. TypeOK'
  BY <1>3, <1>4 DEF MInv, TypeOK
<1>7. NoOldPeriod'
  BY <1>4 DEF MInv, NoOldPeriod
<1>8. Sending' /\ WithinBurst' /\ (CadenceKept /\ WholeCadence)'
  BY <1>3, <1>5, QuietStep DEF Sending, WithinBurst
<1> QED
  BY <1>6, <1>7, <1>8 DEF MInv

LEMMA PollBusKeeps == MInv /\ PollBus => MInv'
<1> SUFFICES ASSUME MInv, PollBus PROVE MInv'
  OBVIOUS
<1> USE DEF modes, lathe
<1>0. /\ UNCHANGED <<capture_enabled, telemetry_enabled, telemetry_period_ms>>
      /\ telemetry_period_ms \in Nat
  BY PeriodAssumption DEF PollBus, MInv, TypeOK
<1>1. /\ tick' \in 0..(TickMod - 1) /\ idx' \in 0..9
      /\ dro' \in [Commands -> Bytes]
      /\ CadenceKept'
      /\ CommandAt(idx) = 12 =>
             idx' = 0 /\ \A i \in 0..9 : Fresh(i, 9 - i)'
  BY PollKeepsCadence
<1> DEFINE packet == TraceSamples(CommandAt(idx),
                                  Answer(CommandAt(idx), tick'))
<1>2. \/ /\ task' = "send" /\ usb_in' = packet /\ UNCHANGED <<due_in, sent>>
      \/ /\ task' = "send" /\ usb_in' = Telemetry /\ CommandAt(idx) = 12
         /\ UNCHANGED sent
         /\ due_in' = (IF telemetry_period_ms = 0 THEN 1
                       ELSE telemetry_period_ms)
      \/ /\ task = "poll" /\ task' = "select" /\ sent' = 0
         /\ UNCHANGED <<due_in, usb_in>>
  BY DEF PollBus
<1>3. /\ packet.type = "TraceSample" /\ packet # Telemetry
      /\ DOMAIN packet = {"type", "samples"}
      /\ Len(packet.samples) = 2
      /\ \A i \in 1..2 : packet.samples[i] \in Samples
  <2>1. CommandAt(idx) \in Commands /\ tick' \in Nat
    BY <1>1, CadenceFacts, TicksPerPhase DEF MInv, TypeOK
  <2>2. CommandAt(idx) \in Bytes
    <3>1. Commands \subseteq Bytes
      BY CadenceFacts DEF Bytes
    <3> QED
      BY <2>1, <3>1
  <2>a. Answer(CommandAt(idx), tick') \in Bytes
    BY <2>1, AnswerTypes
  <2>3. \A c, r \in Bytes :
            LET p == TraceSamples(c, r)
            IN  /\ p.type = "TraceSample" /\ p # Telemetry
                /\ DOMAIN p = {"type", "samples"}
                /\ Len(p.samples) = 2
                /\ \A i \in 1..2 : p.samples[i] \in Samples
    BY DEF TraceSamples, Telemetry, Samples, Bytes, WRITE, READ
  <2> QED
    BY <2>2, <2>3, <2>a
<1> HIDE DEF packet
<1>4. TypeOK'
  <2>1. due_in' \in Nat /\ sent' \in 0..OutgoingBurst
    BY <1>0, <1>2, BurstAssumption DEF MInv, TypeOK
  <2>2. \/ usb_in' \in {NoPacket, Ack, Nack, Telemetry}
        \/ /\ DOMAIN usb_in' = {"type", "samples"}
           /\ usb_in'.type = "TraceSample"
           /\ Len(usb_in'.samples) = 2
           /\ \A i \in 1..2 : usb_in'.samples[i] \in Samples
    BY <1>2, <1>3 DEF MInv, TypeOK
  <2> QED
    BY <1>0, <1>1, <1>2, <2>1, <2>2 DEF MInv, TypeOK
<1>5. NoOldPeriod'
  BY <1>0, <1>2 DEF MInv, NoOldPeriod
<1>6. Sending' /\ WithinBurst'
  BY <1>2 DEF PollBus, MayPoll, MInv, Sending, WithinBurst
<1>7. WholeCadence'
  <2> SUFFICES ASSUME usb_in' = Telemetry
               PROVE  idx' = 0 /\ \A i \in 0..9 : Fresh(i, 9 - i)'
    BY DEF WholeCadence
  <2>1. ~(task = "poll" /\ usb_in = Telemetry)
    BY DEF MInv, Sending, Telemetry
  <2>2. CommandAt(idx) = 12
    BY <1>2, <1>3, <2>1
  <2> QED
    BY <1>1, <2>2
<1> QED
  BY <1>1, <1>4, <1>5, <1>6, <1>7 DEF MInv

LEMMA MInvStep == MInv /\ [Next]_vars => MInv'
<1> SUFFICES ASSUME MInv, [Next]_vars PROVE MInv'
  OBVIOUS
<1> USE DEF modes, lathe
<1>1. CASE \/ Connect \/ Disconnect \/ TimerOrRunt \/ Write \/ PollNothing
           \/ UNCHANGED vars
  <2>1. /\ UNCHANGED <<capture_enabled, telemetry_enabled, due_in,
                       telemetry_period_ms, tick, idx, dro>>
        /\ task' \in {"offline", "select", "reply", "poll", "send"}
        /\ \/ usb_in' = NoPacket /\ task' # "send"
           \/ UNCHANGED usb_in /\ task # "send" /\ task' # "send"
           \/ UNCHANGED <<usb_in, task, sent>>
        /\ \/ sent' = 0 \/ sent' = sent
           \/ sent' = sent + 1 /\ task = "send" /\ task' = "poll"
    BY <1>1 DEF Connect, Disconnect, TimerOrRunt, Write, WriteReply,
                WriteStreamPacket, PollNothing, vars, MInv, TypeOK
  <2>2. TypeOK'
    <3>1. sent' \in 0..OutgoingBurst
      BY <2>1, BurstAssumption DEF MInv, TypeOK, WithinBurst
    <3> QED
      BY <2>1, <3>1 DEF MInv, TypeOK
  <2>3. NoOldPeriod'
    BY <2>1 DEF MInv, NoOldPeriod
  <2>4. Sending' /\ WithinBurst'
    BY <2>1 DEF MInv, Sending, WithinBurst, NoPacket
  <2>5. (CadenceKept /\ WholeCadence)'
    BY <2>1, QuietStep DEF NoPacket, Telemetry
  <2> QED
    BY <2>2, <2>3, <2>4, <2>5 DEF MInv
<1>2. CASE ReadRequest
  BY <1>2, RequestKeeps
<1>3. CASE PollBus
  BY <1>3, PollBusKeeps
<1>4. CASE Tick
  <2>1. /\ UNCHANGED <<task, capture_enabled, telemetry_enabled, sent, usb_in,
                       telemetry_period_ms, tick, idx, dro>>
        /\ due_in' = due_in - 1 /\ due_in' \in Nat
        /\ telemetry_period_ms \in Nat /\ due_in \in Nat
    BY <1>4, PeriodAssumption DEF Tick, MInv, TypeOK
  <2>2. TypeOK'
    BY <2>1 DEF MInv, TypeOK
  <2>3. NoOldPeriod'
    BY <2>1 DEF MInv, NoOldPeriod
  <2>4. Sending' /\ WithinBurst'
    BY <2>1 DEF MInv, Sending, WithinBurst
  <2>5. (CadenceKept /\ WholeCadence)'
    BY <2>1, QuietStep
  <2> QED
    BY <2>2, <2>3, <2>4, <2>5 DEF MInv
<1> QED
  BY <1>1, <1>2, <1>3, <1>4 DEF Next, Poll

-----------------------------------------------------------------------------
\* The bridge task of the mock and its lathe keep to their types.
THEOREM MockTypes == Spec => []TypeOK
  BY MInvInit, MInvStep, PTL DEF Spec, MInv

\* A request that shortens the period never leaves a packet waiting for the
\* longer one (transport_mock.rs line 26), whatever periods are asked for.
THEOREM PeriodInForce == Spec => []NoOldPeriod
  BY MInvInit, MInvStep, PTL DEF Spec, MInv

\* No answer in a telemetry packet is older than the cadence it ends: each is
\* of the lathe's present phase or the one before, over the wrap of the tick
\* counter too (bridge_service.rs lines 110-132).
THEOREM SnapshotsRecent == Spec => []SnapshotRecent
<1>1. MInv => SnapshotRecent
  <2> SUFFICES ASSUME MInv, usb_in = Telemetry, NEW c \in Commands
               PROVE  dro[c] \in {Answer(c, tick),
                                 Answer(c, (tick - 9) % TickMod)}
    BY DEF SnapshotRecent
  <2>1. PICK i \in 0..9 : c = CommandAt(i)
    BY CadenceFacts
  <2>2. dro[c] = Answer(c, Back(9 - i))
    BY <2>1 DEF MInv, WholeCadence, Fresh
  <2>3. PhaseOf(Back(9 - i)) \in {PhaseOf(tick),
                                 PhaseOf((tick - 9) % TickMod)}
    BY TwoPhases DEF MInv, TypeOK
  <2> QED
    BY <2>2, <2>3, AnswerOfPhase
<1> QED
  BY <1>1, MInvInit, MInvStep, PTL DEF Spec
=============================================================================
