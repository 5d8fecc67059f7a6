----------------------------- MODULE LossProofs ------------------------------
(***************************************************************************)
(* Machine-checked proofs about LossReport, for counters of every width and *)
(* any number of programs, faults and losses.                               *)
(***************************************************************************)
EXTENDS LossReport, HostProofs, Integers

-----------------------------------------------------------------------------
(* Counters that wrap.  Z3 knows quotient and remainder; the rest follows.  *)

LEMMA ModDef ==
    ASSUME NEW M \in Nat \ {0}, NEW a \in Int
    PROVE  /\ a = M * (a \div M) + (a % M)
           /\ a \div M \in Int /\ a % M \in 0..(M - 1)
  OBVIOUS

LEMMA ModUnique ==
    ASSUME NEW M \in Nat \ {0}, NEW q \in Int, NEW r \in 0..(M - 1)
    PROVE  (M * q + r) % M = r
  OBVIOUS

LEMMA Distributes ==
    ASSUME NEW a \in Int, NEW b \in Int, NEW c \in Int
    PROVE  /\ a * (b + c) = a * b + a * c /\ a * b \in Int /\ b + c \in Int
           /\ a * (b - c) = a * b - a * c /\ b - c \in Int
  OBVIOUS

\* Whole turns of a counter do not show.
LEMMA ModShift ==
    ASSUME NEW M \in Nat \ {0}, NEW q \in Int, NEW r \in Int
    PROVE  (M * q + r) % M = r % M
<1> DEFINE p == r \div M
           s == r % M
<1>1. r = M * p + s /\ p \in Int /\ s \in 0..(M - 1)
  BY ModDef
<1> HIDE DEF p, s
<1>2. /\ M * (q + p) = M * q + M * p /\ q + p \in Int
      /\ M * q \in Int /\ M * p \in Int
  BY <1>1, Distributes
<1>3. M * q + r = M * (q + p) + s
  BY <1>1, <1>2
<1>4. (M * (q + p) + s) % M = s
  BY <1>1, <1>2, ModUnique
<1> QED
  BY <1>3, <1>4 DEF s

\* The difference of two counters is that of what they counted.
LEMMA ModSub ==
    ASSUME NEW M \in Nat \ {0}, NEW a \in Int, NEW b \in Int
    PROVE  ((a % M) - (b % M)) % M = (a - b) % M
<1> DEFINE p == a \div M
           q == b \div M
           r == a % M
           s == b % M
<1>1. /\ a = M * p + r /\ p \in Int /\ r \in 0..(M - 1)
      /\ b = M * q + s /\ q \in Int /\ s \in 0..(M - 1)
  BY ModDef
<1> HIDE DEF p, q, r, s
<1>2. /\ M * (p - q) = M * p - M * q /\ p - q \in Int
      /\ M * p \in Int /\ M * q \in Int
  BY <1>1, Distributes
<1>3. r - s \in Int /\ a - b = M * (p - q) + (r - s)
  BY <1>1, <1>2
<1>4. (M * (p - q) + (r - s)) % M = (r - s) % M
  BY <1>2, <1>3, ModShift
<1> QED
  BY <1>3, <1>4 DEF r, s

LEMMA ModSuc ==
    ASSUME NEW M \in Nat \ {0}, NEW a \in Int
    PROVE  ((a % M) + 1) % M = (a + 1) % M
<1> DEFINE p == a \div M
           r == a % M
<1>1. a = M * p + r /\ p \in Int /\ r \in 0..(M - 1)
  BY ModDef
<1> HIDE DEF p, r
<1>2. r + 1 \in Int /\ a + 1 = M * p + (r + 1)
  <2>1. M * p \in Int
    BY <1>1
  <2> QED
    BY <1>1, <2>1
<1>3. (M * p + (r + 1)) % M = (r + 1) % M
  BY <1>1, <1>2, ModShift
<1> QED
  BY <1>2, <1>3 DEF r

-----------------------------------------------------------------------------
(* Types.                                                                   *)

\* The counts ride on the steps of HostSession.
LEMMA LossSteps == [LossNext]_lossVars => [Next]_vars
<1> SUFFICES ASSUME [LossNext]_lossVars PROVE [Next]_vars
  OBVIOUS
<1>1. CASE UNCHANGED lossVars
  BY <1>1 DEF lossVars
<1>2. CASE DropSample
  BY <1>2 DEF DropSample
<1>3. CASE ZeroCount \/ LoadCount \/ MoveCount \/ Begin \/ Update \/ Uncounted
  BY <1>3 DEF ZeroCount, LoadCount, MoveCount, Begin, Update, Uncounted, Next,
     Program, Device
<1> QED
  BY <1>1, <1>2, <1>3 DEF LossNext

LEMMA Ranges ==
    /\ 0 \in Count /\ 0 \in 0..MaxLost
    /\ \A n \in Int : n % CounterMod \in Count
  BY CounterAssumption, ModDef DEF Count

LossInts ==
    /\ {trace_queue_drop_count, usb_total, ep_total, dropped_samples_total,
        lost, zeroed_at, usb_lost, ep_lost, known} \subseteq Nat
    /\ CounterMod \in Nat \ {0}

LEMMA AreInts == LossTypeOK => LossInts
  BY CounterAssumption DEF LossTypeOK, LossInts, Count

LEMMA LossTypesStep == LossTypeOK /\ [LossNext]_lossVars => LossTypeOK'
<1> SUFFICES ASSUME LossTypeOK, [LossNext]_lossVars PROVE LossTypeOK'
  OBVIOUS
<1> USE DEF packetVars, reportVars
<1>0. Count \subseteq Int /\ MaxLost \in Nat
  BY CounterAssumption DEF Count
<1>1. CASE UNCHANGED lossVars
  BY <1>1 DEF lossVars, LossTypeOK
<1>2. CASE DropSample
  <2>1. lost' \in 0..MaxLost
    BY <1>0, <1>2 DEF DropSample, LossTypeOK
  <2>2. trace_queue_drop_count' \in Count
    <3>1. trace_queue_drop_count + 1 \in Int
      BY AreInts DEF LossInts
    <3> QED
      BY <1>2, <3>1, Ranges DEF DropSample
  <2> QED
    BY <1>2, <2>1, <2>2 DEF DropSample, LossTypeOK
<1>3. CASE ZeroCount \/ LoadCount \/ MoveCount
  BY <1>3, Ranges DEF ZeroCount, LoadCount, MoveCount, LossTypeOK
<1>4. ASSUME Taken
      PROVE  /\ {usb_total', ep_total'} \subseteq Count
             /\ {usb_lost', ep_lost'} \subseteq 0..MaxLost
  BY <1>4, Ranges DEF Taken, LossTypeOK
<1>5. CASE Begin
  BY <1>4, <1>5, Ranges DEF Begin, LossTypeOK
<1>6. CASE Update
  <2>1. dropped_delta' \in Count
    <3>1. ep_total - dropped_samples_total \in Int
      BY AreInts DEF LossInts
    <3> QED
      BY <1>6, <3>1, Ranges DEF Update, Delta
  <2>2. misled' \in BOOLEAN
    BY <1>6 DEF Update, LossTypeOK
  <2> QED
    BY <1>4, <1>6, <2>1, <2>2 DEF Update, LossTypeOK
<1>7. CASE Uncounted
  BY <1>4, <1>7, Ranges DEF Uncounted, LossTypeOK
<1> QED
  BY <1>1, <1>2, <1>3, <1>5, <1>6, <1>7 DEF LossNext

LEMMA LossTypesInit == LossInit => LossTypeOK
  BY Ranges DEF LossInit, LossTypeOK

\* Every count and every difference printed keeps to its width, whichever way
\* the total goes (main.rs lines 293-294).
THEOREM LossTypes == LossSpec => []LossTypeOK
  BY LossTypesInit, LossTypesStep, PTL DEF LossSpec

-----------------------------------------------------------------------------
(* What the totals mean.                                                    *)

\* The total a counter shows when n samples have been lost.
Since(n) == (n - zeroed_at) % CounterMod

Counted ==
    /\ zeroed_at <= lost
    /\ trace_queue_drop_count = Since(lost)

SendingSamples == phase = "sending" /\ usb_in.type = "TraceSample"

Loaded ==
    SendingSamples =>
        /\ zeroed_at <= usb_lost /\ usb_lost <= lost
        /\ usb_total = Since(usb_lost)

\* The packets on their way to a program that reads its stream have later and
\* later totals, all since its own mode command.
Reported ==
    /\ zeroed_at <= known /\ known <= lost
    /\ dropped_samples_total = Since(known)
    /\ in_ep.type = "TraceSample" =>
           /\ known <= ep_lost /\ ep_lost <= lost
           /\ ep_total = Since(ep_lost)
           /\ SendingSamples => ep_lost <= usb_lost
    /\ SendingSamples => known <= usb_lost

LossInv ==
    /\ OwnInv /\ LossTypeOK
    /\ Counted /\ Loaded
    /\ FewStranded => ~misled /\ (host = "stream" => Reported)

LEMMA ZeroSince ==
    ASSUME NEW n \in Int
    PROVE  (n - n) % CounterMod = 0
<1>1. n - n = CounterMod * 0 + 0 /\ 0 \in 0..(CounterMod - 1)
  BY CounterAssumption
<1> QED
  BY <1>1, CounterAssumption, ModUnique

LEMMA LossInvInit == LossInit => LossInv
<1> SUFFICES ASSUME LossInit PROVE LossInv
  OBVIOUS
<1>1. OwnInv /\ LossTypeOK
  BY OwnInit, LossTypesInit DEF LossInit
<1>2. Counted
  BY ZeroSince DEF LossInit, Counted, Since
<1>3. Loaded /\ ~misled /\ host # "stream"
  BY DEF LossInit, Init, DeviceInit, HostInit, Loaded, SendingSamples
<1> QED
  BY <1>1, <1>2, <1>3 DEF LossInv

\* The bridge's counter is what it lost since its last mode command.
LEMMA CountedStep ==
    ASSUME LossInts, Counted, LossNext
    PROVE  Counted'
<1> USE DEF packetVars
<1>1. CASE DropSample
  <2>1. /\ lost' = lost + 1 /\ UNCHANGED zeroed_at
        /\ trace_queue_drop_count' = (trace_queue_drop_count + 1) % CounterMod
    BY <1>1 DEF DropSample
  <2>2. lost - zeroed_at \in Int /\ lost' - zeroed_at = (lost - zeroed_at) + 1
    BY <2>1 DEF LossInts
  <2>3. trace_queue_drop_count' = (lost' - zeroed_at) % CounterMod
    BY <2>1, <2>2, CounterAssumption, ModSuc DEF Counted, Since
  <2>4. zeroed_at' <= lost'
    BY <2>1 DEF LossInts, Counted
  <2> QED
    BY <2>1, <2>3, <2>4 DEF Counted, Since
<1>2. CASE ZeroCount
  <2>1. /\ trace_queue_drop_count' = 0 /\ zeroed_at' = lost
        /\ UNCHANGED lost
    BY <1>2 DEF ZeroCount
  <2>2. (lost - lost) % CounterMod = 0 /\ lost <= lost
    BY ZeroSince DEF LossInts
  <2> QED
    BY <2>1, <2>2 DEF Counted, Since
<1>3. CASE LoadCount \/ MoveCount \/ Begin \/ Update \/ Uncounted
  <2>1. UNCHANGED <<trace_queue_drop_count, lost, zeroed_at>>
    BY <1>3 DEF LoadCount, MoveCount, Begin, Update, Uncounted
  <2> QED
    BY <2>1 DEF Counted, Since
<1> QED
  BY <1>1, <1>2, <1>3 DEF LossNext

\* What the steps that move no count do to the packets under way.
LEMMA PacketsKept ==
    ASSUME HostTypes, Begin \/ Update \/ Uncounted
    PROVE  /\ UNCHANGED <<lost, zeroed_at, usb_total, usb_lost>>
           /\ SendingSamples' => SendingSamples
           /\ in_ep'.type = "TraceSample" =>
                  UNCHANGED <<in_ep, ep_total, ep_lost>>
<1>1. Taken /\ UNCHANGED <<lost, zeroed_at>>
  BY DEF Begin, Update, Uncounted
<1>2. in_ep' # in_ep => in_ep'.type \in {"None", "Tail"}
  <2>1. UNCHANGED in_ep \/ in_ep' \in {NoPacket, [type |-> "Tail"]}
    BY DEF Begin, Update, Uncounted, Open, WritePacket, WriteTimeout,
       ReadReply, Deadline, ReadStream, StopPolling, Interrupt, Kill, Cut,
       ReadTail, DeviceConnect, DevicePoll, DeviceRest, DeviceStream
  <2> QED
    BY <2>1 DEF NoPacket
<1>3. SendingSamples' => SendingSamples
  BY DEF Begin, Update, Uncounted, Open, WritePacket, WriteTimeout, ReadReply,
     Deadline, ReadStream, StopPolling, Interrupt, Kill, Cut, ReadTail,
     DeviceConnect, Connect, DevicePoll, Poll, DeviceRest, Rest, DeviceStream,
     StreamSamples, StreamTelemetry, deviceVars, SendingSamples
<1> QED
  BY <1>1, <1>2, <1>3 DEF Taken

LEMMA LoadedStep ==
    ASSUME LossInts, HostTypes, Counted, Loaded, LossNext
    PROVE  Loaded'
<1> USE DEF packetVars
<1>1. CASE DropSample
  <2>1. /\ lost' = lost + 1
        /\ UNCHANGED <<zeroed_at, usb_total, usb_lost, phase, usb_in>>
    BY <1>1 DEF DropSample, vars, deviceVars
  <2>2. usb_lost <= lost => usb_lost <= lost'
    BY <2>1 DEF LossInts
  <2> QED
    BY <2>1, <2>2 DEF Loaded, SendingSamples, Since
<1>2. CASE ZeroCount \/ MoveCount
  BY <1>2
  DEF ZeroCount, DeviceRead, SetMode, MoveCount, DeviceWrite, Replied,
      Streamed, Loaded, SendingSamples
<1>3. CASE LoadCount
  <2>1. /\ usb_total' = trace_queue_drop_count /\ usb_lost' = lost
        /\ UNCHANGED <<lost, zeroed_at>>
    BY <1>3 DEF LoadCount
  <2>2. lost <= lost
    BY DEF LossInts
  <2> QED
    BY <2>1, <2>2 DEF Loaded, Counted, Since
<1>4. CASE Begin \/ Update \/ Uncounted
  BY <1>4, PacketsKept DEF Loaded, Since
<1> QED
  BY <1>1, <1>2, <1>3, <1>4 DEF LossNext

\* What a program reports, while at most one program was stranded.
LEMMA ReportedStep ==
    ASSUME LossInts, OwnInv, Counted, Loaded, LossNext,
           FewStranded, ~Deadline, ~misled, host = "stream" => Reported
    PROVE  ~misled' /\ (host' = "stream" => Reported')
<1> USE DEF packetVars, reportVars
<1>0. HostTypes /\ Orderly
  BY DEF OwnInv
<1>1. CASE DropSample
  <2>1. /\ lost' = lost + 1 /\ UNCHANGED vars
        /\ UNCHANGED <<zeroed_at, usb_total, usb_lost, ep_total, ep_lost,
                       dropped_samples_total, known, misled>>
    BY <1>1 DEF DropSample
  <2>2. UNCHANGED <<phase, usb_in, in_ep, host>>
    BY <2>1 DEF vars, deviceVars, hostVars
  <2>3. \A n \in Nat : n <= lost => n <= lost'
    BY <2>1 DEF LossInts
  <2>4. {known, ep_lost} \subseteq Nat
    BY DEF LossInts
  <2> QED
    BY <2>1, <2>2, <2>3, <2>4 DEF Reported, SendingSamples, Since
<1>2. CASE ZeroCount
  <2>1. Requested /\ UNCHANGED <<host, misled>>
    BY <1>2 DEF ZeroCount, DeviceRead, Requested, hostVars
  <2>2. host # "stream"
    BY <1>0, <2>1 DEF Orderly, OwnStream
  <2> QED
    BY <2>1, <2>2
<1>3. CASE LoadCount
  <2>1. /\ usb_lost' = lost
        /\ UNCHANGED <<lost, zeroed_at, ep_total, ep_lost, in_ep, host, known,
                       dropped_samples_total, misled>>
    BY <1>3 DEF LoadCount, DeviceStream, hostVars
  <2> QED
    BY <2>1 DEF Reported, Since
<1>4. CASE MoveCount
  <2>1. /\ ep_total' = usb_total /\ ep_lost' = usb_lost
        /\ in_ep' = usb_in /\ phase' = "busy"
        /\ phase \in {"replying", "sending"}
        /\ UNCHANGED <<lost, zeroed_at, host, known, dropped_samples_total,
                       misled>>
    BY <1>4 DEF MoveCount, DeviceWrite, Replied, Streamed, hostVars
  <2>2. in_ep'.type = "TraceSample" => SendingSamples
    BY <1>0, <2>1 DEF HostTypes, DeviceInv, SendingSamples
  <2>3. ~SendingSamples'
    BY <2>1 DEF SendingSamples
  <2> QED
    BY <2>1, <2>2, <2>3 DEF Reported, Loaded, Since
<1>5. CASE Begin
  <2>1. /\ in_ep' = NoPacket /\ known' = zeroed_at
        /\ dropped_samples_total' = 0 /\ ~misled'
    BY <1>5 DEF Begin, ReadReply
  <2>2. /\ UNCHANGED <<lost, zeroed_at, usb_lost>>
        /\ SendingSamples' => SendingSamples
    BY <1>0, <1>5, PacketsKept
  <2>3. (zeroed_at - zeroed_at) % CounterMod = 0 /\ zeroed_at <= zeroed_at
    BY ZeroSince DEF LossInts
  <2>4. Reported'
    BY <2>1, <2>2, <2>3 DEF Reported, Counted, Loaded, Since, NoPacket
  <2> QED
    BY <2>1, <2>4
<1>6. CASE Update
  <2>1. /\ host = "stream" /\ in_ep.type = "TraceSample" /\ in_ep' = NoPacket
        /\ dropped_delta' = Delta(ep_total, dropped_samples_total)
        /\ dropped_samples_total' = ep_total /\ known' = ep_lost
        /\ misled' = \/ misled
                     \/ ep_lost < known
                     \/ dropped_delta' # (ep_lost - known) % CounterMod
    BY <1>6 DEF Update, ReadStream
  <2>2. /\ UNCHANGED <<lost, zeroed_at, usb_lost>>
        /\ SendingSamples' => SendingSamples
    BY <1>0, <1>6, PacketsKept
  <2>3. Reported
    BY <2>1
  <2>4. dropped_delta' = (ep_lost - known) % CounterMod
    <3> DEFINE a == ep_lost - zeroed_at
               b == known - zeroed_at
    <3>1. a \in Int /\ b \in Int /\ a - b = ep_lost - known
      BY DEF LossInts
    <3>2. dropped_delta' = ((a % CounterMod) - (b % CounterMod)) % CounterMod
      BY <2>1, <2>3 DEF Delta, Reported, Since
    <3> HIDE DEF a, b
    <3>3. ((a % CounterMod) - (b % CounterMod)) % CounterMod
              = (a - b) % CounterMod
      BY <3>1, CounterAssumption, ModSub
    <3> QED
      BY <3>1, <3>2, <3>3, Zenon
  <2>5. known <= ep_lost => ~(ep_lost < known)
    BY DEF LossInts
  <2>6. ~misled'
    BY <2>1, <2>3, <2>4, <2>5 DEF Reported
  <2>7. zeroed_at <= ep_lost
    BY <2>1, <2>3 DEF Reported, LossInts
  <2>8. Reported'
    BY <2>1, <2>2, <2>3, <2>7 DEF Reported, Since, NoPacket
  <2> QED
    BY <2>6, <2>8
<1>7. CASE Uncounted
  <2>1. CASE host' = "stream"
    <3>1. host = "stream"
      BY <1>7, <2>1 DEF Uncounted, Open, WritePacket, WriteTimeout,
         ReadStream, StopPolling, Interrupt, Kill, Cut, ReadTail,
         DeviceConnect, DevicePoll, DeviceRest, DeviceStream, hostVars
    <3>2. UNCHANGED <<dropped_samples_total, known, misled>>
      BY <1>7, <2>1 DEF Uncounted
    <3>3. Reported'
      BY <1>0, <1>7, <3>1, <3>2, PacketsKept DEF Reported, Since
    <3> QED
      BY <3>2, <3>3
  <2>2. CASE host' # "stream"
    BY <1>7, <2>2 DEF Uncounted
  <2> QED
    BY <2>1, <2>2
<1> QED
  BY <1>1, <1>2, <1>3, <1>4, <1>5, <1>6, <1>7 DEF LossNext

LEMMA LossInvStep == LossInv /\ [LossNext]_lossVars => LossInv'
<1> SUFFICES ASSUME LossInv, [LossNext]_lossVars PROVE LossInv'
  OBVIOUS
<1>1. OwnInv' /\ LossTypeOK' /\ [Next]_vars /\ LossInts
  BY LossSteps, OwnStep, LossTypesStep, AreInts DEF LossInv
<1>2. CASE UNCHANGED lossVars
  <2>1. /\ UNCHANGED <<trace_queue_drop_count, lost, zeroed_at, usb_total,
                       usb_lost, ep_total, ep_lost, dropped_samples_total,
                       known, misled>>
        /\ UNCHANGED <<phase, usb_in, in_ep, host, deadlines, stranded>>
    BY <1>2 DEF lossVars, packetVars, reportVars, vars, deviceVars, hostVars,
       faults
  <2> QED
    BY <1>1, <2>1
    DEF LossInv, Counted, Loaded, SendingSamples, Reported, Since, FewStranded
<1>3. CASE LossNext
  <2>1. Counted' /\ Loaded'
    BY <1>1, <1>3, CountedStep, LoadedStep DEF LossInv, OwnInv
  <2>2. ASSUME FewStranded'
        PROVE  ~misled' /\ (host' = "stream" => Reported')
    <3>1. FewStranded /\ (Next => ~Deadline)
      <4>1. UNCHANGED vars => FewStranded
        BY <2>2 DEF vars, hostVars, faults, FewStranded
      <4> QED
        BY <1>1, <2>2, <4>1, FewBefore DEF LossInv, OwnInv
    <3>2. ~Deadline
      <4>1. Deadline => Next
        BY DEF Next, Program
      <4> QED
        BY <3>1, <4>1
    <3> QED
      BY <1>1, <1>3, <3>1, <3>2, ReportedStep DEF LossInv
  <2> QED
    BY <1>1, <2>1, <2>2 DEF LossInv
<1> QED
  BY <1>2, <1>3

\* The loss a program reports with a packet is what the bridge dropped since
\* the packet before, up to a wrap of the counter, unless a wait timed out or
\* two programs ended waiting for an answer (main.rs lines 286-301).
THEOREM ReportsTrue == LossSpec => []LossesTrue
<1>1. LossInv => LossesTrue
  <2> SUFFICES ASSUME LossInv, misled PROVE deadlines > 0 \/ stranded > 1
    BY DEF LossesTrue
  <2>1. deadlines \in Nat /\ stranded \in Nat /\ ~FewStranded
    BY SessionAssumption DEF LossInv, OwnInv, HostTypes, TypeOK
  <2> QED
    BY <2>1 DEF FewStranded
<1> QED
  BY <1>1, LossInvInit, LossInvStep, PTL DEF LossSpec
=============================================================================
