----------------------------- MODULE HostProofs ------------------------------
(***************************************************************************)
(* Machine-checked proofs about HostSession, for every number of programs,  *)
(* faults and sequence numbers.                                             *)
(***************************************************************************)
EXTENDS HostSession, TLAPS

-----------------------------------------------------------------------------
(* The programs.                                                            *)

\* What the packet of a mode command holds.
IsModeCommand(r) ==
    /\ r.type \in {"CaptureSet", "TelemetrySet"}
    /\ r.seq \in {1, 2} /\ r.on \in BOOLEAN

LEMMA ModeCommands ==
    \A n \in {1, 2}, on \in BOOLEAN :
        IsModeCommand(CAPTURE_SET(n, on)) /\ IsModeCommand(TELEMETRY_SET(n, on))
  BY DEF CAPTURE_SET, TELEMETRY_SET, IsModeCommand

\* A script has up to three mode commands and streams after one of them.
IsScript(s, after) ==
    /\ Len(s) \in 1..3 /\ after \in 0..Len(s)
    /\ \A i \in 1..Len(s) : IsModeCommand(s[i])

LEMMA Scripts ==
    ASSUME NEW a, NEW b, NEW d,
           IsModeCommand(a), IsModeCommand(b), IsModeCommand(d)
    PROVE  /\ IsScript(<<a>>, 0)
           /\ IsScript(<<a, b>>, 0) /\ IsScript(<<a, b>>, 2)
           /\ IsScript(<<a, b, d>>, 2)
<1>1. IsScript(<<a>>, 0)
  BY DEF IsScript
<1>2. \A after \in {0, 2} : IsScript(<<a, b>>, after)
  <2>1. \A i \in 1..2 : i = 1 \/ i = 2
    OBVIOUS
  <2> QED
    BY <2>1 DEF IsScript
<1>3. IsScript(<<a, b, d>>, 2)
  <2>1. \A i \in 1..3 : i = 1 \/ i = 2 \/ i = 3
    OBVIOUS
  <2> QED
    BY <2>1 DEF IsScript
<1> QED
  BY <1>1, <1>2, <1>3

LEMMA ScriptOf ==
    /\ Script["monitor_on"]
           = <<CAPTURE_SET(1, FALSE), TELEMETRY_SET(2, TRUE)>>
    /\ Script["monitor_off"]
           = <<CAPTURE_SET(1, FALSE), TELEMETRY_SET(2, FALSE)>>
    /\ Script["monitor"] = <<CAPTURE_SET(1, FALSE), TELEMETRY_SET(2, TRUE)>>
    /\ Script["capture_on"] = <<CAPTURE_SET(1, TRUE)>>
    /\ Script["capture_off"] = <<CAPTURE_SET(1, FALSE)>>
    /\ Script["capture"] = <<CAPTURE_SET(1, TRUE), TELEMETRY_SET(2, FALSE)>>
    /\ Script["decode"] = <<TELEMETRY_SET(1, FALSE), CAPTURE_SET(2, TRUE)>>
    /\ Script["python"] = <<CAPTURE_SET(1, FALSE), TELEMETRY_SET(2, TRUE),
                            TELEMETRY_SET(1, FALSE)>>
  BY DEF Script

LEMMA ScriptFacts ==
    ASSUME NEW c \in Commands
    PROVE  IsScript(Script[c], StreamAfter[c])
<1>1. c \in {"monitor_on", "monitor_off", "monitor", "capture_on",
             "capture_off", "capture", "decode", "python"}
  BY DEF Commands, Script
<1>2. StreamAfter[c] = IF c \in {"monitor", "capture", "decode", "python"}
                       THEN 2 ELSE 0
  BY DEF StreamAfter
<1>3. CASE c \in {"capture_on", "capture_off", "monitor_on", "monitor_off"}
  BY <1>2, <1>3, ScriptOf, ModeCommands, Scripts, Zenon
<1>4. CASE c \in {"monitor", "capture", "decode", "python"}
  BY <1>2, <1>4, ScriptOf, ModeCommands, Scripts, Zenon
<1> QED
  BY <1>1, <1>3, <1>4

\* Every program has a first command.
LEMMA FirstStep ==
    ASSUME NEW c \in Commands
    PROVE  1 \in 1..Len(Script[c])
<1>1. \A s, after : IsScript(s, after) => 1 \in 1..Len(s)
  BY DEF IsScript
<1> QED
  BY <1>1, ScriptFacts, Zenon

LEMMA RequestType ==
    ASSUME command \in Commands, step \in 1..Len(Script[command]),
           session \in 0..MaxSessions
    PROVE  /\ Request \in ModeRequests /\ Tag \in Tags
           /\ Request.type = Script[command][step].type
           /\ Request.seq = Script[command][step].seq
           /\ Request.on = Script[command][step].on
           /\ Request.tag = Tag
           /\ Request # NoPacket
<1>0. IsScript(Script[command], StreamAfter[command])
  BY ScriptFacts
<1>1. step \in 0..3 /\ Tag \in Tags
  BY <1>0, SessionAssumption DEF Tag, IsScript
<1>2. /\ Script[command][step].type \in {"CaptureSet", "TelemetrySet"}
      /\ Script[command][step].seq \in Seqs
      /\ Script[command][step].on \in BOOLEAN
  BY <1>0, SessionAssumption DEF IsScript, IsModeCommand
<1> HIDE DEF Script, Tag
<1> QED
  BY <1>1, <1>2 DEF Request, ModeRequests, NoPacket

-----------------------------------------------------------------------------
(* Types.                                                                   *)

\* What is in the device's hands, and that its bursts are bounded.
DeviceInv ==
    /\ phase = "replying" => usb_in.type = "Ack"
    /\ phase = "sending" => usb_in.type \in {"TraceSample", "Telemetry"}
                            /\ sent < Burst
    /\ phase \notin {"replying", "sending"} => usb_in = NoPacket

\* Each program is stranded at most once, at its end.
Strandings ==
    /\ stranded <= session
    /\ host \in {"write", "wait", "stream"} => stranded < session

HostTypes == TypeOK /\ DeviceInv /\ Strandings

LEMMA TypesInit == Init => HostTypes
<1> SUFFICES ASSUME Init PROVE HostTypes
  OBVIOUS
<1>1. step \in 1..Len(Script[command])
  <2>1. command \in Commands /\ step = 1
    BY Zenon DEF Init, HostInit
  <2> QED
    BY <2>1, FirstStep, Zenon
<1>2. NoPacket \in Packets
  BY DEF Packets
<1>3. /\ 0 \in 0..Burst /\ 0 \in 0..MaxSessions /\ 0 \in 0..MaxKills
      /\ 0 \in 0..MaxCuts /\ 0 \in 0..MaxDeadlines
  BY SessionAssumption, DeviceAssumption
<1>4. TypeOK
  BY <1>1, <1>2, <1>3, DeviceAssumption, Zenon
  DEF Init, DeviceInit, HostInit, TypeOK
<1>5. DeviceInv /\ Strandings
  BY DEF Init, DeviceInit, HostInit, DeviceInv, Strandings
<1> QED
  BY <1>4, <1>5 DEF HostTypes

\* The program a session runs, and where in it.
HostTypeOK ==
    /\ in_ep \in Packets \cup {[type |-> "Tail"]}
    /\ out_ep \in ModeRequests \cup {NoPacket}
    /\ asked \in Tags
    /\ host \in {"none", "write", "wait", "stream", "done"}
    /\ command \in Commands /\ step \in 1..Len(Script[command])
    /\ replies_empty \in BOOLEAN /\ foreign \in BOOLEAN
    /\ session \in 0..MaxSessions
    /\ kills \in 0..MaxKills /\ cuts \in 0..MaxCuts
    /\ deadlines \in 0..MaxDeadlines
    /\ stranded \in 0..MaxSessions

LEMMA OkTypes ==
    ASSUME command \in Commands, step \in 1..Len(Script[command]),
           TransactOk
    PROVE  /\ host' \in {"write", "stream", "done"}
           /\ step' \in 1..Len(Script[command])
<1>1. Len(Script[command]) \in Nat
  BY ScriptFacts DEF IsScript
<1> HIDE DEF Script
<1> QED
  BY <1>1 DEF TransactOk

LEMMA ProgramTypes == HostTypes /\ Program => HostTypes'
<1> SUFFICES ASSUME HostTypes, Program PROVE HostTypes'
  OBVIOUS
<1> USE DEF hostVars, faults
<1>0. /\ NoPacket \in Packets /\ NoPacket \in Packets \cup {[type |-> "Tail"]}
      /\ MaxSessions \in Nat /\ MaxKills \in Nat
      /\ MaxCuts \in Nat /\ MaxDeadlines \in Nat
      /\ HostTypeOK
  BY SessionAssumption DEF Packets, HostTypes, TypeOK, HostTypeOK
<1>1. UNCHANGED deviceVars
  BY DEF Program, Open, WritePacket, WriteTimeout, ReadReply, Deadline,
         ReadStream, StopPolling, Interrupt, Kill, Cut, ReadTail
<1>2. DeviceInv' /\ (HostTypeOK' => TypeOK')
  BY <1>1 DEF HostTypes, DeviceInv, TypeOK, HostTypeOK, deviceVars, mode,
              NoPacket
<1>n. Strandings /\ session \in Nat /\ stranded \in Nat
  BY <1>0 DEF HostTypes, HostTypeOK
<1>3. CASE Open
  <2>1. step' \in 1..Len(Script[command'])
    <3>1. command' \in Commands /\ step' = 1
      BY <1>3, Zenon DEF Open
    <3> QED
      BY <3>1, FirstStep, Zenon
  <2>2. session' \in 0..MaxSessions
    BY <1>0, <1>3 DEF Open, HostTypeOK
  <2>3. HostTypeOK'
    BY <1>0, <1>3, <2>1, <2>2, Zenon DEF Open, HostTypeOK
  <2>4. Strandings'
    BY <1>n, <1>3 DEF Open, Strandings
  <2> QED
    BY <1>2, <2>3, <2>4 DEF HostTypes
<1>4. CASE WritePacket
  <2>1. Request \in ModeRequests /\ Tag \in Tags
    BY <1>0, RequestType DEF HostTypeOK
  <2>2. HostTypeOK'
    BY <1>0, <1>4, <2>1, Zenon DEF WritePacket, HostTypeOK
  <2>3. Strandings'
    BY <1>n, <1>4 DEF WritePacket, Strandings
  <2> QED
    BY <1>2, <2>2, <2>3 DEF HostTypes
<1>5. CASE WriteTimeout \/ Interrupt
  <2>1. HostTypeOK'
    BY <1>0, <1>5, Zenon DEF WriteTimeout, Interrupt, HostTypeOK
  <2>2. Strandings'
    BY <1>n, <1>5 DEF WriteTimeout, Interrupt, Strandings
  <2> QED
    BY <1>2, <2>1, <2>2 DEF HostTypes
<1>6. CASE ReadReply
  <2>1. /\ host' \in {"write", "wait", "stream", "done"}
        /\ step' \in 1..Len(Script[command])
    BY <1>0, <1>6, OkTypes, Zenon DEF ReadReply, HostTypeOK
  <2>2. HostTypeOK'
    BY <1>0, <1>6, <2>1, Zenon DEF ReadReply, HostTypeOK
  <2>3. Strandings'
    BY <1>n, <1>6 DEF ReadReply, Strandings
  <2> QED
    BY <1>2, <2>2, <2>3 DEF HostTypes
<1>7. CASE Deadline
  <2>1. /\ host' \in {"none", "write", "stream", "done"}
        /\ step' \in 1..Len(Script[command])
    BY <1>0, <1>7, OkTypes, Zenon DEF Deadline, HostTypeOK
  <2>2. deadlines' \in 0..MaxDeadlines
    BY <1>0, <1>7 DEF Deadline, HostTypeOK
  <2>3. HostTypeOK'
    BY <1>0, <1>7, <2>1, <2>2, Zenon DEF Deadline, HostTypeOK
  <2>4. Strandings'
    BY <1>n, <1>7 DEF Deadline, Strandings
  <2> QED
    BY <1>2, <2>3, <2>4 DEF HostTypes
<1>8. CASE ReadStream
  <2>1. foreign' \in BOOLEAN
    BY <1>0, <1>8 DEF ReadStream, HostTypeOK
  <2>2. HostTypeOK'
    BY <1>0, <1>8, <2>1, Zenon DEF ReadStream, HostTypeOK
  <2>3. Strandings'
    BY <1>n, <1>8 DEF ReadStream, Strandings
  <2> QED
    BY <1>2, <2>2, <2>3 DEF HostTypes
<1>9. CASE StopPolling
  <2>1. step' \in 1..Len(Script[command])
    <3>1. Len(Script[command]) \in Nat
      BY <1>0, ScriptFacts DEF IsScript, HostTypeOK
    <3> HIDE DEF Script
    <3> QED
      BY <1>0, <1>9, <3>1 DEF StopPolling, HostTypeOK
  <2>2. HostTypeOK'
    BY <1>0, <1>9, <2>1, Zenon DEF StopPolling, HostTypeOK
  <2>3. Strandings'
    BY <1>n, <1>9 DEF StopPolling, Strandings
  <2> QED
    BY <1>2, <2>2, <2>3 DEF HostTypes
<1>10. CASE Kill \/ Cut \/ ReadTail
  <2>1. /\ kills' \in 0..MaxKills /\ cuts' \in 0..MaxCuts
        /\ in_ep' \in Packets \cup {[type |-> "Tail"]}
        /\ host \in {"write", "wait", "stream"}
        /\ host' \in {host, "none"} /\ Strand
        /\ UNCHANGED <<out_ep, command, step, replies_empty, session,
                       deadlines, asked, foreign>>
    BY <1>0, <1>10 DEF Kill, Cut, ReadTail, HostTypeOK
  <2>2. stranded' \in 0..MaxSessions /\ Strandings'
    BY <1>0, <1>n, <2>1 DEF Strand, Strandings, HostTypeOK
  <2>3. HostTypeOK'
    BY <1>0, <2>1, <2>2, Zenon DEF HostTypeOK
  <2> QED
    BY <1>2, <2>2, <2>3 DEF HostTypes
<1> QED
  BY <1>3, <1>4, <1>5, <1>6, <1>7, <1>8, <1>9, <1>10 DEF Program

LEMMA DeviceTypes == HostTypes /\ Device => HostTypes'
<1> SUFFICES ASSUME HostTypes, Device PROVE HostTypes'
  OBVIOUS
<1> USE DEF mode
<1>0. /\ NoPacket \in Packets
      /\ Burst \in Nat \ {0}
      /\ HostTypeOK
      /\ phase \in {"offline", "ready", "replying", "busy", "sending"}
      /\ capture_enabled \in BOOLEAN /\ telemetry_enabled \in BOOLEAN
      /\ gate \in BOOLEAN /\ late \in BOOLEAN
      /\ sent \in 0..Burst /\ usb_in \in Packets /\ owner \in Tags
      /\ DeviceInv /\ Strandings
  BY DeviceAssumption DEF Packets, HostTypes, TypeOK, HostTypeOK
<1>1. /\ UNCHANGED hostVars /\ Strandings'
      /\ (HostTypeOK <=> /\ in_ep \in Packets \cup {[type |-> "Tail"]}
                         /\ out_ep \in ModeRequests \cup {NoPacket})'
  <2>1. UNCHANGED hostVars
    BY DEF Device, DeviceConnect, DeviceRead, DevicePoll, DeviceWrite,
           DeviceStream, DeviceRest
  <2> QED
    BY <1>0, <2>1, Zenon DEF hostVars, faults, Strandings, HostTypeOK
<1>2. CASE DeviceConnect \/ DevicePoll \/ DeviceRest
  <2>1. /\ UNCHANGED <<mode, late, usb_in, in_ep, out_ep>>
        /\ sent' \in {0, sent} /\ phase' \in {"ready", "busy"}
        /\ phase \in {"offline", "ready", "busy"}
    BY <1>2 DEF DeviceConnect, Connect, DevicePoll, Poll, DeviceRest, Rest
  <2>t. /\ sent' \in 0..Burst /\ usb_in' \in Packets
        /\ phase' \in {"offline", "ready", "replying", "busy", "sending"}
    <3>1. 0 \in 0..Burst
      BY DeviceAssumption
    <3> QED
      BY <1>0, <2>1, <3>1
  <2>2. TypeOK'
    <3>1. UNCHANGED <<owner, capture_enabled, telemetry_enabled, gate>>
      BY <1>2
      DEF DeviceConnect, Connect, DevicePoll, Poll, DeviceRest, Rest, mode
    <3> QED
      BY <1>0, <1>1, <2>1, <2>t, <3>1, Zenon DEF TypeOK, HostTypeOK, hostVars
  <2>3. DeviceInv'
    BY <1>0, <2>1 DEF DeviceInv
  <2> QED
    BY <1>1, <2>2, <2>3 DEF HostTypes
<1>3. CASE DeviceRead
  <2>1. out_ep \in ModeRequests
    BY <1>0, <1>3 DEF DeviceRead, HostTypeOK
  <2>2. /\ out_ep.seq \in Seqs /\ out_ep.tag \in Tags
        /\ out_ep.on \in BOOLEAN
    BY <2>1 DEF ModeRequests
  <2>3. usb_in' \in Packets /\ usb_in'.type = "Ack"
    BY <1>3, <2>2 DEF DeviceRead, SetMode, Reply, Packets
  <2>4. /\ phase' = "replying" /\ UNCHANGED <<sent, in_ep>>
        /\ out_ep' = NoPacket
        /\ capture_enabled' \in BOOLEAN /\ telemetry_enabled' \in BOOLEAN
        /\ gate' \in BOOLEAN /\ late' \in BOOLEAN /\ owner' \in Tags
    BY <1>3, <2>2 DEF DeviceRead, SetMode
  <2>5. TypeOK'
    BY <1>0, <1>1, <2>3, <2>4 DEF TypeOK, HostTypeOK
  <2>6. DeviceInv'
    BY <2>3, <2>4 DEF DeviceInv
  <2> QED
    BY <1>1, <2>5, <2>6 DEF HostTypes
<1>4. CASE DeviceWrite
  <2>1. /\ UNCHANGED <<mode, late, out_ep>>
        /\ usb_in' = NoPacket /\ phase' = "busy" /\ in_ep' = usb_in
        /\ sent' = sent \/ (sent' = sent + 1 /\ phase = "sending")
    BY <1>4 DEF DeviceWrite, Replied, Streamed
  <2>2. sent' \in 0..Burst
    BY <1>0, <2>1 DEF DeviceInv
  <2>3. TypeOK'
    BY <1>0, <1>1, <2>1, <2>2 DEF TypeOK, HostTypeOK
  <2>4. DeviceInv'
    BY <2>1 DEF DeviceInv
  <2> QED
    BY <1>1, <2>3, <2>4 DEF HostTypes
<1>5. CASE DeviceStream
  <2>1. /\ UNCHANGED <<mode, sent, out_ep, in_ep>> /\ sent < Burst
        /\ late' \in BOOLEAN /\ phase' = "sending"
        /\ usb_in' \in Packets /\ usb_in'.type \in {"TraceSample", "Telemetry"}
    BY <1>0, <1>5
    DEF DeviceStream, StreamSamples, StreamTelemetry, StreamPacket, Packets
  <2>2. TypeOK'
    BY <1>0, <1>1, <2>1 DEF TypeOK, HostTypeOK
  <2>3. DeviceInv'
    BY <2>1 DEF DeviceInv
  <2> QED
    BY <1>1, <2>2, <2>3 DEF HostTypes
<1> QED
  BY <1>2, <1>3, <1>4, <1>5 DEF Device

LEMMA TypesStep == HostTypes /\ [Next]_vars => HostTypes'
<1>1. HostTypes /\ UNCHANGED vars => HostTypes'
  BY DEF HostTypes, TypeOK, DeviceInv, Strandings, vars, deviceVars, mode,
         hostVars, faults
<1> QED
  BY <1>1, ProgramTypes, DeviceTypes DEF Next

\* Programs, endpoints and device keep to their types, for any number of
\* programs and faults.
THEOREM SessionTypes == SessionSpec => []TypeOK
  BY TypesInit, TypesStep, PTL DEF SessionSpec, HostTypes

-----------------------------------------------------------------------------
(* The conversation of a program that is left alone.                        *)

Answers == {"Ack", "Nack"}
Replying == phase = "replying"
Answered == in_ep.type \in Answers

\* The last mode command written is in force.
InForce ==
    LET last == Script[command][step]
    IN  /\ owner = asked
        /\ gate = last.on
        /\ capture_enabled = (last.on <=> last.type = "CaptureSet")
        /\ telemetry_enabled = (last.on <=> last.type = "TelemetrySet")

\* Of a request and its answer there is one thing under way at a time: the
\* request in its endpoint, the answer in the device, or in its endpoint.
OneAtATime ==
    \/ /\ out_ep = Request /\ asked = Tag
       /\ ~Replying /\ ~Answered
    \/ /\ out_ep = NoPacket /\ InForce
       /\ Replying /\ ~Answered
       /\ usb_in.seq = Script[command][step].seq
    \/ /\ out_ep = NoPacket /\ InForce
       /\ ~Replying /\ Answered
       /\ in_ep.seq = Script[command][step].seq

\* Nothing is left of it when the program does not wait.
Conversation ==
    /\ host = "wait" => OneAtATime
    /\ host # "wait" => out_ep = NoPacket /\ ~Replying /\ ~Answered

\* A program that went through is where its script ends or streams.
Arrived ==
    /\ Succeeded => InForce
    /\ host = "done" => step = Len(Script[command])
    /\ host = "stream" => step = StreamAfter[command]

SessionInv ==
    /\ HostTypes
    /\ Undisturbed => Conversation /\ Arrived

LEMMA SessionInit == Init => SessionInv
<1> SUFFICES ASSUME Init PROVE SessionInv
  OBVIOUS
<1>1. HostTypes
  BY TypesInit
<1>2. Conversation /\ Arrived
  BY DEF Init, DeviceInit, HostInit, NoPacket, Conversation, Arrived,
         Succeeded, Replying, Answered, Answers
<1> QED
  BY <1>1, <1>2 DEF SessionInv

\* What a program leaves undisturbed was undisturbed.
LEMMA Disturbances ==
    ASSUME HostTypes, HostTypes', Next, Undisturbed'
    PROVE  Undisturbed /\ UNCHANGED <<stranded, deadlines>> /\ ~Deadline
<1>0. /\ stranded \in Nat /\ deadlines \in Nat
      /\ stranded' \in Nat /\ deadlines' \in Nat
  BY SessionAssumption DEF HostTypes, TypeOK
<1>n. stranded' = 0 /\ deadlines' = 0
  <2>1. \A a, b \in Nat : a + b = 0 => a = 0 /\ b = 0
    OBVIOUS
  <2>2. stranded' + deadlines' = 0
    BY DEF Undisturbed
  <2> QED
    BY <1>0, <2>1, <2>2, Zenon
<1>d. ~Deadline
  BY <1>0, <1>n DEF Deadline
<1>1. CASE Device
  <2>1. UNCHANGED <<stranded, deadlines>>
    BY <1>1 DEF Device, DeviceConnect, DeviceRead, DevicePoll,
       DeviceWrite, DeviceStream, DeviceRest, hostVars, faults
  <2> QED
    BY <1>n, <1>d, <2>1 DEF Undisturbed
<1>2. CASE Program
  <2>1. \/ UNCHANGED <<stranded, deadlines>>
        \/ Deadline
        \/ Strand /\ UNCHANGED deadlines
    BY <1>2 DEF Program, Open, WritePacket, WriteTimeout, ReadReply,
       ReadStream, StopPolling, Interrupt, Kill, Cut, ReadTail, faults
  <2>2. UNCHANGED <<stranded, deadlines>>
    BY <1>0, <1>n, <1>d, <2>1 DEF Strand
  <2> QED
    BY <1>n, <1>d, <2>2 DEF Undisturbed
<1> QED
  BY <1>1, <1>2 DEF Next

\* No packet of the stream, and no tail of one, is an answer.
LEMMA Kinds ==
    /\ NoPacket.type = "None" /\ NoPacket.type \notin Answers
    /\ \A p : p.type \in {"TraceSample", "Telemetry", "Tail", "None"} =>
              p.type \notin Answers
    /\ \A p \in ModeRequests : p # NoPacket
  BY DEF NoPacket, Answers, ModeRequests

\* A program's own steps: what it writes and what it reads.
LEMMA ProgramConverses ==
    ASSUME HostTypes, Conversation, Arrived, Program, ~Deadline,
           UNCHANGED stranded, stranded \in Nat
    PROVE  Conversation' /\ Arrived'
<1>0. /\ UNCHANGED deviceVars
      /\ command \in Commands /\ step \in 1..Len(Script[command])
      /\ session \in 0..MaxSessions
  BY DEF Program, Open, WritePacket, WriteTimeout, ReadReply, Deadline,
         ReadStream, StopPolling, Interrupt, Kill, Cut, ReadTail, HostTypes,
         TypeOK
<1>1. /\ Replying' = Replying
      /\ UNCHANGED <<capture_enabled, telemetry_enabled, gate, owner, usb_in>>
  BY <1>0 DEF Replying, deviceVars, mode
<1> USE DEF Conversation, Arrived
<1>2. CASE Open
  <2>1. /\ host \in {"none", "done"} /\ host' = "write"
        /\ UNCHANGED <<out_ep, in_ep>>
    BY <1>2 DEF Open
  <2> QED
    BY <1>1, <2>1 DEF Answered, Succeeded
<1>3. CASE WritePacket
  <2>1. /\ host = "write" /\ host' = "wait"
        /\ out_ep' = Request /\ asked' = Tag
        /\ UNCHANGED <<in_ep, command, step, session>>
    BY <1>3 DEF WritePacket
  <2>2. Request' = Request /\ Tag' = Tag
    BY <2>1 DEF Request, Tag
  <2>3. OneAtATime'
    BY <1>1, <2>1, <2>2 DEF OneAtATime, Answered
  <2> QED
    BY <2>1, <2>3 DEF Succeeded
<1>4. CASE WriteTimeout
  BY <1>4 DEF WriteTimeout
<1>5. CASE ReadReply
  <2>1. /\ host = "wait" /\ in_ep' = NoPacket
        /\ in_ep.type \notin {"None", "Tail"}
        /\ UNCHANGED <<out_ep, command, session, asked>>
    BY <1>5 DEF ReadReply
  <2>2. ~Answered'
    BY <2>1, Kinds DEF Answered
  <2>3. CASE Answered
    <3>1. /\ out_ep = NoPacket /\ InForce /\ ~Replying
          /\ in_ep.seq = Script[command][step].seq
      BY <2>1, <2>3 DEF OneAtATime
    <3>2. TransactOk
      BY <1>5, <2>3, <3>1 DEF ReadReply, Done, Answered, Answers
    <3>3. host' \in {"write", "stream", "done"}
      BY <3>2 DEF TransactOk
    <3>4. Conversation'
      BY <1>1, <2>1, <2>2, <3>1, <3>3
    <3>5. host' \in {"stream", "done"} =>
            /\ step' = step
            /\ host' = "stream" => step = StreamAfter[command]
            /\ host' = "done" => step = Len(Script[command])
      <4>1. Len(Script[command]) \in Nat
        BY <1>0, ScriptFacts DEF IsScript
      <4> HIDE DEF Script, StreamAfter
      <4> QED
        BY <1>0, <3>2, <4>1 DEF TransactOk
    <3>6. Succeeded' => InForce'
      BY <1>1, <2>1, <3>1, <3>5 DEF Succeeded, InForce
    <3> QED
      BY <2>1, <3>4, <3>5, <3>6
  <2>4. CASE ~Answered
    <3>1. UNCHANGED <<host, step>>
      BY <1>5, <2>4 DEF ReadReply, Done, Answered, Answers
    <3>2. Request' = Request /\ Tag' = Tag /\ InForce' = InForce
      BY <1>1, <2>1, <3>1 DEF Request, Tag, InForce
    <3>3. OneAtATime'
      BY <1>1, <2>1, <2>2, <2>4, <3>1, <3>2 DEF OneAtATime
    <3> QED
      BY <2>1, <3>1, <3>3 DEF Succeeded
  <2> QED
    BY <2>3, <2>4
<1>6. CASE ReadStream
  <2>1. /\ host = "stream" /\ in_ep' = NoPacket
        /\ UNCHANGED <<out_ep, host, command, step, asked>>
    BY <1>6 DEF ReadStream
  <2>2. InForce' = InForce
    BY <1>1, <2>1 DEF InForce
  <2> QED
    BY <1>1, <2>1, <2>2, Kinds DEF Answered, Succeeded
<1>7. CASE StopPolling \/ Interrupt
  <2>1. /\ host = "stream" /\ host' \in {"none", "write"}
        /\ UNCHANGED <<out_ep, in_ep>>
    BY <1>7 DEF StopPolling, Interrupt
  <2> QED
    BY <1>1, <2>1 DEF Answered, Succeeded
<1>8. CASE Kill \/ Cut \/ ReadTail
  <2>1. /\ host' \in {host, "none"} /\ host \in {"write", "wait", "stream"}
        /\ Strand
        /\ UNCHANGED <<out_ep, command, step, session, asked>>
        /\ \/ UNCHANGED in_ep
           \/ in_ep.type \in {"TraceSample", "Tail"}
              /\ in_ep'.type \in {"Tail", "None"}
    BY <1>8, Kinds DEF Kill, Cut, ReadTail
  <2>2. ~(host = "wait" /\ host' = "none")
    BY <2>1 DEF Strand
  <2>3. Answered' = Answered /\ (Answered => in_ep' = in_ep)
    BY <2>1, Kinds DEF Answered, Answers
  <2>4. Request' = Request /\ Tag' = Tag /\ InForce' = InForce
    BY <1>1, <2>1 DEF Request, Tag, InForce
  <2>5. Conversation'
    BY <1>1, <2>1, <2>2, <2>3, <2>4 DEF OneAtATime
  <2>6. Arrived'
    BY <2>1, <2>4 DEF Succeeded
  <2> QED
    BY <2>5, <2>6
<1> QED
  BY <1>2, <1>3, <1>4, <1>5, <1>6, <1>7, <1>8 DEF Program

\* The device's steps: a request is put in force and answered.
LEMMA DeviceConverses ==
    ASSUME HostTypes, Conversation, Arrived, Device
    PROVE  Conversation' /\ Arrived'
<1>0. /\ UNCHANGED <<host, command, step, session, asked>>
      /\ command \in Commands /\ step \in 1..Len(Script[command])
      /\ session \in 0..MaxSessions
      /\ DeviceInv
  BY DEF Device, DeviceConnect, DeviceRead, DevicePoll, DeviceWrite,
         DeviceStream, DeviceRest, hostVars, HostTypes, TypeOK
<1>1. Request' = Request /\ Tag' = Tag /\ Succeeded' = Succeeded
  BY <1>0 DEF Request, Tag, Succeeded
<1> USE DEF Conversation, Arrived
<1>2. CASE DeviceConnect \/ DevicePoll \/ DeviceRest \/ DeviceStream
  <2>1. /\ UNCHANGED <<out_ep, in_ep, mode>> /\ ~Replying /\ ~Replying'
    BY <1>2 DEF DeviceConnect, Connect, DevicePoll, Poll, DeviceRest, Rest,
       DeviceStream, StreamSamples, StreamTelemetry, Replying
  <2>2. InForce' = InForce
    BY <1>0, <2>1 DEF InForce, mode
  <2>3. Answered' = Answered
    BY <2>1 DEF Answered
  <2> QED
    BY <1>0, <1>1, <2>1, <2>2, <2>3 DEF OneAtATime
<1>3. CASE DeviceRead
  <2>1. host = "wait" /\ out_ep = Request /\ asked = Tag /\ ~Answered
    BY <1>3 DEF DeviceRead, OneAtATime
  <2>2. /\ Request.type = Script[command][step].type
        /\ Request.seq = Script[command][step].seq
        /\ Request.on = Script[command][step].on
        /\ Request.tag = Tag
    BY <1>0, RequestType
  <2>3. /\ SetMode(Request) /\ out_ep' = NoPacket /\ UNCHANGED in_ep
    BY <1>3, <2>1 DEF DeviceRead
  <2>4. InForce'
    BY <1>0, <2>1, <2>2, <2>3 DEF SetMode, InForce
  <2>5. Replying' /\ usb_in'.seq = Script[command][step].seq
    BY <2>2, <2>3 DEF SetMode, Reply, Replying
  <2>6. OneAtATime'
    BY <1>0, <2>1, <2>3, <2>4, <2>5 DEF OneAtATime, Answered
  <2> QED
    BY <1>0, <2>1, <2>6 DEF Succeeded
<1>4. CASE DeviceWrite
  <2>1. /\ UNCHANGED <<out_ep, mode>> /\ in_ep' = usb_in /\ ~Replying'
        /\ ~Answered
        /\ phase \in {"replying", "sending"}
    BY <1>4, Kinds
    DEF DeviceWrite, Replied, Streamed, Replying, Answered
  <2>2. InForce' = InForce
    BY <1>0, <2>1 DEF InForce, mode
  <2>3. Answered' = Replying
    BY <1>0, <2>1, Kinds DEF DeviceInv, Answered, Replying, Answers
  <2> QED
    BY <1>0, <1>1, <2>1, <2>2, <2>3 DEF OneAtATime
<1> QED
  BY <1>2, <1>3, <1>4 DEF Device

LEMMA SessionStep == SessionInv /\ [Next]_vars => SessionInv'
<1> SUFFICES ASSUME SessionInv, [Next]_vars PROVE SessionInv'
  OBVIOUS
<1>1. HostTypes /\ HostTypes'
  BY TypesStep DEF SessionInv
<1>2. SUFFICES ASSUME Undisturbed' PROVE Conversation' /\ Arrived'
  BY <1>1 DEF SessionInv
<1>3. CASE UNCHANGED vars
  BY <1>2, <1>3
  DEF SessionInv, Undisturbed, Conversation, Arrived, OneAtATime, Replying,
      Answered, InForce, Succeeded, Request, Tag, vars, deviceVars, mode,
      hostVars, faults
<1>4. CASE Next
  <2>1. Undisturbed /\ UNCHANGED <<stranded, deadlines>> /\ ~Deadline
    BY <1>1, <1>2, <1>4, Disturbances
  <2>2. Conversation /\ Arrived
    BY <2>1 DEF SessionInv
  <2>3. stranded \in Nat
    BY <1>1, SessionAssumption DEF HostTypes, TypeOK
  <2> QED
    BY <1>1, <1>4, <2>1, <2>2, <2>3, ProgramConverses, DeviceConverses
    DEF Next
<1> QED
  BY <1>3, <1>4

\* Programs that are left alone never write to a device that waits for them
\* to read, whatever programs before them left in the endpoints
\* (transport.rs lines 170-210).
THEOREM LeftAloneNeverWedged == SessionSpec => []NeverWedged
<1>1. SessionInv => NeverWedged
  BY DEF SessionInv, Conversation, NeverWedged, Wedged
<1> QED
  BY <1>1, SessionInit, SessionStep, PTL DEF SessionSpec

\* The mode command a program has sent when it has gone through.
LEMMA LastCommand ==
    /\ \A c \in {"capture_on", "capture_off"} :
           /\ Len(Script[c]) = 1
           /\ Script[c][1].type = "CaptureSet"
           /\ Script[c][1].on <=> c = "capture_on"
    /\ \A c \in {"monitor_on", "monitor_off", "monitor"} :
           /\ Len(Script[c]) = 2
           /\ Script[c][2].type = "TelemetrySet"
           /\ Script[c][2].on <=> c # "monitor_off"
    /\ /\ Len(Script["decode"]) = 2
       /\ Script["decode"][2].type = "CaptureSet"
       /\ Script["decode"][2].on
    /\ /\ Len(Script["python"]) = 3
       /\ Script["python"][2].type = "TelemetrySet"
       /\ Script["python"][2].on
       /\ Script["python"][3].type = "TelemetrySet"
       /\ ~Script["python"][3].on
<1>1. /\ Len(Script["capture_on"]) = 1
      /\ Script["capture_on"][1].type = "CaptureSet"
      /\ Script["capture_on"][1].on
  BY DEF Script, CAPTURE_SET
<1>2. /\ Len(Script["capture_off"]) = 1
      /\ Script["capture_off"][1].type = "CaptureSet"
      /\ ~Script["capture_off"][1].on
  BY DEF Script, CAPTURE_SET
<1>3. /\ Len(Script["monitor_on"]) = 2
      /\ Script["monitor_on"][2].type = "TelemetrySet"
      /\ Script["monitor_on"][2].on
  BY DEF Script, TELEMETRY_SET
<1>4. /\ Len(Script["monitor_off"]) = 2
      /\ Script["monitor_off"][2].type = "TelemetrySet"
      /\ ~Script["monitor_off"][2].on
  BY DEF Script, TELEMETRY_SET
<1>5. /\ Len(Script["monitor"]) = 2
      /\ Script["monitor"][2].type = "TelemetrySet"
      /\ Script["monitor"][2].on
  BY DEF Script, TELEMETRY_SET
<1>6. /\ Len(Script["decode"]) = 2
      /\ Script["decode"][2].type = "CaptureSet"
      /\ Script["decode"][2].on
  BY DEF Script, CAPTURE_SET
<1>7. /\ Len(Script["python"]) = 3
      /\ Script["python"][2].type = "TelemetrySet"
      /\ Script["python"][2].on
  BY DEF Script, TELEMETRY_SET
<1>8. /\ Len(Script["python"]) = 3
      /\ Script["python"][3].type = "TelemetrySet"
      /\ ~Script["python"][3].on
  BY DEF Script, TELEMETRY_SET
<1> HIDE DEF Script
<1> QED
  BY <1>1, <1>2, <1>3, <1>4, <1>5, <1>6, <1>7, <1>8, Zenon

\* A program that went through has its last mode command in force, and so the
\* mode it is run for (main.rs lines 73-188, monitor.rs lines 94-107).
THEOREM ModeReached == SessionSpec => []ModeAsWanted
<1>1. SessionInv => ModeAsWanted
  <2> SUFFICES ASSUME SessionInv, Succeeded, Undisturbed
               PROVE  /\ owner = asked
                      /\ command # "capture" => Wanted[command]
    BY DEF ModeAsWanted
  <2>1. InForce /\ Arrived
    BY DEF SessionInv, Arrived
  <2>2. command \in Commands
    BY DEF SessionInv, HostTypes, TypeOK
  <2>3. /\ owner = asked
        /\ Script[command][step].on =>
               /\ Script[command][step].type = "CaptureSet" => Capturing
               /\ Script[command][step].type = "TelemetrySet" => Reporting
        /\ ~Script[command][step].on => ~gate
    <3>1. IsModeCommand(Script[command][step])
      BY <2>2, ScriptFacts DEF IsScript, SessionInv, HostTypes, TypeOK
    <3> QED
      BY <2>1, <3>1 DEF InForce, IsModeCommand, Capturing, Reporting
  <2>4. CASE command \in {"capture_on", "capture_off"}
    <3>1. step = 1
      <4>1. Len(Script[command]) = 1 /\ step \in 1..Len(Script[command])
        BY <2>4, LastCommand, Zenon DEF SessionInv, HostTypes, TypeOK
      <4> QED
        BY <4>1
    <3>2. /\ Script[command][step].type = "CaptureSet"
          /\ (Script[command][step].on <=> command = "capture_on")
      BY <2>4, <3>1, LastCommand
    <3>3. Wanted["capture_on"] = Capturing /\ Wanted["capture_off"] = ~gate
      BY DEF Wanted
    <3> QED
      BY <2>3, <2>4, <3>2, <3>3, Zenon
  <2>5. CASE command \in {"monitor_on", "monitor_off", "monitor", "decode"}
    <3>1. StreamAfter[command] \in {0, 2}
      BY <2>2 DEF StreamAfter
    <3>2. Len(Script[command]) = 2 /\ step \in 1..2
      BY <2>2, <2>5, LastCommand DEF SessionInv, HostTypes, TypeOK
    <3>3. step = 2
      BY <2>1, <3>1, <3>2 DEF Arrived, Succeeded
    <3>4. /\ Script[command][step].type = IF command = "decode"
                                           THEN "CaptureSet" ELSE "TelemetrySet"
          /\ (Script[command][step].on <=> command # "monitor_off")
      BY <2>5, <3>3, LastCommand
    <3>5. /\ Wanted["monitor_on"] = Reporting
          /\ Wanted["monitor"] = Reporting
          /\ Wanted["monitor_off"] = ~gate
          /\ Wanted["decode"] = Capturing
      BY DEF Wanted
    <3> QED
      BY <2>3, <2>5, <3>4, <3>5, Zenon
  <2>6. CASE command = "python"
    <3>1. StreamAfter[command] = 2 /\ Len(Script[command]) = 3
      BY <2>2, <2>6, LastCommand DEF StreamAfter
    <3>2. IF host = "done" THEN step = 3 ELSE step = 2
      BY <2>1, <3>1 DEF Arrived, Succeeded
    <3>3. /\ Script[command][step].type = "TelemetrySet"
          /\ (Script[command][step].on <=> host # "done")
      BY <2>6, <3>2, LastCommand
    <3>4. Wanted["python"] = IF host = "done" THEN ~gate ELSE Reporting
      BY DEF Wanted
    <3> QED
      BY <2>3, <2>6, <3>3, <3>4, Zenon
  <2> QED
    BY <2>2, <2>3, <2>4, <2>5, <2>6 DEF Commands, Script
<1> QED
  BY <1>1, SessionInit, SessionStep, PTL DEF SessionSpec

-----------------------------------------------------------------------------
(* Whose samples a program reads.  With one program stranded, one request   *)
(* or answer may be left over: a program may take it for its own at its     *)
(* first mode command, never at the one its stream follows.                 *)

Requested == out_ep # NoPacket
OwnSeq == Script[command][step].seq

\* An answer that can do no harm where the program is.
Spare(seq) == stranded = 1 /\ (step = 1 \/ (step = 2 /\ seq # OwnSeq))

AtMostOne ==
    /\ Requested => ~Replying /\ ~Answered
    /\ Replying => ~Answered

\* The program's own request, or its answer, comes last, at most one thing
\* left over is before it; and once the bridge has read it the mode is the
\* program's.
OwnLast ==
    \/ /\ out_ep = Request
       /\ Replying => ~Answered /\ Spare(usb_in.seq)
       /\ Answered => Spare(in_ep.seq)
    \/ /\ ~Requested /\ owner = Tag
       /\ Replying /\ usb_in.seq = OwnSeq
       /\ Answered => Spare(in_ep.seq)
    \/ /\ ~Requested /\ owner = Tag
       /\ ~Replying
       /\ Answered /\ in_ep.seq = OwnSeq

LeftOver ==
    /\ AtMostOne
    /\ Requested \/ Replying \/ Answered => stranded = 1

LeftSpare ==
    /\ AtMostOne
    /\ Requested => Spare(out_ep.seq)
    /\ Replying => Spare(usb_in.seq)
    /\ Answered => Spare(in_ep.seq)

OwnStream ==
    /\ ~Requested /\ ~Replying /\ ~Answered
    /\ owner = Tag
    /\ in_ep.type \in {"TraceSample", "Telemetry"} => in_ep.tag = Tag

Orderly ==
    /\ host \in {"none", "done"} => LeftOver
    /\ host = "write" => LeftSpare
    /\ host = "stream" => OwnStream
    /\ host = "wait" => OwnLast

\* A packet of the stream is of the mode in force while it is written.
SentByOwner == phase = "sending" => usb_in.tag = owner

FewStranded == deadlines = 0 /\ stranded <= 1

OwnInv ==
    /\ HostTypes /\ SentByOwner
    /\ FewStranded => Orderly /\ ~foreign

LEMMA OwnInit == Init => OwnInv
<1> SUFFICES ASSUME Init PROVE OwnInv
  OBVIOUS
<1>1. HostTypes
  BY TypesInit
<1>2. SentByOwner /\ Orderly /\ ~foreign
  BY DEF Init, DeviceInit, HostInit, NoPacket, SentByOwner, Orderly, LeftOver,
         AtMostOne, Requested, Replying, Answered, Answers
<1> QED
  BY <1>1, <1>2 DEF OwnInv

LEMMA SentStep == HostTypes /\ SentByOwner /\ [Next]_vars => SentByOwner'
<1> SUFFICES ASSUME HostTypes, SentByOwner, [Next]_vars PROVE SentByOwner'
  OBVIOUS
<1>1. CASE Program \/ UNCHANGED vars
  <2>1. UNCHANGED <<phase, usb_in, owner>>
    BY <1>1 DEF Program, Open, WritePacket, WriteTimeout, ReadReply, Deadline,
       ReadStream, StopPolling, Interrupt, Kill, Cut, ReadTail, deviceVars,
       mode, vars
  <2> QED
    BY <2>1 DEF SentByOwner
<1>2. CASE Device
  BY <1>2
  DEF Device, DeviceConnect, Connect, DeviceRead, SetMode, DevicePoll, Poll,
      DeviceWrite, Replied, Streamed, DeviceStream, StreamSamples,
      StreamTelemetry, StreamPacket, DeviceRest, Rest, mode, SentByOwner
<1> QED
  BY <1>1, <1>2 DEF Next

\* The first two commands of a script differ in their sequence numbers, and
\* no stream follows the first.
LEMMA TwoSeqs ==
    ASSUME NEW c \in Commands, 2 <= Len(Script[c])
    PROVE  Script[c][1].seq # Script[c][2].seq
<1>1. \A on1, on2 \in BOOLEAN :
          /\ CAPTURE_SET(1, on1).seq # TELEMETRY_SET(2, on2).seq
          /\ TELEMETRY_SET(1, on1).seq # CAPTURE_SET(2, on2).seq
  BY DEF CAPTURE_SET, TELEMETRY_SET
<1>2. CASE c \in {"capture_on", "capture_off"}
  <2>1. Len(Script[c]) = 1
    BY <1>2, LastCommand
  <2> HIDE DEF Script
  <2> QED
    BY <2>1
<1>3. CASE c \in {"monitor_on", "monitor_off", "monitor", "capture"}
  <2>1. \E on1, on2 \in BOOLEAN :
            Script[c] = <<CAPTURE_SET(1, on1), TELEMETRY_SET(2, on2)>>
    BY <1>3, ScriptOf, Zenon
  <2> QED
    BY <1>1, <2>1
<1>4. CASE c = "decode"
  <2>1. \E on1, on2 \in BOOLEAN :
            Script[c] = <<TELEMETRY_SET(1, on1), CAPTURE_SET(2, on2)>>
    BY <1>4, ScriptOf, Zenon
  <2> QED
    BY <1>1, <2>1
<1>5. CASE c = "python"
  <2>1. \E on1, on2, on3 \in BOOLEAN :
            Script[c] = <<CAPTURE_SET(1, on1), TELEMETRY_SET(2, on2),
                          TELEMETRY_SET(1, on3)>>
    BY <1>5, ScriptOf, Zenon
  <2> QED
    BY <1>1, <2>1
<1> QED
  BY <1>2, <1>3, <1>4, <1>5 DEF Commands, Script

LEMMA StreamsSecond == \A c \in Commands : StreamAfter[c] \in {0, 2}
  BY DEF StreamAfter

\* A program's own steps.
LEMMA ProgramOrderly ==
    ASSUME HostTypes, Orderly, ~foreign, Program, ~Deadline,
           stranded \in Nat, stranded <= 1, stranded' <= 1
    PROVE  Orderly' /\ ~foreign'
<1>0. /\ UNCHANGED deviceVars
      /\ command \in Commands /\ step \in 1..Len(Script[command])
      /\ session \in 0..MaxSessions
      /\ out_ep \in ModeRequests \cup {NoPacket}
      /\ DeviceInv
  BY DEF Program, Open, WritePacket, WriteTimeout, ReadReply, Deadline,
         ReadStream, StopPolling, Interrupt, Kill, Cut, ReadTail, HostTypes,
         TypeOK
<1>1. Replying' = Replying /\ UNCHANGED <<owner, usb_in>>
  BY <1>0 DEF Replying, deviceVars, mode
<1>2. CASE Open
  <2>1. /\ host \in {"none", "done"} /\ host' = "write" /\ step' = 1
        /\ UNCHANGED <<out_ep, in_ep, stranded>> /\ ~foreign'
    BY <1>2 DEF Open, faults
  <2>2. LeftOver /\ Answered' = Answered /\ Requested' = Requested
    BY <2>1 DEF Orderly, Answered, Requested
  <2>3. LeftSpare'
    BY <1>1, <2>1, <2>2 DEF LeftOver, LeftSpare, AtMostOne, Spare
  <2> QED
    BY <2>1, <2>3 DEF Orderly
<1>3. CASE WritePacket
  <2>1. /\ host = "write" /\ host' = "wait" /\ out_ep' = Request
        /\ UNCHANGED <<in_ep, command, step, session, stranded, foreign>>
    BY <1>3 DEF WritePacket, faults
  <2>2. /\ Request' = Request /\ Answered' = Answered
        /\ \A seq : Spare(seq)' = Spare(seq)
    BY <2>1 DEF Request, Tag, Answered, Spare, OwnSeq
  <2>3. LeftSpare
    BY <2>1 DEF Orderly
  <2>4. OwnLast'
    BY <1>1, <2>1, <2>2, <2>3 DEF LeftSpare, AtMostOne, OwnLast
  <2> QED
    BY <2>1, <2>4 DEF Orderly
<1>4. CASE WriteTimeout
  <2>1. /\ host = "write" /\ host' = "none"
        /\ UNCHANGED <<in_ep, out_ep, stranded, foreign>>
    BY <1>4 DEF WriteTimeout, faults
  <2>2. LeftSpare /\ Answered' = Answered /\ Requested' = Requested
    BY <2>1 DEF Orderly, Answered, Requested
  <2>3. LeftOver'
    BY <1>1, <2>1, <2>2 DEF LeftOver, LeftSpare, AtMostOne, Spare
  <2> QED
    BY <2>1, <2>3 DEF Orderly
<1>5. CASE ReadReply
  <2>1. /\ host = "wait" /\ in_ep' = NoPacket
        /\ UNCHANGED <<out_ep, command, session, stranded, foreign>>
        /\ OwnLast
    BY <1>5 DEF ReadReply, faults, Orderly
  <2>2. ~Answered' /\ Requested' = Requested
    BY <2>1, Kinds DEF Answered, Requested
  <2>3. CASE ~(Answered /\ in_ep.seq = OwnSeq)
    <3>1. UNCHANGED <<host, step>>
      BY <1>5, <2>3 DEF ReadReply, Done, Answered, Answers, OwnSeq
    <3>2. /\ Request' = Request /\ Tag' = Tag /\ OwnSeq' = OwnSeq
          /\ \A seq : Spare(seq)' = Spare(seq)
      BY <2>1, <3>1 DEF Request, Tag, Spare, OwnSeq
    <3>3. OwnLast'
      BY <1>1, <2>1, <2>2, <2>3, <3>1, <3>2 DEF OwnLast
    <3> QED
      BY <2>1, <3>1, <3>3 DEF Orderly
  <2>4. CASE Answered /\ in_ep.seq = OwnSeq
    <3>1. TransactOk
      BY <1>5, <2>4 DEF ReadReply, Done, Answered, Answers, OwnSeq
    <3>2. /\ host' = "stream" => step = StreamAfter[command] /\ step' = step
          /\ host' \in {"write", "stream", "done"}
          /\ host' = "write" => step' = step + 1 /\ step < Len(Script[command])
      BY <3>1 DEF TransactOk
    <3>3. CASE ~Requested /\ ~Replying /\ owner = Tag
      <4>1. LeftOver' /\ LeftSpare'
        BY <1>1, <2>2, <3>3 DEF LeftOver, LeftSpare, AtMostOne
      <4>2. host' = "stream" => OwnStream'
        BY <1>1, <2>1, <2>2, <3>2, <3>3 DEF OwnStream, Tag, NoPacket
      <4> QED
        BY <2>1, <3>2, <4>1, <4>2 DEF Orderly
    <3>4. CASE /\ \/ out_ep = Request /\ ~Replying
                  \/ ~Requested /\ Replying /\ usb_in.seq = OwnSeq
               /\ stranded = 1 /\ step = 1
      <4>1. AtMostOne'
        BY <1>1, <2>2, <3>4 DEF AtMostOne, Requested
      <4>2. LeftOver'
        BY <2>1, <3>4, <4>1 DEF LeftOver
      <4>3. host' # "stream"
        BY <1>0, <3>2, <3>4, StreamsSecond
      <4>4. ASSUME host' = "write"
            PROVE  step' = 2 /\ OwnSeq # OwnSeq'
        <5>1. step' = 2 /\ 2 <= Len(Script[command])
          <6>1. Len(Script[command]) \in Nat /\ 1 < Len(Script[command])
            BY <1>0, <3>2, <3>4, <4>4, ScriptFacts DEF IsScript
          <6> HIDE DEF Script
          <6> QED
            BY <3>2, <3>4, <4>4, <6>1
        <5>2. /\ OwnSeq = Script[command][1].seq
              /\ OwnSeq' = Script[command][2].seq
          BY <2>1, <3>4, <5>1 DEF OwnSeq
        <5> QED
          BY <1>0, <5>1, <5>2, TwoSeqs
      <4>5. Request.seq = OwnSeq
        BY <1>0, RequestType DEF OwnSeq
      <4>6. host' = "write" => LeftSpare'
        BY <1>1, <2>1, <2>2, <3>4, <4>1, <4>4, <4>5
        DEF LeftSpare, Spare, Requested
      <4> QED
        BY <2>1, <3>2, <4>2, <4>3, <4>6 DEF Orderly
    <3>5. Spare(OwnSeq) => stranded = 1 /\ step = 1
      BY DEF Spare
    <3> QED
      BY <2>1, <2>4, <3>3, <3>4, <3>5 DEF OwnLast
  <2> QED
    BY <2>3, <2>4
<1>6. CASE ReadStream
  <2>1. /\ host = "stream" /\ in_ep' = NoPacket
        /\ UNCHANGED <<out_ep, host, command, step, session>>
        /\ OwnStream
    BY <1>6 DEF ReadStream, Orderly
  <2>2. Wants \in {"TraceSample", "Telemetry"}
    BY DEF Wants
  <2>3. ~foreign'
    BY <1>6, <2>1, <2>2 DEF ReadStream, OwnStream
  <2>4. OwnStream'
    BY <1>1, <2>1 DEF OwnStream, Tag, Requested, Answered, Answers, NoPacket
  <2> QED
    BY <2>1, <2>3, <2>4 DEF Orderly
<1>7. CASE StopPolling \/ Interrupt
  <2>1. /\ host = "stream" /\ host' \in {"none", "write"}
        /\ UNCHANGED <<out_ep, in_ep, foreign>> /\ OwnStream
    BY <1>7 DEF StopPolling, Interrupt, Orderly
  <2>2. LeftOver' /\ LeftSpare'
    BY <1>1, <2>1
    DEF OwnStream, LeftOver, LeftSpare, AtMostOne, Requested, Answered
  <2> QED
    BY <2>1, <2>2 DEF Orderly
<1>8. CASE Kill \/ Cut \/ ReadTail
  <2>1. /\ host' \in {host, "none"} /\ host \in {"write", "wait", "stream"}
        /\ Strand
        /\ UNCHANGED <<out_ep, command, step, session, foreign>>
        /\ \/ UNCHANGED in_ep
           \/ in_ep.type \in {"TraceSample", "Tail"}
              /\ in_ep'.type \in {"Tail", "None"}
    BY <1>8, Kinds DEF Kill, Cut, ReadTail
  <2>2. /\ Answered' = Answered /\ (Answered => in_ep' = in_ep)
        /\ Requested' = Requested
    BY <2>1, Kinds DEF Answered, Answers, Requested
  <2>3. Request' = Request /\ Tag' = Tag /\ OwnSeq' = OwnSeq
    BY <2>1 DEF Request, Tag, OwnSeq
  <2>4. CASE host' = host
    <3>1. UNCHANGED stranded
      BY <2>1, <2>4 DEF Strand
    <3>2. \A seq : Spare(seq)' = Spare(seq)
      BY <2>1, <2>3, <3>1 DEF Spare
    <3>3. /\ LeftSpare => LeftSpare'
          /\ OwnLast => OwnLast'
          /\ OwnStream => OwnStream'
      <4>1. LeftSpare => LeftSpare'
        BY <1>1, <2>1, <2>2, <3>2 DEF LeftSpare, AtMostOne
      <4>2. OwnLast => OwnLast'
        BY <1>1, <2>1, <2>2, <2>3, <3>2 DEF OwnLast
      <4>3. OwnStream => OwnStream'
        BY <1>1, <2>1, <2>2, <2>3 DEF OwnStream
      <4> QED
        BY <4>1, <4>2, <4>3
    <3> QED
      BY <2>1, <2>4, <3>3 DEF Orderly
  <2>5. CASE host = "wait" /\ host' = "none"
    <3>1. stranded = 0 /\ stranded' = 1
      BY <2>1, <2>5 DEF Strand
    <3>2. \A seq : ~Spare(seq)
      BY <3>1 DEF Spare
    <3>3. AtMostOne
      BY <2>5, <3>2 DEF Orderly, OwnLast, AtMostOne
    <3>4. LeftOver'
      BY <1>1, <2>2, <3>1, <3>3 DEF LeftOver, AtMostOne
    <3> QED
      BY <2>1, <2>5, <3>4 DEF Orderly
  <2>6. CASE host \in {"write", "stream"} /\ host' = "none"
    <3>1. UNCHANGED stranded
      BY <2>1, <2>6 DEF Strand
    <3>2. LeftOver
      BY <2>6
      DEF Orderly, LeftSpare, OwnStream, LeftOver, AtMostOne, Spare
    <3>3. LeftOver'
      BY <1>1, <2>2, <3>1, <3>2 DEF LeftOver, AtMostOne
    <3> QED
      BY <2>1, <2>6, <3>3 DEF Orderly
  <2> QED
    BY <2>1, <2>4, <2>5, <2>6
<1> QED
  BY <1>2, <1>3, <1>4, <1>5, <1>6, <1>7, <1>8 DEF Program

\* The device's steps.
LEMMA DeviceOrderly ==
    ASSUME HostTypes, SentByOwner, Orderly, Device
    PROVE  Orderly'
<1>0. /\ UNCHANGED <<host, command, step, session, stranded>>
      /\ command \in Commands /\ step \in 1..Len(Script[command])
      /\ session \in 0..MaxSessions
      /\ DeviceInv
  BY DEF Device, DeviceConnect, DeviceRead, DevicePoll, DeviceWrite,
         DeviceStream, DeviceRest, hostVars, faults, HostTypes, TypeOK
<1>1. /\ Request' = Request /\ Tag' = Tag /\ OwnSeq' = OwnSeq
      /\ \A seq : Spare(seq)' = Spare(seq)
  BY <1>0 DEF Request, Tag, OwnSeq, Spare
<1>2. SUFFICES /\ LeftOver /\ host \in {"none", "done"} => LeftOver'
               /\ LeftSpare /\ host = "write" => LeftSpare'
               /\ OwnStream /\ host = "stream" => OwnStream'
               /\ OwnLast /\ host = "wait" => OwnLast'
  BY <1>0 DEF Orderly
<1>3. CASE DeviceConnect \/ DevicePoll \/ DeviceRest \/ DeviceStream
  <2>1. /\ UNCHANGED <<out_ep, in_ep, owner>> /\ ~Replying /\ ~Replying'
    BY <1>3 DEF DeviceConnect, Connect, DevicePoll, Poll, DeviceRest, Rest,
       DeviceStream, StreamSamples, StreamTelemetry, Replying, mode
  <2>2. Answered' = Answered /\ Requested' = Requested
    BY <2>1 DEF Answered, Requested
  <2>3. LeftOver => LeftOver'
    BY <1>0, <2>1, <2>2 DEF LeftOver, AtMostOne
  <2>4. LeftSpare => LeftSpare'
    BY <1>1, <2>1, <2>2 DEF LeftSpare, AtMostOne
  <2>5. OwnStream => OwnStream'
    BY <1>1, <2>1, <2>2 DEF OwnStream
  <2>6. OwnLast => OwnLast'
    BY <1>1, <2>1, <2>2 DEF OwnLast
  <2> QED
    BY <2>3, <2>4, <2>5, <2>6
<1>4. CASE DeviceRead
  <2>1. /\ SetMode(out_ep) /\ out_ep' = NoPacket /\ UNCHANGED in_ep
        /\ Requested
    BY <1>4 DEF DeviceRead, Requested
  <2>2. /\ ~Replying /\ Replying' /\ ~Requested' /\ Answered' = Answered
        /\ usb_in'.seq = out_ep.seq /\ owner' = out_ep.tag
    BY <2>1 DEF SetMode, Reply, Replying, Requested, Answered
  <2>3. LeftOver => LeftOver'
    BY <1>0, <2>1, <2>2 DEF LeftOver, AtMostOne
  <2>4. LeftSpare => LeftSpare'
    BY <1>1, <2>1, <2>2 DEF LeftSpare, AtMostOne
  <2>5. ~OwnStream
    BY <2>1 DEF OwnStream
  <2>6. OwnLast => OwnLast'
    <3>1. Request.seq = OwnSeq /\ Request.tag = Tag
      BY <1>0, RequestType DEF OwnSeq
    <3> QED
      BY <1>1, <2>1, <2>2, <3>1 DEF OwnLast
  <2> QED
    BY <2>3, <2>4, <2>5, <2>6
<1>5. CASE DeviceWrite
  <2>1. /\ UNCHANGED <<out_ep, owner>> /\ in_ep' = usb_in
        /\ ~Replying' /\ ~Answered
        /\ phase \in {"replying", "sending"}
    BY <1>5, Kinds
    DEF DeviceWrite, Replied, Streamed, Replying, Answered, mode
  <2>2. Answered' = Replying /\ Requested' = Requested
    BY <1>0, <2>1, Kinds DEF DeviceInv, Answered, Replying, Answers, Requested
  <2>3. LeftOver => LeftOver'
    BY <1>0, <2>1, <2>2 DEF LeftOver, AtMostOne
  <2>4. LeftSpare => LeftSpare'
    BY <1>1, <2>1, <2>2 DEF LeftSpare, AtMostOne
  <2>5. OwnStream => OwnStream'
    BY <1>1, <2>1, <2>2 DEF OwnStream, SentByOwner, Replying
  <2>6. OwnLast => OwnLast'
    BY <1>1, <2>1, <2>2 DEF OwnLast
  <2> QED
    BY <2>3, <2>4, <2>5, <2>6
<1> QED
  BY <1>3, <1>4, <1>5 DEF Device

\* Programs stranded and deadlines passed are never forgotten.
LEMMA FewBefore ==
    ASSUME HostTypes, HostTypes', Next, FewStranded'
    PROVE  FewStranded /\ ~Deadline /\ stranded \in Nat
<1>0. /\ stranded \in Nat /\ deadlines \in Nat
      /\ stranded' \in Nat /\ deadlines' = 0 /\ stranded' <= 1
  BY SessionAssumption DEF HostTypes, TypeOK, FewStranded
<1>d. ~Deadline
  BY <1>0 DEF Deadline
<1>1. CASE Device
  <2>1. UNCHANGED <<stranded, deadlines>>
    BY <1>1 DEF Device, DeviceConnect, DeviceRead, DevicePoll,
       DeviceWrite, DeviceStream, DeviceRest, hostVars, faults
  <2> QED
    BY <1>0, <1>d, <2>1 DEF FewStranded
<1>2. CASE Program
  <2>1. \/ UNCHANGED <<stranded, deadlines>>
        \/ Deadline
        \/ Strand /\ UNCHANGED deadlines
    BY <1>2 DEF Program, Open, WritePacket, WriteTimeout, ReadReply,
       ReadStream, StopPolling, Interrupt, Kill, Cut, ReadTail, faults
  <2> QED
    BY <1>0, <1>d, <2>1 DEF Strand, FewStranded
<1> QED
  BY <1>1, <1>2 DEF Next

LEMMA OwnStep == OwnInv /\ [Next]_vars => OwnInv'
<1> SUFFICES ASSUME OwnInv, [Next]_vars PROVE OwnInv'
  OBVIOUS
<1>1. HostTypes /\ HostTypes' /\ SentByOwner /\ SentByOwner'
  BY TypesStep, SentStep DEF OwnInv
<1>2. SUFFICES ASSUME FewStranded' PROVE Orderly' /\ ~foreign'
  BY <1>1 DEF OwnInv
<1>3. CASE UNCHANGED vars
  BY <1>2, <1>3
  DEF OwnInv, FewStranded, Orderly, LeftOver, LeftSpare, OwnStream, OwnLast,
      AtMostOne, Spare, OwnSeq, Requested, Replying, Answered, Request, Tag,
      vars, deviceVars, mode, hostVars, faults
<1>4. CASE Next
  <2>1. FewStranded /\ ~Deadline /\ stranded \in Nat
    BY <1>1, <1>2, <1>4, FewBefore
  <2>2. Orderly /\ ~foreign
    BY <2>1 DEF OwnInv
  <2>3. CASE Program
    BY <1>1, <1>2, <2>1, <2>2, <2>3, ProgramOrderly DEF FewStranded
  <2>4. CASE Device
    <3>1. UNCHANGED foreign
      BY <2>4 DEF Device, DeviceConnect, DeviceRead, DevicePoll,
         DeviceWrite, DeviceStream, DeviceRest, hostVars
    <3> QED
      BY <1>1, <2>2, <2>4, <3>1, DeviceOrderly
  <2> QED
    BY <1>4, <2>3, <2>4 DEF Next
<1> QED
  BY <1>3, <1>4

\* A program takes no other program's samples for its own, unless a wait
\* timed out or two programs ended waiting for an answer
\* (transport.rs lines 180-196).
THEOREM StreamIsOwn == SessionSpec => []OwnSamples
<1>1. OwnInv => OwnSamples
  <2> SUFFICES ASSUME OwnInv, foreign
               PROVE  deadlines > 0 \/ stranded > 1
    BY DEF OwnSamples
  <2>1. deadlines \in Nat /\ stranded \in Nat /\ ~FewStranded
    BY SessionAssumption DEF OwnInv, HostTypes, TypeOK
  <2> QED
    BY <2>1 DEF FewStranded
<1> QED
  BY <1>1, OwnInit, OwnStep, PTL DEF SessionSpec
=============================================================================
