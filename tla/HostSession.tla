---------------------------- MODULE HostSession -----------------------------
(***************************************************************************)
(* The host programs, one after another, driving the bridge over USB:       *)
(* UsbTransport (host/src/transport.rs), the commands of fredctl            *)
(* (host/src/main.rs) and the monitor client behind the Python package      *)
(* (host/src/monitor.rs).  A program opens the device, sends its mode       *)
(* commands and waits for each to be answered; then it ends or reads the    *)
(* stream until somebody ends it.  Nothing of a program outlives it, but    *)
(* what it left in the two endpoints does.                                  *)
(*                                                                          *)
(* The endpoints are the USB hardware and its drivers, external: each holds *)
(* one packet.  The device is BridgeDevice and stays plugged in.            *)
(***************************************************************************)
EXTENDS BridgeDevice, Sequences

CONSTANTS
    MaxSessions,    \* bound: programs run
    MaxKills,       \* bound: programs killed before their stream
    MaxCuts,        \* bound: reads given up in mid-packet
    MaxDeadlines    \* bound: waits of transact that time out

\* The programs use two sequence numbers, and have three mode commands at most.
ASSUME SessionAssumption ==
    /\ MaxSessions \in Nat /\ MaxKills \in Nat
    /\ MaxCuts \in Nat /\ MaxDeadlines \in Nat
    /\ {1, 2} \subseteq Seqs
    /\ (0..MaxSessions) \X (0..3) \subseteq Tags

VARIABLES
    out_ep, in_ep,    \* the packet in each endpoint
    host,             \* where the program is
    command,          \* the program
    step,             \* which of its mode commands it is at
    replies_empty,    \* transact has read nothing yet
    \* history
    session,          \* programs begun
    kills, cuts, deadlines,
    stranded,         \* programs that ended waiting for an answer
    asked,            \* tag of the last mode command written
    foreign           \* the program took another's samples for its own

faults == <<kills, cuts, deadlines, stranded>>
hostVars == <<host, command, step, replies_empty, session, faults, asked,
              foreign>>
vars == <<deviceVars, out_ep, in_ep, hostVars>>

-----------------------------------------------------------------------------
(* The programs.                                                            *)

CAPTURE_SET(seq, on) == [type |-> "CaptureSet", seq |-> seq, on |-> on]
TELEMETRY_SET(seq, on) == [type |-> "TelemetrySet", seq |-> seq, on |-> on]

\* The mode commands of each command of fredctl, `python` for
\* monitor_loop.py; `decode` stands for `capture file` too.
Script ==
    [monitor_on  |-> <<CAPTURE_SET(1, FALSE), TELEMETRY_SET(2, TRUE)>>,
     monitor_off |-> <<CAPTURE_SET(1, FALSE), TELEMETRY_SET(2, FALSE)>>,
     monitor     |-> <<CAPTURE_SET(1, FALSE), TELEMETRY_SET(2, TRUE)>>,
     capture_on  |-> <<CAPTURE_SET(1, TRUE)>>,
     capture_off |-> <<CAPTURE_SET(1, FALSE)>>,
     capture     |-> <<CAPTURE_SET(1, TRUE), TELEMETRY_SET(2, FALSE)>>,
     decode      |-> <<TELEMETRY_SET(1, FALSE), CAPTURE_SET(2, TRUE)>>,
     python      |-> <<CAPTURE_SET(1, FALSE), TELEMETRY_SET(2, TRUE),
                       TELEMETRY_SET(1, FALSE)>>]

Commands == DOMAIN Script

\* After which mode command a program reads the stream: 0 for never.
StreamAfter ==
    [c \in Commands |-> IF c \in {"monitor", "capture", "decode", "python"}
                        THEN 2 ELSE 0]

\* A mode command as it is written, with who wrote it.
Tag == <<session, step>>
Request == [type |-> Script[command][step].type,
            seq |-> Script[command][step].seq,
            on |-> Script[command][step].on, tag |-> Tag]

HostInit ==
    /\ out_ep = NoPacket /\ in_ep = NoPacket
    /\ host = "none"
    /\ command \in Commands
    /\ step = 1
    /\ replies_empty = TRUE
    /\ session = 0
    /\ kills = 0 /\ cuts = 0 /\ deadlines = 0 /\ stranded = 0
    /\ asked = NoTag
    /\ foreign = FALSE

Init == DeviceInit /\ HostInit

-----------------------------------------------------------------------------
(* A program.                                                               *)

\* UsbTransport::open.
Open ==
    /\ host \in {"none", "done"} /\ session < MaxSessions
    /\ session' = session + 1
    /\ command' \in Commands
    /\ step' = 1
    /\ host' = "write"
    /\ replies_empty' = TRUE
    /\ foreign' = FALSE
    /\ UNCHANGED <<deviceVars, out_ep, in_ep, faults, asked>>

\* write_packet: the endpoint takes a packet once the last one was read.
WritePacket ==
    /\ host = "write" /\ out_ep = NoPacket
    /\ out_ep' = Request
    /\ asked' = Tag
    /\ replies_empty' = TRUE
    /\ host' = "wait"
    /\ UNCHANGED <<deviceVars, in_ep, command, step, session, faults,
                   foreign>>

\* Its time is over (250 ms for the monitor client, ten minutes for fredctl).
WriteTimeout ==
    /\ host = "write" /\ out_ep # NoPacket
    /\ host' = "none"
    /\ UNCHANGED <<deviceVars, out_ep, in_ep, command, step, replies_empty,
                   session, faults, asked, foreign>>

\* Mutant: one command too many.
TransactOk_PastEnd ==
    /\ host' = IF step = StreamAfter[command] THEN "stream"
               ELSE IF step <= Len(Script[command]) THEN "write" ELSE "done"
    /\ step' = IF host' = "write" THEN step + 1 ELSE step

\* transact returns Ok: the program looks at none of the replies, and goes on.
TransactOk ==
    /\ host' = IF step = StreamAfter[command] THEN "stream"
               ELSE IF step < Len(Script[command]) THEN "write" ELSE "done"
    /\ step' = IF host' = "write" THEN step + 1 ELSE step

\* Mutant: any answer will do.
Done_AnySeq(pkt) == pkt.type \in {"Ack", "Nack"}

\* The answer transact waits for: its type and its sequence number count.
Done(pkt) ==
    /\ pkt.type \in {"Ack", "Nack"}
    /\ pkt.seq = Script[command][step].seq

\* Mutant: no loop, the first packet ends the wait.
ReadReply_Once ==
    /\ host = "wait" /\ in_ep.type \notin {"None", "Tail"}
    /\ in_ep' = NoPacket
    /\ replies_empty' = FALSE
    /\ TransactOk
    /\ UNCHANGED <<deviceVars, out_ep, command, session, faults, asked,
                   foreign>>

\* read_packet in the loop of transact.
ReadReply ==
    /\ host = "wait" /\ in_ep.type \notin {"None", "Tail"}
    /\ in_ep' = NoPacket
    /\ replies_empty' = FALSE
    /\ IF Done(in_ep) THEN TransactOk ELSE UNCHANGED <<host, step>>
    /\ UNCHANGED <<deviceVars, out_ep, command, session, faults, asked,
                   foreign>>

\* The five seconds are over between two reads.  The replies read so far are
\* returned, an answer among them or not.
Deadline ==
    /\ host = "wait" /\ deadlines < MaxDeadlines
    /\ deadlines' = deadlines + 1
    /\ IF replies_empty THEN host' = "none" /\ UNCHANGED step ELSE TransactOk
    /\ UNCHANGED <<deviceVars, out_ep, in_ep, command, replies_empty,
                   session, kills, cuts, stranded, asked, foreign>>

\* What each program takes from the stream.
Wants == IF command \in {"capture", "decode"} THEN "TraceSample"
         ELSE "Telemetry"

ReadStream ==
    /\ host = "stream" /\ in_ep.type \notin {"None", "Tail"}
    /\ in_ep' = NoPacket
    /\ foreign' = (foreign \/ (in_ep.type = Wants /\ in_ep.tag # Tag))
    /\ UNCHANGED <<deviceVars, out_ep, host, command, step, replies_empty,
                   session, faults, asked>>

\* disable_polling.
StopPolling ==
    /\ host = "stream" /\ step < Len(Script[command])
    /\ step' = step + 1
    /\ host' = "write"
    /\ UNCHANGED <<deviceVars, out_ep, in_ep, command, replies_empty, session,
                   faults, asked, foreign>>

\* Ctrl-C, or a monitor client closed without being told to stop polling.
Interrupt ==
    /\ host = "stream"
    /\ host' = "none"
    /\ UNCHANGED <<deviceVars, out_ep, in_ep, command, step, replies_empty,
                   session, faults, asked, foreign>>

\* A program that ends in transact leaves its answer unread.
Strand ==
    stranded' = IF host = "wait" /\ host' = "none" THEN stranded + 1
                ELSE stranded

Kill ==
    /\ host \in {"write", "wait"} /\ kills < MaxKills
    /\ kills' = kills + 1
    /\ host' = "none"
    /\ Strand
    /\ UNCHANGED <<deviceVars, out_ep, in_ep, command, step, replies_empty,
                   session, cuts, deadlines, asked, foreign>>

\* A read is given up in mid-packet, by its timeout or with its program, and
\* leaves the tail of the packet.  Packets of samples alone are of more than
\* one USB chunk.
Cut ==
    /\ host \in {"wait", "stream"} /\ cuts < MaxCuts
    /\ in_ep.type = "TraceSample"
    /\ in_ep' = [type |-> "Tail"]
    /\ cuts' = cuts + 1
    /\ host' \in {host, "none"}
    /\ Strand
    /\ UNCHANGED <<deviceVars, out_ep, command, step, replies_empty, session,
                   kills, deadlines, asked, foreign>>

\* A tail does not decode, and the error ends the program; an empty one is
\* passed over.
ReadTail ==
    /\ host \in {"wait", "stream"} /\ in_ep.type = "Tail"
    /\ in_ep' = NoPacket
    /\ host' \in {host, "none"}
    /\ Strand
    /\ UNCHANGED <<deviceVars, out_ep, command, step, replies_empty, session,
                   kills, cuts, deadlines, asked, foreign>>

-----------------------------------------------------------------------------
(* The device at its end of the endpoints.                                  *)

\* select() polls the read first, so a request that is there is read.
DeviceRead ==
    /\ out_ep # NoPacket
    /\ SetMode(out_ep)
    /\ out_ep' = NoPacket
    /\ UNCHANGED <<in_ep, hostVars>>

DevicePoll ==
    /\ out_ep = NoPacket
    /\ Poll
    /\ UNCHANGED <<out_ep, in_ep, hostVars>>

\* write_packet waits until the endpoint is free.
DeviceWrite ==
    /\ in_ep = NoPacket
    /\ Replied \/ Streamed
    /\ in_ep' = usb_in
    /\ UNCHANGED <<out_ep, hostVars>>

DeviceStream ==
    /\ StreamSamples \/ StreamTelemetry
    /\ UNCHANGED <<out_ep, in_ep, hostVars>>

DeviceConnect == Connect /\ UNCHANGED <<out_ep, in_ep, hostVars>>
DeviceRest == Rest /\ UNCHANGED <<out_ep, in_ep, hostVars>>

Device ==
    \/ DeviceConnect \/ DeviceRead \/ DevicePoll \/ DeviceWrite
    \/ DeviceStream \/ DeviceRest

Program ==
    \/ Open \/ WritePacket \/ WriteTimeout \/ ReadReply \/ Deadline \/ ReadStream
    \/ StopPolling \/ Interrupt \/ Kill \/ Cut \/ ReadTail

Next == Program \/ Device

SessionSpec == Init /\ [][Next]_vars

\* The device keeps running and a program waiting in transact keeps reading.
\* Nothing makes anybody open the device, end a program or miss a deadline.
FairSession == SessionSpec /\ WF_vars(Device) /\ WF_vars(ReadReply \/ ReadTail)

Packets ==
    [type : {"Ack", "Nack"}, seq : Seqs, tag : Tags]
        \cup [type : {"TraceSample", "Telemetry"}, tag : Tags] \cup {NoPacket}

TypeOK ==
    /\ phase \in {"offline", "ready", "replying", "busy", "sending"}
    /\ capture_enabled \in BOOLEAN /\ telemetry_enabled \in BOOLEAN
    /\ gate \in BOOLEAN /\ late \in BOOLEAN
    /\ sent \in 0..Burst
    /\ usb_in \in Packets
    /\ in_ep \in Packets \cup {[type |-> "Tail"]}
    /\ out_ep \in ModeRequests \cup {NoPacket}
    /\ owner \in Tags /\ asked \in Tags
    /\ host \in {"none", "write", "wait", "stream", "done"}
    /\ command \in Commands /\ step \in 1..Len(Script[command])
    /\ replies_empty \in BOOLEAN /\ foreign \in BOOLEAN
    /\ session \in 0..MaxSessions
    /\ kills \in 0..MaxKills /\ cuts \in 0..MaxCuts
    /\ deadlines \in 0..MaxDeadlines
    /\ stranded \in 0..MaxSessions

-----------------------------------------------------------------------------
\* transact returned Ok for every mode command of the program.
Succeeded == host \in {"done", "stream"}

\* Every answer was read by who asked: what a program leaves in the endpoints
\* then is stream packets, whole or cut, never an answer.
Undisturbed == stranded + deadlines = 0

\* A write that waits for the device while the device waits for a read.
Wedged ==
    /\ host = "write" /\ out_ep # NoPacket
    /\ phase \in {"replying", "sending"} /\ in_ep # NoPacket

Capturing == capture_enabled /\ gate
Reporting == telemetry_enabled /\ gate

\* The mode a program is run for.  `capture` is not among them, see below.
Wanted ==
    [monitor_on |-> Reporting, monitor_off |-> ~gate, monitor |-> Reporting,
     capture_on |-> Capturing, capture_off |-> ~gate, decode |-> Capturing,
     python |-> IF host = "done" THEN ~gate ELSE Reporting]

\* Whatever stream the programs before left running in the endpoints, a
\* program that went through has its last mode command in force, and with it
\* the mode it is run for (main.rs lines 73-188, monitor.rs lines 94-107).
ModeAsWanted ==
    Succeeded /\ Undisturbed =>
        /\ owner = asked
        /\ command # "capture" => Wanted[command]

\* The stream a program reads is its own, unless a wait timed out or two
\* programs ended waiting for an answer: those to seq 1 and to seq 2 left
\* unread must both be taken for the program's own before another's samples
\* can be (transport.rs lines 180-196).
OwnSamples == foreign => deadlines > 0 \/ stranded > 1

\* Programs that are left alone never meet the device waiting for them.
NeverWedged == Undisturbed => ~Wedged

\* Every mode command is answered, however much the device has to stream and
\* whatever was left in the endpoints: the bursts between two reads are
\* bounded (firmware main.rs line 153).  No timeout is needed for it.
RequestAnswered == (host = "wait") ~> (host # "wait")

-----------------------------------------------------------------------------
(* What the documents say and the code does not do.                         *)

\* usb_plan.txt lines 138-141: "sends `TELEMETRY_SET(enable=0)`, waits ACK".
\* transact may return Ok without it, or with an answer left by another.
WaitsForAck == Succeeded => owner = asked

\* firmware/README.md lines 55-57: the bring-up flow ends in `capture usb`.
\* It closes the gate with the command after CAPTURE_SET.
CaptureStreams == Succeeded /\ Undisturbed /\ command = "capture" => Capturing

\* usb_plan.txt line 183: "Robust reconnect + timeout handling".  A program
\* killed before it reads leaves its command unread before a device that waits
\* for a reader: no program after it gets a command across.
Reconnects == ~Wedged
=============================================================================
