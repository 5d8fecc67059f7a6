---------------------------- MODULE PacketFraming ----------------------------
(***************************************************************************)
(* How packets cross USB, and what a reader makes of what it gets: the      *)
(* packet codec (protocol/src/bridge_proto.rs), read_packet_timeout with    *)
(* the two older packet formats (host/src/transport.rs lines 99-149 and     *)
(* 218-342), and the monitor client that consumes the packets               *)
(* (host/src/monitor.rs).                                                   *)
(*                                                                          *)
(* USB carries a packet in chunks of 64 bytes, and a bulk read ends with a  *)
(* short chunk.  A read given up in mid-packet, by its timeout or with its  *)
(* program, leaves the tail of the packet to the next read.                 *)
(*                                                                          *)
(* Bytes are abstracted to what the decoder looks at.  The header of a      *)
(* whole packet, or of its first chunk, is what was sent; a tail has bus    *)
(* samples where the decoder looks for a header, so it may look like any.   *)
(* A CRC fits what it was made for and nothing else.                        *)
(***************************************************************************)
EXTENDS Naturals, Sequences, SequencesExt

CONSTANTS
    Versions,       \* protocols the device may speak: 3, or the older 1 and 2
    SampleCounts,   \* sizes of its trace packets
    MaxPackets,     \* bound: packets the device writes
    MaxCuts         \* bound: reads given up in mid-packet

ASSUME VersionAssumption == Versions \subseteq 1..3
ASSUME CountAssumption == SampleCounts \subseteq 0..99
ASSUME BoundAssumption == MaxPackets \in Nat /\ MaxCuts \in Nat

VARIABLES
    version,     \* the protocol the device speaks
    log,         \* history: packets the device wrote, numbered in order
    chunk,       \* the chunk of the last of them that comes next
    call,        \* what the monitor client is asked for
    transfer,    \* the chunks its bulk read got so far
    bytes,       \* how many bytes those are
    latest,      \* seq of the telemetry packet behind FredMonitorClient::latest
    \* history
    accepted,    \* packets the reader returned Ok for
    rejected,    \* chunks of the reads it returned an error for
    cut,         \* packets a read was given up in, and how many reads were
    cuts,
    before       \* `latest` when the call was made

monitorVars == <<call, latest, before>>
readVars == <<transfer, bytes>>
vars == <<version, log, chunk, readVars, accepted, rejected, cut, cuts,
          monitorVars>>

-----------------------------------------------------------------------------
(* Packet sizes.                                                            *)

MIN_PACKET_SIZE == 12
PACKET_SIZE == 317
V2_PACKET_SIZE == 64
LEGACY_PACKET_SIZE == 32
MaxPayload == <<20, 52, 305>>   \* by version
Chunk == 64                     \* the endpoint's packet size

Kinds == [type : {"Ack", "Telemetry"}, samples : {0}]
             \cup [type : {"TraceSample"}, samples : SampleCounts]

\* Samples are packed in three bytes behind two counters, in the older
\* formats they are words.
PayloadLen(v, kind) ==
    CASE kind.type = "Ack" -> 2
      [] kind.type = "Telemetry" -> 16
      [] kind.type = "TraceSample" -> IF v = 3 THEN 8 + 3 * kind.samples
                                      ELSE 4 * kind.samples

\* What fits in a packet of the version.
Sendable(v) == {k \in Kinds : PayloadLen(v, k) <= MaxPayload[v]}

EncodedLen(v, payload_len) ==
    CASE v = 3 -> MIN_PACKET_SIZE + payload_len
      [] v = 2 -> V2_PACKET_SIZE
      [] v = 1 -> LEGACY_PACKET_SIZE

SizeOf(p) == EncodedLen(version, PayloadLen(version, p))

\* Mutant: no zero-length chunk after a full one.
ChunkLens_NoZeroLength(size) ==
    [i \in 1..((size + Chunk - 1) \div Chunk) |->
        IF Chunk * i <= size THEN Chunk ELSE size % Chunk]

\* The chunks of a packet: full ones, then a short one, empty if need be.
ChunkLens(size) ==
    [i \in 1..(size \div Chunk + 1) |->
        IF Chunk * i <= size THEN Chunk ELSE size % Chunk]

LensOf(p) == ChunkLens(SizeOf(log[p]))

-----------------------------------------------------------------------------
(* What the reader sees of the chunks it got.                               *)

Piece(p, i) == [packet |-> p, chunk |-> i]

\* The `n` bytes in `t` are all the bytes of a packet, with or without the
\* empty chunk behind them.
Whole(t, n) ==
    /\ t[1].chunk = 1
    /\ \A i \in DOMAIN t : t[i] = Piece(t[1].packet, i)
    /\ n = SizeOf(log[t[1].packet])

\* Message types a decoder knows, and one it does not.
Types == {"Ack", "Telemetry", "TraceSample", "Unknown"}

\* A header there may be: its length fits the bytes read, or it does not.
Headers(size) ==
    [magic : BOOLEAN, version : 0..3, type : Types, seq : 1..MaxPackets,
     payload_len : {0, MaxPayload[3] + 1} \cup
         {n \in {size - MIN_PACKET_SIZE} : size >= MIN_PACKET_SIZE}]

Header(p) ==
    [magic |-> TRUE, version |-> version, type |-> log[p].type, seq |-> p,
     payload_len |-> PayloadLen(version, log[p])]

HeadersSeen(t, n) ==
    IF t[1].chunk = 1 THEN {Header(t[1].packet)} ELSE Headers(n)

-----------------------------------------------------------------------------
(* The decoders: what they return, NoPacket for any error.                  *)

NoPacket == [type |-> "None"]

\* Mutant: the checksum is not compared.
Decode_NoCrc(h, size, crc_fits) ==
    IF /\ h.magic
       /\ h.payload_len <= MaxPayload[3]
       /\ size = EncodedLen(3, h.payload_len)
       /\ h.type # "Unknown"
    THEN [type |-> h.type, seq |-> h.seq, payload_len |-> h.payload_len]
    ELSE NoPacket

\* Packet::decode.
Decode(h, size, crc_fits) ==
    IF /\ h.magic
       /\ h.payload_len <= MaxPayload[3]
       /\ size = EncodedLen(3, h.payload_len)
       /\ h.type # "Unknown"
       /\ crc_fits
    THEN [type |-> h.type, seq |-> h.seq, payload_len |-> h.payload_len]
    ELSE NoPacket

\* Mutant: the payload is copied as it is.
DecodeOlder_NotRepacked(v, h, crc_fits) ==
    IF h.magic /\ h.payload_len <= MaxPayload[v] /\ crc_fits
       /\ h.type # "Unknown"
    THEN [type |-> h.type, seq |-> h.seq, payload_len |-> h.payload_len]
    ELSE NoPacket

\* decode_v2_packet and decode_legacy_packet: samples are packed anew.
DecodeOlder(v, h, crc_fits) ==
    IF h.magic /\ h.payload_len <= MaxPayload[v] /\ crc_fits
       /\ h.type # "Unknown"
    THEN [type |-> h.type, seq |-> h.seq,
          payload_len |-> IF h.type = "TraceSample"
                          THEN 8 + 3 * (h.payload_len \div 4)
                          ELSE h.payload_len]
    ELSE NoPacket

ReadPacket(h, size, crc_fits) ==
    CASE size >= MIN_PACKET_SIZE /\ h.version = 3 -> Decode(h, size, crc_fits)
      [] size = V2_PACKET_SIZE /\ h.version = 2 -> DecodeOlder(2, h, crc_fits)
      [] size = LEGACY_PACKET_SIZE /\ h.version = 1 ->
             DecodeOlder(1, h, crc_fits)
      [] OTHER -> NoPacket

\* decode_trace_samples, and what the other types are made of.
Meaning(packet) ==
    [type |-> packet.type,
     samples |-> IF packet.type = "TraceSample"
                 THEN (packet.payload_len - 8) \div 3 ELSE 0]

-----------------------------------------------------------------------------
Init ==
    /\ version \in Versions
    /\ log = <<>> /\ chunk = 1
    /\ call = "none"
    /\ transfer = <<>> /\ bytes = 0
    /\ latest = 0 /\ before = 0
    /\ accepted = <<>> /\ rejected = {}
    /\ cut = {} /\ cuts = 0

\* Mutant: the device does not wait for the last chunk.
WritePacket_Early ==
    /\ IF log = <<>> THEN TRUE ELSE chunk >= Len(LensOf(Len(log)))
    /\ Len(log) < MaxPackets
    /\ \E kind \in Sendable(version) : log' = Append(log, kind)
    /\ chunk' = 1
    /\ UNCHANGED <<version, readVars, accepted, rejected, cut, cuts,
                   monitorVars>>

\* The device writes a packet, once the last one is written to its end.
WritePacket ==
    /\ IF log = <<>> THEN TRUE ELSE chunk > Len(LensOf(Len(log)))
    /\ Len(log) < MaxPackets
    /\ \E kind \in Sendable(version) : log' = Append(log, kind)
    /\ chunk' = 1
    /\ UNCHANGED <<version, readVars, accepted, rejected, cut, cuts,
                   monitorVars>>

-----------------------------------------------------------------------------
(* The monitor client.                                                      *)

Call ==
    /\ call = "none"
    /\ call' \in {"refresh", "next_snapshot"}
    /\ before' = latest
    /\ UNCHANGED <<version, log, chunk, readVars, latest, accepted, rejected,
                   cut, cuts>>

\* from_telemetry_packet yields a snapshot.
IsSnapshot(packet) == packet.type = "Telemetry" /\ packet.payload_len >= 16

\* Mutant: any packet will do.
Consume_AnyPacket(packet) ==
    /\ latest' = IF IsSnapshot(packet) THEN packet.seq ELSE latest
    /\ call' = IF call = "next_snapshot" THEN "returned" ELSE call

\* consume_packet, in the loop of refresh or of next_snapshot.
Consume(packet) ==
    /\ latest' = IF IsSnapshot(packet) THEN packet.seq ELSE latest
    /\ call' = IF call = "next_snapshot" /\ IsSnapshot(packet)
               THEN "returned" ELSE call

\* How a call ends: with a snapshot, or with the exception the Python package
\* makes of its error.
Ends == {"returned", "refreshed", "FredProtocolError", "FredUsbError"}

Return ==
    /\ call \in Ends
    /\ call' = "none"
    /\ UNCHANGED <<version, log, chunk, readVars, latest, accepted, rejected,
                   cut, cuts, before>>

Reading == call \in {"refresh", "next_snapshot"}

-----------------------------------------------------------------------------
\* The bulk read returns `n` bytes, the chunks `t`: an empty read is skipped.
Receive(t, n) ==
    /\ transfer' = <<>> /\ bytes' = 0
    /\ IF n = 0
       THEN UNCHANGED <<accepted, rejected, call, latest>>
       ELSE \E h \in HeadersSeen(t, n) :
                LET packet == ReadPacket(h, n, Whole(t, n))
                IN  IF packet = NoPacket
                    THEN /\ rejected' = rejected \cup ToSet(t)
                         /\ call' = "FredProtocolError"
                         /\ UNCHANGED <<accepted, latest>>
                    ELSE /\ accepted' = Append(accepted, packet)
                         /\ Consume(packet)
                         /\ UNCHANGED rejected

\* A chunk crosses; a short one ends the read, and so does a full buffer.
MoveChunk ==
    /\ Reading
    /\ log # <<>> /\ chunk <= Len(LensOf(Len(log)))
    /\ LET t == Append(transfer, Piece(Len(log), chunk))
           n == bytes + LensOf(Len(log))[chunk]
       IN  IF LensOf(Len(log))[chunk] < Chunk \/ n >= PACKET_SIZE
           THEN Receive(t, n)
           ELSE /\ transfer' = t /\ bytes' = n
                /\ UNCHANGED <<accepted, rejected, call, latest>>
    /\ chunk' = chunk + 1
    /\ UNCHANGED <<version, log, cut, cuts, before>>

\* A read times out before anything came: refresh has the latest snapshot.
TimeOut ==
    /\ Reading /\ transfer = <<>>
    /\ call' = IF call = "refresh" THEN "refreshed" ELSE "FredUsbError"
    /\ UNCHANGED <<version, log, chunk, readVars, latest, accepted, rejected,
                   cut, cuts, before>>

\* A read is given up in mid-packet.  What it got is lost, with its program
\* or in the USB library, or the library returns it as if it were a packet.
Cut ==
    /\ Reading /\ transfer # <<>> /\ cuts < MaxCuts
    /\ cuts' = cuts + 1
    /\ cut' = cut \cup {p.packet : p \in ToSet(transfer)}
    /\ \/ Receive(transfer, bytes)
       \/ /\ transfer' = <<>> /\ bytes' = 0
          /\ call' = IF call = "refresh" THEN "refreshed" ELSE "FredUsbError"
          /\ UNCHANGED <<accepted, rejected, latest>>
    /\ UNCHANGED <<version, log, chunk, before>>

Next ==
    \/ WritePacket \/ MoveChunk \/ Call \/ TimeOut \/ Cut \/ Return

Spec == Init /\ [][Next]_vars

\* What the programs can use: counters and whole samples in a trace packet.
Received ==
    {r \in [type : Types \ {"Unknown"}, seq : 1..MaxPackets,
            payload_len : 0..MaxPayload[3]] :
        r.type = "TraceSample" => r.payload_len >= 8 /\ r.payload_len % 3 = 2}

TypeOK ==
    /\ version \in Versions
    /\ log \in Seq(Kinds) /\ Len(log) <= MaxPackets
    /\ chunk \in Nat \ {0}
    /\ call \in {"none", "refresh", "next_snapshot"} \cup Ends
    /\ latest \in 0..MaxPackets /\ before \in 0..MaxPackets
    /\ bytes \in 0..(PACKET_SIZE - 1)
    /\ accepted \in Seq(Received)
    /\ \A piece \in ToSet(transfer) \cup rejected :
           /\ piece.packet \in DOMAIN log
           /\ piece.chunk \in DOMAIN LensOf(piece.packet)
    /\ cut \subseteq DOMAIN log /\ cuts \in 0..MaxCuts

-----------------------------------------------------------------------------
\* The packets the reader returned are packets the device wrote, with what was
\* in them, in the order they were written and none twice, though a tail that
\* is read may look like any packet at all (transport.rs lines 103-149).
Genuine ==
    /\ \A i \in DOMAIN accepted :
           /\ accepted[i].seq \in DOMAIN log
           /\ Meaning(accepted[i]) = log[accepted[i].seq]
    /\ \A i, j \in DOMAIN accepted : i < j => accepted[i].seq < accepted[j].seq

\* Written to its end, and read.
Complete(p) == p < Len(log) \/ (p = Len(log) /\ chunk > Len(LensOf(p)))

\* A read given up in mid-packet costs that packet and no other: whatever is
\* left of it, the reader finds the start of the next one, and it reports an
\* error for no packet that came whole.
DamageContained ==
    /\ \A piece \in rejected : piece.packet \in cut
    /\ \A p \in DOMAIN log :
           Complete(p) => p \in cut \/ \E i \in DOMAIN accepted : accepted[i].seq = p

\* next_snapshot returns a snapshot that was read during the call, whatever
\* other packets the device sends in between (monitor.rs lines 121-128).
FreshSnapshot == call = "returned" => latest > before

\* Whatever a tail looks like and in how many chunks and reads a packet comes,
\* to the programs the link is that of PacketLink: each packet is returned or
\* lost before the next is sent (transport.rs lines 103-149).
Got ==
    [i \in DOMAIN accepted |->
        [seq |-> accepted[i].seq, packet |-> Meaning(accepted[i])]]
Link == INSTANCE PacketLink WITH
    Packets <- Kinds, sent <- log, returned <- Got, lost <- cut,
    failed <- {piece.packet : piece \in rejected}
ImplementsLink == Link!Spec
=============================================================================
