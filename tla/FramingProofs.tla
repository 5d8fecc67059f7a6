---------------------------- MODULE FramingProofs ----------------------------
(***************************************************************************)
(* Machine-checked proofs about PacketFraming: what the reader makes of the *)
(* packets, for every size and number of them and every way a read is given *)
(* up.                                                                      *)
(***************************************************************************)
EXTENDS PacketFraming, SequenceTheorems, TLAPS

-----------------------------------------------------------------------------
(* The inductive invariant, part by part.                                   *)

\* The packet under way, and the number of its chunks.
Current == Len(log)
Chunks == Len(LensOf(Current))

Pieces == [packet : Nat, chunk : Nat]

Typed ==
    /\ version \in Versions
    /\ log \in Seq(Kinds) /\ Len(log) <= MaxPackets
    /\ \A p \in DOMAIN log : log[p] \in Sendable(version)
    /\ chunk \in Nat \ {0}
    /\ call \in {"none", "refresh", "next_snapshot"} \cup Ends
    /\ latest \in 0..MaxPackets /\ before \in 0..MaxPackets
    /\ accepted \in Seq(Received)
    /\ transfer \in Seq(Pieces) /\ bytes \in Nat
    /\ cut \subseteq DOMAIN log /\ cuts \in 0..MaxCuts

\* The bulk read holds the last chunks that crossed, all of them full and of
\* one packet: it ends with the short one.
Pending ==
    /\ log = <<>> => chunk = 1 /\ transfer = <<>>
    /\ log # <<>> => chunk <= Chunks + 1
    /\ transfer # <<>> => chunk <= Chunks
    /\ Len(transfer) < chunk
    /\ \A i \in 1..Len(transfer) :
           transfer[i] = Piece(Current, chunk - 1 - Len(transfer) + i)
    /\ bytes = Chunk * Len(transfer)

\* The chunks of a packet are missing from the bulk read only if a read was
\* given up in it.
MissingIsCut ==
    log # <<>> /\ chunk <= Chunks /\ Len(transfer) + 1 < chunk => Current \in cut

\* The packet under way is not returned as long as its first chunk is held.
NotYet ==
    \A i \in DOMAIN accepted :
        accepted[i].seq = Current => Len(transfer) + 1 < chunk

RejectedCut ==
    \A piece \in rejected :
        /\ piece.packet \in cut
        /\ piece.chunk \in DOMAIN LensOf(piece.packet)

NoneLost ==
    \A p \in DOMAIN log :
        Complete(p) => p \in cut \/ \E i \in DOMAIN accepted : accepted[i].seq = p

\* A snapshot is of a packet that was returned.
Snapshot ==
    /\ latest = 0 \/ \E i \in DOMAIN accepted : accepted[i].seq = latest
    /\ before <= latest

FInv ==
    /\ Typed /\ Pending /\ MissingIsCut /\ NotYet /\ RejectedCut
    /\ Genuine /\ NoneLost /\ Snapshot /\ FreshSnapshot

-----------------------------------------------------------------------------
(* Packets, their sizes and their chunks.                                   *)

LEMMA KindFacts ==
    ASSUME NEW kind \in Kinds
    PROVE  /\ kind.type \in {"Ack", "Telemetry", "TraceSample"}
           /\ kind.samples \in 0..99
           /\ kind.type # "TraceSample" => kind.samples = 0
           /\ kind = [type |-> kind.type, samples |-> kind.samples]
<1>1. CASE kind \in [type : {"Ack", "Telemetry"}, samples : {0}]
  BY <1>1
<1>2. CASE kind \in [type : {"TraceSample"}, samples : SampleCounts]
  BY <1>2, CountAssumption
<1> QED
  BY <1>1, <1>2 DEF Kinds

LEMMA EncodedLens ==
    ASSUME NEW len \in Nat
    PROVE  /\ EncodedLen(3, len) = MIN_PACKET_SIZE + len
           /\ EncodedLen(2, len) = V2_PACKET_SIZE
           /\ EncodedLen(1, len) = LEGACY_PACKET_SIZE
<1>1. 3 # 2 /\ 3 # 1 /\ 2 # 1
  OBVIOUS
<1> QED
  BY <1>1, Zenon DEF EncodedLen

LEMMA SentFacts ==
    ASSUME Typed, NEW p \in DOMAIN log
    PROVE  /\ version \in 1..3 /\ p \in 1..Len(log) /\ p \in 1..MaxPackets
           /\ log[p].type \in {"Ack", "Telemetry", "TraceSample"}
           /\ log[p].samples \in 0..99
           /\ log[p].type # "TraceSample" => log[p].samples = 0
           /\ log[p] = [type |-> log[p].type, samples |-> log[p].samples]
           /\ log[p].type = "Ack" => PayloadLen(version, log[p]) = 2
           /\ log[p].type = "Telemetry" => PayloadLen(version, log[p]) = 16
           /\ log[p].type = "TraceSample" =>
                 PayloadLen(version, log[p]) =
                     IF version = 3 THEN 8 + 3 * log[p].samples
                     ELSE 4 * log[p].samples
           /\ PayloadLen(version, log[p]) \in Nat
           /\ PayloadLen(version, log[p]) <= MaxPayload[version]
<1>1. version \in 1..3 /\ p \in 1..Len(log) /\ Len(log) \in Nat
  BY VersionAssumption, LenProperties DEF Typed
<1>2. p \in 1..MaxPackets
  BY <1>1, BoundAssumption DEF Typed
<1>3. /\ log[p].type \in {"Ack", "Telemetry", "TraceSample"}
      /\ log[p].samples \in 0..99
      /\ log[p].type # "TraceSample" => log[p].samples = 0
      /\ log[p] = [type |-> log[p].type, samples |-> log[p].samples]
  <2>1. log[p] \in Kinds
    BY DEF Typed, Sendable
  <2> QED
    BY <2>1, KindFacts
<1>4. PayloadLen(version, log[p]) <= MaxPayload[version]
  BY DEF Typed, Sendable
<1>5. log[p].type = "Ack" => PayloadLen(version, log[p]) = 2
  BY Zenon DEF PayloadLen
<1>6. log[p].type = "Telemetry" => PayloadLen(version, log[p]) = 16
  BY Zenon DEF PayloadLen
<1>7. log[p].type = "TraceSample" =>
          PayloadLen(version, log[p]) =
              IF version = 3 THEN 8 + 3 * log[p].samples
              ELSE 4 * log[p].samples
  BY Zenon DEF PayloadLen
<1>8. PayloadLen(version, log[p]) \in Nat
  <2>1. CASE log[p].type = "TraceSample"
    <3>1. 8 + 3 * log[p].samples \in Nat /\ 4 * log[p].samples \in Nat
      BY <1>3
    <3> QED
      BY <2>1, <3>1, <1>7, Zenon
  <2>2. 2 \in Nat /\ 16 \in Nat
    OBVIOUS
  <2> QED
    BY <2>1, <2>2, <1>3, <1>5, <1>6, Zenon
<1> QED
  BY <1>1, <1>2, <1>3, <1>4, <1>5, <1>6, <1>7, <1>8

LEMMA SizeFacts ==
    ASSUME Typed, NEW p \in DOMAIN log
    PROVE  /\ SizeOf(log[p]) \in 12..PACKET_SIZE
           /\ version = 3 =>
                 SizeOf(log[p]) = 12 + PayloadLen(version, log[p])
           /\ version = 2 => SizeOf(log[p]) = 64
           /\ version = 1 => SizeOf(log[p]) = 32
<1> DEFINE len == PayloadLen(version, log[p])
<1>1. version \in 1..3 /\ len \in Nat /\ len <= MaxPayload[version]
  BY SentFacts
<1>2. SizeOf(log[p]) = EncodedLen(version, len)
  BY DEF SizeOf
<1> HIDE DEF len
<1>3. CASE version = 3
  BY <1>1, <1>2, <1>3, EncodedLens
     DEF MIN_PACKET_SIZE, PACKET_SIZE, MaxPayload, len
<1>4. CASE version = 2
  BY <1>1, <1>2, <1>4, EncodedLens DEF V2_PACKET_SIZE, PACKET_SIZE
<1>5. CASE version = 1
  BY <1>1, <1>2, <1>5, EncodedLens DEF LEGACY_PACKET_SIZE, PACKET_SIZE
<1> QED
  BY <1>1, <1>3, <1>4, <1>5

\* Every chunk of a packet is full but the last.
LEMMA ChunkFacts ==
    ASSUME NEW size \in Nat
    PROVE  /\ ChunkLens(size) \in Seq(Nat)
           /\ Len(ChunkLens(size)) = (size \div 64) + 1
           /\ DOMAIN ChunkLens(size) = 1..((size \div 64) + 1)
           /\ \A i \in 1..(size \div 64) : ChunkLens(size)[i] = 64
           /\ ChunkLens(size)[(size \div 64) + 1] = size % 64
<1> DEFINE k == size \div 64
<1>1. k \in Nat /\ 64 * k <= size /\ size < 64 * (k + 1)
  OBVIOUS
<1> HIDE DEF k
<1>2. ChunkLens(size) =
          [i \in 1..(k + 1) |-> IF 64 * i <= size THEN 64 ELSE size % 64]
  BY DEF ChunkLens, Chunk, k
<1>3. ChunkLens(size) \in [1..(k + 1) -> Nat]
  BY <1>1, <1>2
<1>4. ChunkLens(size) \in Seq(Nat)
  BY <1>1, <1>3, SeqDef
<1>5. Len(ChunkLens(size)) = k + 1 /\ DOMAIN ChunkLens(size) = 1..(k + 1)
  <2>1. DOMAIN ChunkLens(size) = 1..(k + 1)
    BY <1>2
  <2> QED
    BY <1>1, <1>4, <2>1, LenProperties
<1>6. \A i \in 1..k : ChunkLens(size)[i] = 64
  BY <1>1, <1>2
<1>7. ChunkLens(size)[k + 1] = size % 64
  BY <1>1, <1>2
<1> QED
  BY <1>4, <1>5, <1>6, <1>7 DEF k

LEMMA LensFacts ==
    ASSUME Typed, NEW p \in DOMAIN log
    PROVE  /\ Len(LensOf(p)) \in Nat \ {0}
           /\ DOMAIN LensOf(p) = 1..Len(LensOf(p))
           /\ \A i \in 1..Len(LensOf(p)) :
                 /\ LensOf(p)[i] \in 0..64
                 /\ i < Len(LensOf(p)) =>
                       LensOf(p)[i] = 64 /\ 64 * i <= SizeOf(log[p])
           /\ LensOf(p)[Len(LensOf(p))] < 64
           /\ 64 * (Len(LensOf(p)) - 1) + LensOf(p)[Len(LensOf(p))]
                = SizeOf(log[p])
<1>1. SizeOf(log[p]) \in Nat
  BY SizeFacts DEF PACKET_SIZE
<1> SUFFICES ASSUME NEW size \in Nat, NEW lens, lens = ChunkLens(size)
             PROVE  /\ Len(lens) \in Nat \ {0}
                    /\ DOMAIN lens = 1..Len(lens)
                    /\ \A i \in 1..Len(lens) :
                          /\ lens[i] \in 0..64
                          /\ i < Len(lens) => lens[i] = 64 /\ 64 * i <= size
                    /\ lens[Len(lens)] < 64
                    /\ 64 * (Len(lens) - 1) + lens[Len(lens)] = size
  BY <1>1, Zenon DEF LensOf
<1>2. PICK k \in Nat, r \in 0..63 : size = 64 * k + r
  <2>1. /\ size \div 64 \in Nat /\ size % 64 \in 0..63
        /\ size = 64 * (size \div 64) + (size % 64)
    OBVIOUS
  <2> QED
    BY <2>1
<1>3. size \div 64 = k /\ size % 64 = r
  BY <1>2
<1>4. /\ Len(lens) = k + 1 /\ DOMAIN lens = 1..(k + 1)
      /\ \A i \in 1..k : lens[i] = 64
      /\ lens[k + 1] = r
  BY <1>3, ChunkFacts
<1>5. \A i \in 1..(k + 1) :
          lens[i] \in 0..64 /\ (i < k + 1 => lens[i] = 64 /\ 64 * i <= size)
  <2> SUFFICES ASSUME NEW i \in 1..(k + 1)
               PROVE  /\ lens[i] \in 0..64
                      /\ i < k + 1 => lens[i] = 64 /\ 64 * i <= size
    OBVIOUS
  <2>1. CASE i = k + 1
    BY <2>1, <1>4
  <2>2. CASE i \in 1..k
    BY <2>2, <1>2, <1>4
  <2> QED
    BY <2>1, <2>2
<1> QED
  BY <1>2, <1>4, <1>5

LEMMA PieceFields ==
    \A p, i : Piece(p, i).packet = p /\ Piece(p, i).chunk = i
  BY Zenon DEF Piece

LEMMA CurrentFacts ==
    ASSUME Typed, log # <<>>
    PROVE  Current \in DOMAIN log /\ Current \in Nat \ {0}
  BY LenProperties, EmptySeq DEF Typed, Current

-----------------------------------------------------------------------------
(* Decoding.                                                                *)

\* What does not check out is an error, whatever its header looks like.
LEMMA NoDecode ==
    ASSUME NEW h, NEW n PROVE ReadPacket(h, n, FALSE) = NoPacket
  BY Zenon DEF ReadPacket, Decode, DecodeOlder

\* A whole packet decodes to what was sent, in every version of the protocol.
LEMMA WholeDecodes ==
    ASSUME Typed, NEW p \in DOMAIN log
    PROVE  LET packet == ReadPacket(Header(p), SizeOf(log[p]), TRUE)
           IN  /\ packet \in Received /\ packet # NoPacket
               /\ packet.seq = p
               /\ Meaning(packet) = log[p]
<1> PICK v : v = version
  OBVIOUS
<1> PICK type : type = log[p].type
  OBVIOUS
<1> PICK samples : samples = log[p].samples
  OBVIOUS
<1> PICK len : len = PayloadLen(version, log[p])
  OBVIOUS
<1> PICK n : n = SizeOf(log[p])
  OBVIOUS
<1> PICK h : h = Header(p)
  OBVIOUS
<1>1. /\ v \in 1..3 /\ p \in 1..MaxPackets
      /\ type \in {"Ack", "Telemetry", "TraceSample"}
      /\ samples \in 0..99 /\ (type # "TraceSample" => samples = 0)
      /\ log[p] = [type |-> type, samples |-> samples]
      /\ type = "Ack" => len = 2
      /\ type = "Telemetry" => len = 16
      /\ type = "TraceSample" => len = IF v = 3 THEN 8 + 3 * samples
                                       ELSE 4 * samples
      /\ len \in Nat /\ len <= MaxPayload[v]
  BY SentFacts
<1>2. /\ n \in 12..317 /\ (v = 3 => n = 12 + len)
      /\ (v = 2 => n = 64) /\ (v = 1 => n = 32)
  BY SizeFacts DEF PACKET_SIZE
<1>3. /\ h.magic = TRUE /\ h.version = v /\ h.type = type /\ h.seq = p
      /\ h.payload_len = len
  BY DEF Header
<1>4. type # "Unknown"
  BY <1>1
<1> PICK m : m = IF type = "TraceSample" THEN 8 + 3 * samples ELSE len
  OBVIOUS
<1>5. ReadPacket(h, n, TRUE) = [type |-> type, seq |-> p, payload_len |-> m]
  <2>1. CASE v = 3
    <3>1. /\ n >= MIN_PACKET_SIZE /\ h.version = 3
          /\ h.version # 2 /\ h.version # 1
      BY <2>1, <1>2, <1>3 DEF MIN_PACKET_SIZE
    <3>2. len <= MaxPayload[3] /\ n = EncodedLen(3, len)
      BY <2>1, <1>1, <1>2, EncodedLens DEF MIN_PACKET_SIZE
    <3>3. ReadPacket(h, n, TRUE) = Decode(h, n, TRUE)
      BY <3>1, Zenon DEF ReadPacket
    <3>5. Decode(h, n, TRUE) = [type |-> h.type, seq |-> h.seq,
                                payload_len |-> h.payload_len]
      <4>1. /\ h.magic /\ h.payload_len <= MaxPayload[3]
            /\ n = EncodedLen(3, h.payload_len) /\ h.type # "Unknown"
        BY <3>2, <1>3, <1>4
      <4> QED
        BY <4>1, Zenon DEF Decode
    <3>4. len = m
      BY <2>1, <1>1
    <3> QED
      BY <3>3, <3>4, <3>5, <1>3, Zenon
  <2>2. CASE v = 1 \/ v = 2
    <3>1. n # 12 /\ h.version # 3 /\ len <= MaxPayload[v]
      BY <2>2, <1>1, <1>2, <1>3
    <3>2. \/ v = 2 /\ n = V2_PACKET_SIZE /\ h.version = 2
          \/ v = 1 /\ n = LEGACY_PACKET_SIZE /\ h.version = 1 /\ h.version # 2
      BY <2>2, <1>2, <1>3 DEF V2_PACKET_SIZE, LEGACY_PACKET_SIZE
    <3>3. ReadPacket(h, n, TRUE) = DecodeOlder(v, h, TRUE)
      BY <3>1, <3>2, Zenon DEF ReadPacket
    <3>4. ReadPacket(h, n, TRUE) =
              [type |-> type, seq |-> p,
               payload_len |-> IF type = "TraceSample"
                               THEN 8 + 3 * (len \div 4) ELSE len]
      BY <3>1, <3>3, <1>3, <1>4, Zenon DEF DecodeOlder
    <3>5. type = "TraceSample" => len \div 4 = samples
      <4>1. \A s \in Nat : (4 * s) \div 4 = s
        OBVIOUS
      <4>2. type = "TraceSample" => len = 4 * samples
        BY <2>2, <1>1
      <4> QED
        BY <4>1, <4>2, <1>1
    <3> QED
      BY <3>4, <3>5, Zenon
  <2>3. v = 1 \/ v = 2 \/ v = 3
    BY <1>1
  <2> QED
    BY <2>1, <2>2, <2>3, Zenon
<1>6. m \in 0..305
  BY <1>1 DEF MaxPayload
<1>7. type = "TraceSample" => m = 8 + 3 * samples
  OBVIOUS
<1>8. /\ [type |-> type, seq |-> p, payload_len |-> m] \in Received
      /\ [type |-> type, seq |-> p, payload_len |-> m] # NoPacket
      /\ Meaning([type |-> type, seq |-> p, payload_len |-> m])
           = [type |-> type, samples |-> samples]
  <2>1. [type |-> type, seq |-> p, payload_len |-> m]
            \in [type : Types \ {"Unknown"}, seq : 1..MaxPackets,
                 payload_len : 0..MaxPayload[3]]
    BY <1>1, <1>6 DEF Types, MaxPayload
  <2>2. type = "TraceSample" =>
            m >= 8 /\ m % 3 = 2 /\ (m - 8) \div 3 = samples
    BY <1>1, <1>7
  <2>3. [type |-> type, seq |-> p, payload_len |-> m] \in Received
    BY <2>1, <2>2 DEF Received
  <2>4. [type |-> type, seq |-> p, payload_len |-> m] # NoPacket
    BY DEF NoPacket
  <2>5. Meaning([type |-> type, seq |-> p, payload_len |-> m])
            = [type |-> type, samples |-> samples]
    BY <2>2, <1>1 DEF Meaning
  <2> QED
    BY <2>3, <2>4, <2>5
<1>9. [type |-> type, seq |-> p, payload_len |-> m].seq = p
  OBVIOUS
<1> QED
  BY <1>1, <1>5, <1>8, <1>9, Zenon

-----------------------------------------------------------------------------
LEMMA CurrentInv ==
    ASSUME FInv, log # <<>>
    PROVE  /\ Current \in Nat \ {0} /\ Current = Len(log)
           /\ DOMAIN log = 1..Current
           /\ Chunks \in Nat \ {0} /\ Chunks = Len(LensOf(Current))
           /\ DOMAIN LensOf(Current) = 1..Chunks
           /\ chunk \in Nat \ {0} /\ chunk <= Chunks + 1
           /\ Len(transfer) \in Nat /\ Len(transfer) < chunk
           /\ Len(accepted) \in Nat /\ DOMAIN accepted = 1..Len(accepted)
<1>1. Current \in DOMAIN log /\ Current \in Nat \ {0}
  BY CurrentFacts DEF FInv
<1>2. DOMAIN log = 1..Len(log)
  BY LenProperties DEF FInv, Typed
<1>3. Chunks \in Nat \ {0} /\ DOMAIN LensOf(Current) = 1..Chunks
  BY <1>1, LensFacts DEF FInv, Chunks
<1>4. /\ Len(transfer) \in Nat
      /\ Len(accepted) \in Nat /\ DOMAIN accepted = 1..Len(accepted)
  BY LenProperties DEF FInv, Typed
<1>5. chunk \in Nat \ {0} /\ chunk <= Chunks + 1 /\ Len(transfer) < chunk
  BY DEF FInv, Typed, Pending
<1> QED
  BY <1>1, <1>2, <1>3, <1>4, <1>5 DEF Current, Chunks

LEMMA HasChunks == Typed => (log # <<>> => Chunks \in Nat \ {0})
  BY CurrentFacts, LensFacts DEF Chunks

LEMMA SameLog ==
    ASSUME UNCHANGED <<version, log>>
    PROVE  /\ Current' = Current /\ Chunks' = Chunks
           /\ \A p : LensOf(p)' = LensOf(p)
           /\ \A p : SizeOf(log[p])' = SizeOf(log[p])
  BY DEF Current, Chunks, LensOf, SizeOf

LEMMA FInvInit == Init => FInv
<1> SUFFICES ASSUME Init PROVE FInv
  OBVIOUS
<1> USE DEF Init
<1>1. Typed
  BY BoundAssumption DEF Typed, Ends
<1>2. Len(transfer) = 0 /\ DOMAIN accepted = {} /\ DOMAIN log = {}
  BY EmptySeq
<1>3. Pending /\ MissingIsCut
  BY <1>2 DEF Pending, MissingIsCut, Chunk
<1>4. NotYet /\ RejectedCut /\ Genuine /\ NoneLost
  BY <1>2 DEF NotYet, RejectedCut, Genuine, NoneLost
<1>5. Snapshot /\ FreshSnapshot
  BY DEF Snapshot, FreshSnapshot
<1> QED
  BY <1>1, <1>3, <1>4, <1>5 DEF FInv

-----------------------------------------------------------------------------
(* Steps in which nothing is read.                                          *)

LEMMA QuietStep ==
    ASSUME FInv,
           UNCHANGED <<version, log, chunk, readVars, accepted, rejected, cut,
                       cuts, latest>>,
           call' \in {"none", "refresh", "next_snapshot"} \cup Ends,
           \/ UNCHANGED <<call, before>>
           \/ call' # "returned" /\ before' \in {before, latest}
    PROVE  FInv'
<1> USE DEF FInv, readVars
<1>1. Typed'
  BY DEF Typed
<1>2. (Pending /\ MissingIsCut /\ NotYet /\ RejectedCut)'
  BY SameLog DEF Pending, MissingIsCut, NotYet, RejectedCut
<1>3. (Genuine /\ NoneLost)'
  BY SameLog DEF Genuine, NoneLost, Complete
<1>4. (Snapshot /\ FreshSnapshot)'
  BY BoundAssumption DEF Snapshot, FreshSnapshot, Typed
<1> QED
  BY <1>1, <1>2, <1>3, <1>4

LEMMA WriteStep == FInv /\ WritePacket => FInv'
<1> SUFFICES ASSUME FInv, WritePacket PROVE FInv'
  OBVIOUS
<1> USE DEF FInv, WritePacket, readVars, monitorVars
<1>1. PICK kind \in Sendable(version) : log' = Append(log, kind)
  OBVIOUS
<1>2. /\ kind \in Kinds /\ log \in Seq(Kinds) /\ Len(log) \in Nat
      /\ DOMAIN log = 1..Len(log)
  BY LenProperties DEF Sendable, Typed
<1>3. /\ log' \in Seq(Kinds) /\ Len(log') = Len(log) + 1
      /\ DOMAIN log' = 1..(Len(log) + 1)
      /\ \A p \in 1..Len(log) : log'[p] = log[p]
      /\ log'[Len(log) + 1] = kind
  BY <1>1, <1>2, AppendProperties, LenProperties
<1>4. \A p \in DOMAIN log : LensOf(p)' = LensOf(p)
  BY <1>2, <1>3 DEF LensOf, SizeOf
<1>5. Current' = Len(log) + 1 /\ Current = Len(log) /\ log' # <<>>
  BY <1>2, <1>3, EmptySeq DEF Current
<1>6. Typed'
  <2>1. \A p \in DOMAIN log' : log'[p] \in Sendable(version)'
    BY <1>1, <1>2, <1>3 DEF Typed, Sendable
  <2> QED
    BY <2>1, <1>2, <1>3, BoundAssumption DEF Typed
<1>7. transfer = <<>>
  <2>1. CASE log = <<>>
    BY <2>1 DEF Pending
  <2>2. CASE log # <<>>
    <3>1. chunk > Chunks
      BY <2>2 DEF Chunks, Current
    <3> QED
      BY <2>2, <3>1, CurrentInv DEF Pending
  <2> QED
    BY <2>1, <2>2
<1>8. Chunks' \in Nat \ {0}
  <2>1. (Typed => (log # <<>> => Chunks \in Nat \ {0}))'
    BY HasChunks, PTL
  <2> QED
    BY <2>1, <1>5, <1>6
<1>9. Pending' /\ MissingIsCut'
  <2>1. transfer' = <<>> /\ Len(transfer') = 0 /\ chunk' = 1
    BY <1>7, EmptySeq
  <2>2. bytes' = 0
    BY <2>1 DEF Pending, Chunk
  <2> HIDE DEF FInv, WritePacket
  <2>3. Pending'
    <3>1. bytes' = Chunk * Len(transfer')
      BY <2>1, <2>2 DEF Chunk
    <3>2. 1..Len(transfer') = {}
      BY <2>1
    <3>3. Len(transfer') < chunk'
      BY <2>1
    <3>4. chunk' <= Chunks' + 1
      <4>1. \A k \in Nat : 1 <= k + 1
        OBVIOUS
      <4> QED
        BY <2>1, <1>8, <4>1
    <3> QED
      BY <3>1, <3>2, <3>3, <3>4, <2>1, <1>5, Zenon DEF Pending, Chunk
  <2>4. MissingIsCut'
    BY <2>1 DEF MissingIsCut
  <2> QED
    BY <2>3, <2>4
<1>10. Genuine'
  BY <1>2, <1>3 DEF Genuine
<1>11. NotYet'
  BY <1>2, <1>5 DEF NotYet, Genuine
<1>12. RejectedCut'
  BY <1>4 DEF RejectedCut, Typed
<1>13. NoneLost'
  <2> SUFFICES ASSUME NEW p \in DOMAIN log', Complete(p)'
               PROVE  p \in cut \/ \E i \in DOMAIN accepted : accepted[i].seq = p
    BY DEF NoneLost
  <2>1. p \in DOMAIN log
    <3>1. p # Len(log) + 1
      BY <1>5, <1>8 DEF Complete, Chunks
    <3> QED
      BY <3>1, <1>2, <1>3
  <2>2. Complete(p)
    BY <2>1, <1>2, EmptySeq DEF Complete
  <2> QED
    BY <2>1, <2>2 DEF NoneLost
<1>14. (Snapshot /\ FreshSnapshot)'
  BY DEF Snapshot, FreshSnapshot
<1> QED
  BY <1>6, <1>9, <1>10, <1>11, <1>12, <1>13, <1>14

-----------------------------------------------------------------------------
(* Chunks that cross, and reads that end.                                   *)

\* In t are chunks of the packet under way, from the one after the first f.
Follows(t, f) ==
    /\ t \in Seq(Pieces) /\ t # <<>>
    /\ \A i \in 1..Len(t) : t[i] = Piece(Current, f + i)

\* What a read comes to: it is skipped, or an error, or a packet.
LEMMA ReceiveOutcome ==
    ASSUME FInv, log # <<>>, NEW f \in Nat, NEW t, Follows(t, f),
           NEW n, Receive(t, n)
    PROVE  /\ transfer' = <<>> /\ bytes' = 0
           /\ \/ n = 0 /\ UNCHANGED <<accepted, rejected, call, latest>>
              \/ /\ ~Whole(t, n)
                 /\ rejected' = rejected \cup ToSet(t)
                 /\ call' = "FredProtocolError"
                 /\ UNCHANGED <<accepted, latest>>
              \/ /\ Whole(t, n) /\ UNCHANGED rejected
                 /\ \E packet \in Received :
                        /\ packet.seq = Current
                        /\ Meaning(packet) = log[Current]
                        /\ accepted' = Append(accepted, packet)
                        /\ Consume(packet)
<1>1. Current \in DOMAIN log
  BY CurrentFacts DEF FInv
<1>2. t[1] = Piece(Current, f + 1) /\ t[1].packet = Current
  BY EmptySeq DEF Follows, Piece
<1>3. CASE n = 0
  BY <1>3 DEF Receive
<1>4. CASE n # 0
  <2>1. PICK h \in HeadersSeen(t, n) :
            LET packet == ReadPacket(h, n, Whole(t, n))
            IN  IF packet = NoPacket
                THEN /\ rejected' = rejected \cup ToSet(t)
                     /\ call' = "FredProtocolError"
                     /\ UNCHANGED <<accepted, latest>>
                ELSE /\ accepted' = Append(accepted, packet)
                     /\ Consume(packet)
                     /\ UNCHANGED rejected
    BY <1>4, Zenon DEF Receive
  <2>2. transfer' = <<>> /\ bytes' = 0
    BY DEF Receive
  <2>3. CASE ~Whole(t, n)
    <3>1. Whole(t, n) = FALSE
      BY <2>3 DEF Whole
    <3>2. ReadPacket(h, n, Whole(t, n)) = NoPacket
      BY <3>1, NoDecode, Zenon
    <3> QED
      BY <2>1, <2>2, <2>3, <3>2, Zenon
  <2>4. CASE Whole(t, n)
    <3>1. Whole(t, n) = TRUE
      BY <2>4 DEF Whole
    <3>2. h = Header(Current) /\ n = SizeOf(log[Current])
      BY <2>4, <1>2 DEF HeadersSeen, Whole
    <3>3. PICK packet : packet = ReadPacket(h, n, Whole(t, n))
      OBVIOUS
    <3>4. packet = ReadPacket(Header(Current), SizeOf(log[Current]), TRUE)
      BY <3>1, <3>2, <3>3, Zenon
    <3>5. /\ packet \in Received /\ packet # NoPacket
          /\ packet.seq = Current /\ Meaning(packet) = log[Current]
      BY <3>4, <1>1, WholeDecodes DEF FInv
    <3> QED
      BY <2>1, <2>2, <2>4, <3>3, <3>5, Zenon
  <2> QED
    BY <2>3, <2>4
<1> QED
  BY <1>3, <1>4

\* A chunk that leaves the read going.
LEMMA MoveStep ==
    ASSUME FInv, log # <<>>, chunk < Chunks,
           transfer' = Append(transfer, Piece(Current, chunk)),
           bytes' = bytes + Chunk, chunk' = chunk + 1,
           UNCHANGED <<version, log, accepted, rejected, cut, cuts,
                       monitorVars>>
    PROVE  FInv'
<1> USE DEF FInv, monitorVars
<1>1. /\ Current \in Nat \ {0} /\ Chunks \in Nat \ {0} /\ chunk \in Nat \ {0}
      /\ Len(transfer) \in Nat /\ Len(transfer) < chunk
  BY CurrentInv
<1>2. Piece(Current, chunk) \in Pieces
  BY <1>1 DEF Piece, Pieces
<1>3. /\ transfer' \in Seq(Pieces) /\ transfer' # <<>>
      /\ Len(transfer') = Len(transfer) + 1
      /\ \A i \in 1..Len(transfer) : transfer'[i] = transfer[i]
      /\ transfer'[Len(transfer) + 1] = Piece(Current, chunk)
  <2>1. transfer \in Seq(Pieces)
    BY DEF Typed
  <2> QED
    BY <2>1, <1>2, AppendProperties
<1>4. Typed'
  BY <1>1, <1>3 DEF Typed, Chunk
<1>5. Pending'
  <2>1. \A i \in 1..Len(transfer') :
            transfer'[i] = Piece(Current, chunk' - 1 - Len(transfer') + i)
    <3> SUFFICES ASSUME NEW i \in 1..Len(transfer')
                 PROVE  transfer'[i] =
                            Piece(Current, chunk' - 1 - Len(transfer') + i)
      OBVIOUS
    <3>1. chunk' - 1 - Len(transfer') + i = chunk - 1 - Len(transfer) + i
      BY <1>1, <1>3
    <3>2. CASE i \in 1..Len(transfer)
      BY <3>1, <3>2, <1>3 DEF Pending
    <3>3. CASE i = Len(transfer) + 1
      <4>1. chunk - 1 - Len(transfer) + i = chunk
        BY <3>3, <1>1
      <4> QED
        BY <3>1, <3>3, <4>1, <1>3
    <3> QED
      BY <3>2, <3>3, <1>1, <1>3
  <2>2. bytes' = Chunk * Len(transfer')
    BY <1>1, <1>3 DEF Pending, Chunk
  <2>3. /\ Len(transfer') < chunk' /\ chunk' <= Chunks
        /\ chunk' <= Chunks + 1
    BY <1>1, <1>3
  <2> QED
    BY <2>1, <2>2, <2>3, SameLog DEF Pending
<1>6. MissingIsCut' /\ NotYet'
  <2>1. Len(transfer') + 1 < chunk' <=> Len(transfer) + 1 < chunk
    BY <1>1, <1>3
  <2>2. chunk <= Chunks
    BY <1>1
  <2> QED
    BY <2>1, <2>2, SameLog DEF MissingIsCut, NotYet
<1>7. RejectedCut' /\ Genuine'
  BY SameLog DEF RejectedCut, Genuine
<1>8. NoneLost'
  <2>1. \A p : Complete(p)' => Complete(p)
    BY <1>1, SameLog DEF Complete, Chunks, Current
  <2> QED
    BY <2>1 DEF NoneLost
<1>9. (Snapshot /\ FreshSnapshot)'
  BY DEF Snapshot, FreshSnapshot
<1> QED
  BY <1>4, <1>5, <1>6, <1>7, <1>8, <1>9

\* What every read leaves behind that ends in the packet under way.
Ended ==
    /\ log # <<>> /\ transfer' = <<>> /\ bytes' = 0
    /\ chunk' \in 2..(Chunks + 1)
    /\ chunk' <= Chunks => Current \in cut'
    /\ cut' \in {cut, cut \cup {Current}} /\ cuts' \in 0..MaxCuts
    /\ UNCHANGED <<version, log, before>>

LEMMA EndedReads ==
    ASSUME FInv, Ended
    PROVE  /\ Pending' /\ MissingIsCut' /\ NotYet'
           /\ \A p \in DOMAIN log :
                 Complete(p)' => Complete(p) \/ p = Current
           /\ cut \subseteq cut' /\ cut' \subseteq DOMAIN log
<1> USE DEF Ended
<1>1. /\ Current \in Nat \ {0} /\ Chunks \in Nat \ {0} /\ Current = Len(log)
      /\ Current \in DOMAIN log /\ DOMAIN log = 1..Current
  BY CurrentInv
<1>2. Len(transfer') = 0 /\ Len(transfer') + 1 < chunk'
      /\ Len(transfer') < chunk' /\ chunk' \in Nat \ {0}
  <2>1. chunk' \in Nat /\ chunk' >= 2
    BY <1>1
  <2>2. Len(transfer') = 0
    BY EmptySeq
  <2> HIDE DEF Ended
  <2> QED
    BY <2>1, <2>2
<1>3. Pending'
  <2>1. 1..Len(transfer') = {} /\ bytes' = Chunk * Len(transfer')
    BY <1>2 DEF Chunk
  <2>2. chunk' <= Chunks + 1
    BY <1>1
  <2>3. Current' = Current /\ Chunks' = Chunks
    BY SameLog
  <2> QED
    BY <2>1, <2>2, <2>3, <1>2, Zenon DEF Pending
<1>4. MissingIsCut' /\ NotYet'
  BY <1>2, SameLog DEF MissingIsCut, NotYet
<1>5. \A p \in DOMAIN log : Complete(p)' => Complete(p) \/ p = Current
  BY <1>1 DEF Complete
<1>6. cut \subseteq cut' /\ cut' \subseteq DOMAIN log
  BY <1>1 DEF FInv, Typed
<1> QED
  BY <1>3, <1>4, <1>5, <1>6

\* A read that gives nothing, in a packet that was cut.
LEMMA DropStep ==
    ASSUME FInv, Ended, Current \in cut',
           UNCHANGED <<accepted, rejected, latest>>, Reading,
           call' \in {call, "refreshed", "FredUsbError"}
    PROVE  FInv'
<1> USE DEF FInv
<1>1. /\ Pending' /\ MissingIsCut' /\ NotYet'
      /\ \A p \in DOMAIN log : Complete(p)' => Complete(p) \/ p = Current
      /\ cut \subseteq cut' /\ cut' \subseteq DOMAIN log
  BY EndedReads
<1>2. chunk' \in Nat \ {0}
  BY CurrentInv DEF Ended
<1>3. Typed'
  <2>1. call' \in {"none", "refresh", "next_snapshot"} \cup Ends
    BY DEF Reading, Ends
  <2>2. transfer' \in Seq(Pieces) /\ bytes' \in Nat
    BY EmptySeq DEF Ended
  <2> QED
    BY <2>1, <2>2, <1>1, <1>2 DEF Typed, Ended
<1>4. RejectedCut'
  BY <1>1, SameLog DEF RejectedCut, Ended
<1>5. Genuine'
  BY DEF Genuine, Ended
<1>6. NoneLost'
  BY <1>1 DEF NoneLost, Ended
<1>7. (Snapshot /\ FreshSnapshot)'
  BY DEF Snapshot, FreshSnapshot, Ended, Reading
<1> QED
  BY <1>1, <1>3, <1>4, <1>5, <1>6, <1>7

\* A read that is refused.
LEMMA RejectStep ==
    ASSUME FInv, Ended, Current \in cut',
           NEW f \in Nat, NEW t, Follows(t, f), f + Len(t) <= Chunks,
           rejected' = rejected \cup ToSet(t),
           UNCHANGED <<accepted, latest>>, call' = "FredProtocolError"
    PROVE  FInv'
<1> USE DEF FInv
<1>1. /\ Pending' /\ MissingIsCut' /\ NotYet'
      /\ \A p \in DOMAIN log : Complete(p)' => Complete(p) \/ p = Current
      /\ cut \subseteq cut' /\ cut' \subseteq DOMAIN log
  BY EndedReads
<1>2. /\ chunk' \in Nat \ {0} /\ Current \in Nat /\ Chunks \in Nat
      /\ DOMAIN LensOf(Current) = 1..Chunks
  BY CurrentInv DEF Ended
<1>3. Typed'
  <2>1. transfer' \in Seq(Pieces) /\ bytes' \in Nat
    BY EmptySeq DEF Ended
  <2> QED
    BY <2>1, <1>1, <1>2 DEF Typed, Ended, Ends
<1>4. RejectedCut'
  <2>1. \A piece \in ToSet(t) : /\ piece.packet = Current
                                /\ piece.chunk \in 1..Chunks
    <3> SUFFICES ASSUME NEW i \in DOMAIN t
                 PROVE t[i].packet = Current /\ t[i].chunk \in 1..Chunks
      BY DEF ToSet
    <3>1. Len(t) \in Nat /\ DOMAIN t = 1..Len(t)
      BY LenProperties DEF Follows
    <3>2. t[i] = Piece(Current, f + i)
      BY <3>1 DEF Follows
    <3>3. f + i \in 1..Chunks
      BY <3>1, <1>2
    <3> QED
      BY <3>2, <3>3 DEF Piece
  <2>2. \A p : LensOf(p)' = LensOf(p)
    BY SameLog DEF Ended
  <2>3. ASSUME NEW piece \in rejected'
        PROVE  piece.packet \in cut' /\ piece.chunk \in DOMAIN LensOf(piece.packet)
    <3>1. CASE piece \in rejected
      BY <3>1, <1>1 DEF RejectedCut
    <3>2. CASE piece \in ToSet(t)
      BY <3>2, <2>1, <1>2
    <3> QED
      BY <3>1, <3>2
  <2> QED
    BY <2>2, <2>3 DEF RejectedCut
<1>5. Genuine'
  BY DEF Genuine, Ended
<1>6. NoneLost'
  BY <1>1 DEF NoneLost, Ended
<1>7. (Snapshot /\ FreshSnapshot)'
  BY DEF Snapshot, FreshSnapshot, Ended
<1> QED
  BY <1>1, <1>3, <1>4, <1>5, <1>6, <1>7

\* A read that returns a packet.
LEMMA AcceptStep ==
    ASSUME FInv, Ended, Reading, UNCHANGED rejected,
           NEW packet \in Received, packet.seq = Current,
           Meaning(packet) = log[Current],
           accepted' = Append(accepted, packet), Consume(packet),
           \A i \in DOMAIN accepted : accepted[i].seq # Current
    PROVE  FInv'
<1> USE DEF FInv
<1>1. /\ Pending' /\ MissingIsCut' /\ NotYet'
      /\ \A p \in DOMAIN log : Complete(p)' => Complete(p) \/ p = Current
      /\ cut \subseteq cut' /\ cut' \subseteq DOMAIN log
  BY EndedReads
<1>2. /\ chunk' \in Nat \ {0} /\ Current \in Nat \ {0}
      /\ DOMAIN log = 1..Current /\ Current \in 0..MaxPackets
      /\ Len(accepted) \in Nat /\ DOMAIN accepted = 1..Len(accepted)
  BY CurrentInv, BoundAssumption DEF Ended, Typed
<1>3. /\ accepted' \in Seq(Received) /\ Len(accepted') = Len(accepted) + 1
      /\ DOMAIN accepted' = 1..(Len(accepted) + 1)
      /\ \A i \in 1..Len(accepted) : accepted'[i] = accepted[i]
      /\ accepted'[Len(accepted) + 1] = packet
  BY <1>2, AppendProperties, LenProperties DEF Typed
<1>4. \A i \in 1..Len(accepted) :
          accepted[i].seq \in Nat /\ accepted[i].seq < Current
  BY <1>2 DEF Genuine
<1>5. latest' \in {latest, Current} /\ before <= latest /\ latest < Current
  <2>1. latest < Current
    BY <1>2, <1>4 DEF Snapshot
  <2> QED
    BY <2>1 DEF Consume, Snapshot
<1>6. Typed'
  <2>1. call' \in {"none", "refresh", "next_snapshot"} \cup Ends
    BY DEF Reading, Ends, Consume
  <2>2. transfer' \in Seq(Pieces) /\ bytes' \in Nat
    BY EmptySeq DEF Ended
  <2>3. latest' \in 0..MaxPackets
    BY <1>2, <1>5 DEF Typed
  <2> QED
    BY <2>1, <2>2, <2>3, <1>1, <1>2, <1>3 DEF Typed, Ended
<1>7. RejectedCut'
  BY <1>1, SameLog DEF RejectedCut, Ended
<1>8. Genuine'
  <2>1. \A i \in DOMAIN accepted' :
            /\ accepted'[i].seq \in DOMAIN log
            /\ Meaning(accepted'[i]) = log[accepted'[i].seq]
    <3> SUFFICES ASSUME NEW i \in DOMAIN accepted'
                 PROVE  /\ accepted'[i].seq \in DOMAIN log
                        /\ Meaning(accepted'[i]) = log[accepted'[i].seq]
      OBVIOUS
    <3>1. CASE i \in 1..Len(accepted)
      BY <3>1, <1>2, <1>3 DEF Genuine
    <3>2. CASE i = Len(accepted) + 1
      BY <3>2, <1>2, <1>3
    <3> QED
      BY <3>1, <3>2, <1>2, <1>3
  <2>2. \A i, j \in DOMAIN accepted' :
            i < j => accepted'[i].seq < accepted'[j].seq
    <3> SUFFICES ASSUME NEW i \in DOMAIN accepted', NEW j \in DOMAIN accepted',
                        i < j
                 PROVE  accepted'[i].seq < accepted'[j].seq
      OBVIOUS
    <3>1. i \in 1..Len(accepted)
      BY <1>2, <1>3
    <3>2. CASE j \in 1..Len(accepted)
      BY <3>1, <3>2, <1>2, <1>3 DEF Genuine
    <3>3. CASE j = Len(accepted) + 1
      BY <3>1, <3>3, <1>3, <1>4
    <3> QED
      BY <3>2, <3>3, <1>2, <1>3
  <2>3. log' = log
    BY DEF Ended
  <2> QED
    BY <2>1, <2>2, <2>3 DEF Genuine, Meaning
<1>9. NoneLost'
  <2>1. \E i \in DOMAIN accepted' : accepted'[i].seq = Current
    BY <1>2, <1>3
  <2>2. \A p : (\E i \in DOMAIN accepted : accepted[i].seq = p) =>
                   \E i \in DOMAIN accepted' : accepted'[i].seq = p
    BY <1>2, <1>3
  <2> QED
    BY <2>1, <2>2, <1>1 DEF NoneLost, Ended
<1>10. Snapshot'
  <2>1. CASE latest' = Current
    <3>1. \E i \in DOMAIN accepted' : accepted'[i].seq = Current
      BY <1>2, <1>3
    <3>2. before <= Current
      BY <1>2, <1>5 DEF Typed
    <3> QED
      BY <3>1, <3>2, <2>1 DEF Snapshot, Ended
  <2>2. CASE latest' = latest
    BY <2>2, <1>2, <1>3 DEF Snapshot, Ended
  <2> QED
    BY <2>1, <2>2, <1>5
<1>11. FreshSnapshot'
  <2> SUFFICES ASSUME call' = "returned" PROVE latest' > before'
    BY DEF FreshSnapshot
  <2>1. IsSnapshot(packet)
    BY DEF Consume, Reading
  <2>2. latest' = Current
    BY <2>1 DEF Consume
  <2> QED
    BY <2>2, <1>2, <1>5 DEF Ended, Typed
<1> QED
  BY <1>1, <1>6, <1>7, <1>8, <1>9, <1>10, <1>11

-----------------------------------------------------------------------------
\* A read that ends, with its last chunk or because it is given up.
LEMMA ReceiveStep ==
    ASSUME FInv, Ended, Reading, NEW f \in Nat, NEW t, Follows(t, f),
           f + Len(t) <= Chunks, f = chunk - 1 - Len(transfer),
           NEW n, Receive(t, n),
           Current \in cut' \/ (n # 0 /\ Whole(t, n))
    PROVE  FInv'
<1>1. CASE n = 0 /\ UNCHANGED <<accepted, rejected, call, latest>>
  BY <1>1, DropStep
<1>2. CASE /\ ~Whole(t, n)
           /\ rejected' = rejected \cup ToSet(t)
           /\ call' = "FredProtocolError"
           /\ UNCHANGED <<accepted, latest>>
  BY <1>2, RejectStep
<1>3. ASSUME Whole(t, n), UNCHANGED rejected,
             NEW packet \in Received, packet.seq = Current,
             Meaning(packet) = log[Current],
             accepted' = Append(accepted, packet), Consume(packet)
      PROVE  FInv'
  <2>1. t[1].chunk = f + 1
    <3>1. t[1] = Piece(Current, f + 1)
      BY EmptySeq DEF Follows
    <3>2. Piece(Current, f + 1).chunk = f + 1
      BY PieceFields, Zenon
    <3> QED
      BY <3>1, <3>2
  <2>2. Len(transfer) = chunk - 1
    <3>1. f = 0
      BY <1>3, <2>1 DEF Whole
    <3>2. chunk \in Nat /\ Len(transfer) \in Nat
      BY CurrentInv DEF Ended
    <3>3. 0 = chunk - 1 - Len(transfer)
      BY <3>1, Zenon
    <3> QED
      BY <3>2, <3>3
  <2>3. \A i \in DOMAIN accepted : accepted[i].seq # Current
    <3>1. ~(Len(transfer) + 1 < chunk)
      BY <2>2, CurrentInv DEF Ended
    <3> QED
      BY <3>1 DEF FInv, NotYet
  <2> QED
    BY <1>3, <2>3, AcceptStep
<1> QED
  BY <1>1, <1>2, <1>3, ReceiveOutcome DEF Ended

\* What the bulk read holds, as Follows.
LEMMA HeldFollows ==
    ASSUME FInv, log # <<>>
    PROVE  /\ chunk - 1 - Len(transfer) \in Nat
           /\ transfer # <<>> => Follows(transfer, chunk - 1 - Len(transfer))
           /\ Follows(Append(transfer, Piece(Current, chunk)),
                      chunk - 1 - Len(transfer))
           /\ Len(Append(transfer, Piece(Current, chunk))) = Len(transfer) + 1
<1>1. /\ Current \in Nat \ {0} /\ chunk \in Nat \ {0}
      /\ Len(transfer) \in Nat /\ Len(transfer) < chunk
  BY CurrentInv
<1>2. chunk - 1 - Len(transfer) \in Nat
  BY <1>1
<1> PICK f \in Nat : f = chunk - 1 - Len(transfer)
  BY <1>2
<1>3. /\ transfer \in Seq(Pieces) /\ Piece(Current, chunk) \in Pieces
      /\ \A i \in 1..Len(transfer) : transfer[i] = Piece(Current, f + i)
  BY <1>1 DEF FInv, Typed, Pending, Piece, Pieces
<1> PICK t : t = Append(transfer, Piece(Current, chunk))
  OBVIOUS
<1>4. /\ t \in Seq(Pieces) /\ t # <<>> /\ Len(t) = Len(transfer) + 1
      /\ \A i \in 1..Len(transfer) : t[i] = transfer[i]
      /\ t[Len(transfer) + 1] = Piece(Current, chunk)
  BY <1>3, AppendProperties
<1>5. \A i \in 1..Len(t) : t[i] = Piece(Current, f + i)
  <2> SUFFICES ASSUME NEW i \in 1..Len(t) PROVE t[i] = Piece(Current, f + i)
    OBVIOUS
  <2>1. CASE i \in 1..Len(transfer)
    BY <2>1, <1>3, <1>4
  <2>2. CASE i = Len(transfer) + 1
    <3>1. f + i = chunk
      BY <2>2, <1>1
    <3> QED
      BY <2>2, <3>1, <1>4
  <2> QED
    BY <2>1, <2>2, <1>1, <1>4
<1>6. Follows(t, f)
  BY <1>4, <1>5 DEF Follows
<1>7. transfer # <<>> => Follows(transfer, f)
  BY <1>3 DEF Follows
<1> QED
  BY <1>2, <1>4, <1>6, <1>7

LEMMA MoveKeeps == FInv /\ MoveChunk => FInv'
<1> SUFFICES ASSUME FInv, MoveChunk PROVE FInv'
  OBVIOUS
<1>1. /\ Reading /\ log # <<>> /\ chunk <= Chunks /\ chunk' = chunk + 1
      /\ UNCHANGED <<version, log, cut, cuts, before>>
  BY DEF MoveChunk, Chunks, Current
<1>2. /\ Current \in Nat \ {0} /\ Current = Len(log) /\ Current \in DOMAIN log
      /\ Chunks \in Nat \ {0} /\ Chunks = Len(LensOf(Current))
      /\ chunk \in Nat \ {0} /\ Len(transfer) \in Nat /\ Len(transfer) < chunk
  BY <1>1, CurrentInv
<1> PICK t : t = Append(transfer, Piece(Current, chunk))
  OBVIOUS
<1> PICK f \in Nat : f = chunk - 1 - Len(transfer)
  BY <1>1, HeldFollows
<1> PICK k \in Nat : k = Len(transfer)
  BY <1>2
<1> PICK size \in Nat :
        size = SizeOf(log[Current]) /\ 12 <= size /\ size <= 317
  <2>1. SizeOf(log[Current]) \in 12..317
    BY <1>2, SizeFacts DEF FInv, PACKET_SIZE
  <2>2. \A s \in 12..317 : s \in Nat /\ 12 <= s /\ s <= 317
    OBVIOUS
  <2> QED
    BY <2>1, <2>2, Zenon
<1> PICK len \in Nat : len = LensOf(Current)[chunk]
  <2>1. chunk \in 1..Len(LensOf(Current))
    BY <1>1, <1>2
  <2>2. LensOf(Current)[chunk] \in 0..64
    BY <2>1, <1>2, LensFacts DEF FInv
  <2>3. \A i \in 0..64 : i \in Nat
    OBVIOUS
  <2> QED
    BY <2>2, <2>3, Zenon
<1> PICK n : n = bytes + len
  OBVIOUS
<1>3. Follows(t, f) /\ Len(t) = k + 1
  BY <1>1, HeldFollows
<1>4. IF len < Chunk \/ n >= PACKET_SIZE
      THEN Receive(t, n)
      ELSE /\ transfer' = t /\ bytes' = n
           /\ UNCHANGED <<accepted, rejected, call, latest>>
  <2>1. Current = Len(log)
    BY <1>2
  <2> QED
    BY <2>1, Zenon DEF MoveChunk
<1>5. n = 64 * k + len
  BY DEF FInv, Pending, Chunk
<1>6. CASE chunk < Chunks
  <2>1. len = 64 /\ 64 * chunk <= size
    BY <1>2, <1>6, LensFacts DEF FInv
  <2>2. n = bytes + 64
    BY <2>1
  <2>3. chunk <= 4
    <3>1. \A c, s \in Nat : 64 * c <= s /\ s <= 317 => c <= 4
      OBVIOUS
    <3> QED
      BY <3>1, <2>1, <1>2
  <2>4. k < 4
    <3>1. \A c, i \in Nat : i < c /\ c <= 4 => i < 4
      OBVIOUS
    <3> QED
      BY <3>1, <2>3, <1>2
  <2>5. ~(len < Chunk \/ n >= PACKET_SIZE)
    BY <2>1, <2>4, <1>5 DEF Chunk, PACKET_SIZE
  <2>6. /\ transfer' = t /\ bytes' = bytes + Chunk
        /\ UNCHANGED <<accepted, rejected, call, latest>>
    BY <2>2, <2>5, <1>4 DEF Chunk
  <2> QED
    BY <2>6, <1>1, <1>6, MoveStep DEF monitorVars
<1>7. CASE chunk = Chunks
  <2>1. len < 64 /\ 64 * (chunk - 1) + len = size
    BY <1>2, <1>7, LensFacts DEF FInv
  <2>2. Receive(t, n)
    BY <2>1, <1>4 DEF Chunk
  <2>3. Ended
    <3>1. transfer' = <<>> /\ bytes' = 0
      BY <2>2 DEF Receive
    <3>2. chunk' \in 2..(Chunks + 1) /\ ~(chunk' <= Chunks)
      BY <1>1, <1>2, <1>7
    <3>3. cuts' \in 0..MaxCuts
      BY <1>1 DEF FInv, Typed
    <3> QED
      BY <3>1, <3>2, <3>3, <1>1 DEF Ended
  <2>4. f + Len(t) <= Chunks
    BY <1>2, <1>3, <1>7
  <2>5. Current \in cut' \/ (n # 0 /\ Whole(t, n))
    <3>1. CASE f = 0
      <4>1. k = chunk - 1
        BY <3>1, <1>2
      <4>2. n = size /\ n # 0
        <5>1. n = size
          BY <4>1, <2>1, <1>5, Zenon
        <5>2. size # 0
          OBVIOUS
        <5> QED
          BY <5>1, <5>2, Zenon
      <4>3. /\ t[1] = Piece(Current, 1)
            /\ \A i \in DOMAIN t : t[i] = Piece(Current, i)
        <5>1. DOMAIN t = 1..Len(t) /\ 1 \in 1..Len(t)
          BY <1>2, <1>3, LenProperties DEF Follows
        <5>2. \A i \in 1..Len(t) : t[i] = Piece(Current, i)
          BY <3>1, <1>2, <1>3 DEF Follows
        <5> QED
          BY <5>1, <5>2
      <4>4. t[1].chunk = 1 /\ t[1].packet = Current
        <5>1. Piece(Current, 1).chunk = 1 /\ Piece(Current, 1).packet = Current
          BY PieceFields, Zenon
        <5> QED
          BY <5>1, <4>3
      <4> QED
        BY <4>2, <4>3, <4>4, Zenon DEF Whole
    <3>2. CASE f # 0
      <4>1. Len(transfer) + 1 < chunk
        BY <3>2, <1>2
      <4> QED
        BY <4>1, <1>1 DEF FInv, MissingIsCut
    <3> QED
      BY <3>1, <3>2
  <2> QED
    BY <2>2, <2>3, <2>4, <2>5, <1>1, <1>3, ReceiveStep
<1> QED
  BY <1>1, <1>2, <1>6, <1>7

LEMMA CutKeeps == FInv /\ Cut => FInv'
<1> SUFFICES ASSUME FInv, Cut PROVE FInv'
  OBVIOUS
<1>1. /\ Reading /\ transfer # <<>> /\ log # <<>>
      /\ UNCHANGED <<version, log, chunk, before>>
  BY DEF Cut, FInv, Pending
<1>2. /\ Current \in Nat \ {0} /\ Chunks \in Nat \ {0}
      /\ chunk \in Nat \ {0} /\ Len(transfer) \in Nat \ {0}
      /\ Len(transfer) < chunk /\ chunk <= Chunks
      /\ DOMAIN transfer = 1..Len(transfer)
  BY <1>1, CurrentInv, EmptySeq, LenProperties DEF FInv, Pending, Typed
<1> PICK f \in Nat : f = chunk - 1 - Len(transfer)
  BY <1>1, HeldFollows
<1>3. Follows(transfer, f) /\ f + Len(transfer) <= Chunks
  BY <1>1, <1>2, HeldFollows
<1>4. cut' = cut \cup {Current}
  <2>1. \A i \in 1..Len(transfer) : transfer[i].packet = Current
    <3>1. \A i \in 1..Len(transfer) :
              transfer[i] = Piece(Current, chunk - 1 - Len(transfer) + i)
      BY DEF FInv, Pending
    <3>2. \A i : Piece(Current, i).packet = Current
      BY PieceFields, Zenon
    <3> QED
      BY <3>1, <3>2
  <2>2. {p.packet : p \in ToSet(transfer)} = {Current}
    BY <2>1, <1>2 DEF ToSet
  <2> QED
    BY <2>2 DEF Cut
<1>5. Ended
  <2>1. transfer' = <<>> /\ bytes' = 0
    BY DEF Cut, Receive
  <2>2. chunk' \in 2..(Chunks + 1)
    BY <1>1, <1>2
  <2>3. cuts' \in 0..MaxCuts
    BY BoundAssumption DEF Cut, FInv, Typed
  <2> QED
    BY <2>1, <2>2, <2>3, <1>1, <1>4 DEF Ended
<1>6. CASE Receive(transfer, bytes)
  BY <1>1, <1>3, <1>4, <1>5, <1>6, ReceiveStep
<1>7. CASE /\ call' = IF call = "refresh" THEN "refreshed" ELSE "FredUsbError"
           /\ UNCHANGED <<accepted, rejected, latest>>
  BY <1>1, <1>4, <1>5, <1>7, DropStep
<1> QED
  BY <1>6, <1>7 DEF Cut

LEMMA FInvStep == FInv /\ [Next]_vars => FInv'
<1> SUFFICES ASSUME FInv, [Next]_vars PROVE FInv'
  OBVIOUS
<1>1. CASE Call
  BY <1>1, QuietStep DEF Call
<1>2. CASE Return
  BY <1>2, QuietStep DEF Return
<1>3. CASE TimeOut
  BY <1>3, QuietStep DEF TimeOut, Ends
<1>4. CASE UNCHANGED vars
  <2>1. call \in {"none", "refresh", "next_snapshot"} \cup Ends
    BY DEF FInv, Typed
  <2> QED
    BY <1>4, <2>1, QuietStep DEF vars, readVars, monitorVars
<1> QED
  BY <1>1, <1>2, <1>3, <1>4, WriteStep, MoveKeeps, CutKeeps DEF Next

LEMMA FInvImplies == FInv => TypeOK /\ Genuine /\ DamageContained /\ FreshSnapshot
<1> SUFFICES ASSUME FInv
             PROVE  TypeOK /\ Genuine /\ DamageContained /\ FreshSnapshot
  OBVIOUS
<1>1. DamageContained
  BY DEF FInv, DamageContained, RejectedCut, NoneLost
<1>2. \A piece \in rejected :
          /\ piece.packet \in DOMAIN log
          /\ piece.chunk \in DOMAIN LensOf(piece.packet)
  BY DEF FInv, Typed, RejectedCut
<1>3. \A piece \in ToSet(transfer) :
          /\ piece.packet \in DOMAIN log
          /\ piece.chunk \in DOMAIN LensOf(piece.packet)
  <2> SUFFICES ASSUME NEW i \in DOMAIN transfer
               PROVE  /\ transfer[i].packet \in DOMAIN log
                      /\ transfer[i].chunk
                           \in DOMAIN LensOf(transfer[i].packet)
    BY DEF ToSet
  <2>1. /\ i \in 1..Len(transfer) /\ transfer # <<>> /\ log # <<>>
        /\ Len(transfer) \in Nat
    BY LenProperties, EmptySeq DEF FInv, Typed, Pending
  <2>2. transfer[i] = Piece(Current, chunk - 1 - Len(transfer) + i)
    BY <2>1 DEF FInv, Pending
  <2>3. /\ Current \in DOMAIN log /\ DOMAIN LensOf(Current) = 1..Chunks
        /\ Chunks \in Nat /\ chunk \in Nat /\ Len(transfer) < chunk
    BY <2>1, CurrentInv
  <2>4. chunk <= Chunks
    BY <2>1 DEF FInv, Pending
  <2>5. chunk - 1 - Len(transfer) + i \in 1..Chunks
    BY <2>1, <2>3, <2>4
  <2> QED
    BY <2>2, <2>3, <2>5 DEF Piece
<1>4. bytes \in 0..(PACKET_SIZE - 1)
  <2>1. bytes = 64 * Len(transfer)
    BY DEF FInv, Pending, Chunk
  <2>2. CASE transfer = <<>>
    BY <2>1, <2>2, EmptySeq DEF PACKET_SIZE
  <2>3. CASE transfer # <<>>
    <3>1. log # <<>> /\ chunk <= Chunks
      BY <2>3 DEF FInv, Pending
    <3>2. /\ Len(transfer) \in Nat /\ Chunks \in Nat /\ chunk \in Nat
          /\ Len(transfer) < chunk
      BY <3>1, CurrentInv
    <3>3. 64 * Len(transfer) <= SizeOf(log[Current])
      <4>1. /\ Len(transfer) \in 1..Len(LensOf(Current))
            /\ Len(transfer) < Len(LensOf(Current))
        BY <2>3, <3>1, <3>2, EmptySeq DEF FInv, Typed, Chunks
      <4>2. Current \in DOMAIN log
        BY <3>1, CurrentFacts DEF FInv
      <4> QED
        BY <4>1, <4>2, LensFacts DEF FInv
    <3>4. SizeOf(log[Current]) \in 12..317
      BY <3>1, CurrentFacts, SizeFacts DEF FInv, PACKET_SIZE
    <3>5. \A k \in Nat, size \in 12..317 : 64 * k <= size => 64 * k \in 0..316
      OBVIOUS
    <3>6. PACKET_SIZE - 1 = 316
      BY DEF PACKET_SIZE
    <3> QED
      BY <2>1, <3>2, <3>3, <3>4, <3>5, <3>6, Zenon
  <2> QED
    BY <2>2, <2>3
<1>5. TypeOK
  BY <1>2, <1>3, <1>4 DEF FInv, Typed, TypeOK
<1> QED
  BY <1>1, <1>5 DEF FInv

-----------------------------------------------------------------------------
(* What the link is to the programs: PacketFraming implements PacketLink.   *)

Failed == {piece.packet : piece \in rejected}
Seen(packet) == [seq |-> packet.seq, packet |-> Meaning(packet)]

LEMMA GotFacts ==
    ASSUME FInv
    PROVE  /\ Len(accepted) \in Nat /\ DOMAIN accepted = 1..Len(accepted)
           /\ Got \in Seq({Seen(accepted[i]) : i \in DOMAIN accepted})
           /\ Len(Got) = Len(accepted) /\ DOMAIN Got = 1..Len(accepted)
           /\ \A i \in 1..Len(accepted) :
                  Got[i] = Seen(accepted[i]) /\ Got[i].seq = accepted[i].seq
<1>1. Len(accepted) \in Nat /\ DOMAIN accepted = 1..Len(accepted)
  BY LenProperties DEF FInv, Typed
<1>2. Got = [i \in 1..Len(accepted) |-> Seen(accepted[i])]
  BY <1>1, Zenon DEF Got, Seen
<1>3. Got \in [1..Len(accepted) -> {Seen(accepted[i]) : i \in DOMAIN accepted}]
  BY <1>1, <1>2
<1>4. Got \in Seq({Seen(accepted[i]) : i \in DOMAIN accepted})
  BY <1>1, <1>3, SeqDef
<1>5. Len(Got) = Len(accepted) /\ DOMAIN Got = 1..Len(accepted)
  <2>1. DOMAIN Got = 1..Len(accepted)
    BY <1>2
  <2> QED
    BY <1>1, <1>4, <2>1, LenProperties
<1>6. \A i \in 1..Len(accepted) : Got[i] = Seen(accepted[i])
  BY <1>2
<1>7. \A packet : Seen(packet).seq = packet.seq
  BY DEF Seen
<1> QED
  BY <1>1, <1>4, <1>5, <1>6, <1>7

\* The packet that is returned is the last one of what was returned.
LEMMA GotGrows ==
    ASSUME FInv, NEW packet \in Received, accepted' = Append(accepted, packet)
    PROVE  Got' = Append(Got, Seen(packet))
<1>1. accepted \in Seq(Received) /\ Len(accepted) \in Nat
  BY LenProperties DEF FInv, Typed
<1>2. /\ Len(accepted') = Len(accepted) + 1
      /\ DOMAIN accepted' = 1..(Len(accepted) + 1)
      /\ \A i \in 1..Len(accepted) : accepted'[i] = accepted[i]
      /\ accepted'[Len(accepted) + 1] = packet
  BY <1>1, AppendProperties, LenProperties
<1> DEFINE S == {Seen(r) : r \in Received}
<1>3. /\ Got \in Seq(S) /\ Seen(packet) \in S /\ Len(Got) = Len(accepted)
      /\ \A i \in 1..Len(accepted) : Got[i] = Seen(accepted[i])
  <2>1. \A i \in 1..Len(accepted) : accepted[i] \in Received
    BY <1>1, ElementOfSeq
  <2>2. DOMAIN accepted = 1..Len(accepted)
    BY GotFacts
  <2>3. Got \in [1..Len(accepted) -> S]
    BY <2>1, <2>2, Zenon DEF Got, Seen
  <2>4. Got \in Seq(S)
    BY <1>1, <2>3, SeqDef
  <2> QED
    BY <2>4, GotFacts
<1> HIDE DEF S
<1> PICK g : g = Append(Got, Seen(packet))
  OBVIOUS
<1>4. /\ g \in Seq(S) /\ Len(g) = Len(accepted) + 1
      /\ \A i \in 1..Len(accepted) : g[i] = Seen(accepted[i])
      /\ g[Len(accepted) + 1] = Seen(packet)
  BY <1>3, AppendProperties
<1>5. g = [i \in 1..(Len(accepted) + 1) |-> g[i]]
  <2>1. DOMAIN g = 1..(Len(accepted) + 1) /\ g \in [1..Len(g) -> S]
    BY <1>4, LenProperties
  <2> QED
    BY <1>4, <2>1
<1>6. Got' = [i \in 1..(Len(accepted) + 1) |-> Seen(accepted'[i])]
  BY <1>2, Zenon DEF Got, Seen
<1>7. \A i \in 1..(Len(accepted) + 1) : g[i] = Seen(accepted'[i])
  <2> SUFFICES ASSUME NEW i \in 1..(Len(accepted) + 1)
               PROVE  g[i] = Seen(accepted'[i])
    OBVIOUS
  <2>1. CASE i = Len(accepted) + 1
    BY <1>2, <1>4, <2>1, Zenon
  <2>2. CASE i # Len(accepted) + 1
    <3>1. i \in 1..Len(accepted)
      BY <1>1, <2>2
    <3> QED
      BY <1>2, <1>4, <3>1, Zenon
  <2> QED
    BY <2>1, <2>2
<1> QED
  BY <1>5, <1>6, <1>7

LEMMA Unchanged ==
    ASSUME UNCHANGED <<log, accepted, rejected, cut>>
    PROVE  UNCHANGED Link!vars
<1>1. Got' = Got
  BY DEF Got
<1> QED
  BY <1>1 DEF Link!vars

\* A read that ends gives nothing, or a packet, or an error.
LEMMA ReceiveSeen ==
    ASSUME FInv, FInv', log # <<>>, log' = log, NEW f \in Nat, NEW t,
           Follows(t, f), NEW n, Receive(t, n)
    PROVE  \/ UNCHANGED <<accepted, rejected>>
           \/ Link!Return
           \/ Link!Fail
<1>1. Current = Len(log) /\ Current \in DOMAIN log
  BY CurrentInv
<1>2. CASE /\ rejected' = rejected \cup ToSet(t)
           /\ UNCHANGED accepted
  <2>1. /\ DOMAIN t = 1..Len(t) /\ Len(t) \in Nat \ {0} /\ 1 \in DOMAIN t
        /\ \A i \in DOMAIN t : t[i].packet = Current
    <3>1. DOMAIN t = 1..Len(t) /\ Len(t) \in Nat \ {0}
      BY EmptySeq, LenProperties DEF Follows
    <3>2. \A i : Piece(Current, i).packet = Current
      BY PieceFields, Zenon
    <3> QED
      BY <3>1, <3>2 DEF Follows
  <2>2. t[1] \in ToSet(t) /\ \A piece \in ToSet(t) : piece.packet = Current
    BY <2>1 DEF ToSet
  <2>3. Failed' = Failed \cup {Current}
    BY <1>2, <2>2 DEF Failed
  <2>4. Current \in cut'
    <3>1. t[1] \in rejected' /\ t[1].packet = Current
      BY <1>2, <2>2
    <3> QED
      BY <3>1 DEF FInv, RejectedCut
  <2>5. Got' = Got
    BY <1>2 DEF Got
  <2> QED
    BY <1>1, <2>3, <2>4, <2>5 DEF Link!Fail, Link!Last, Failed
<1>3. ASSUME UNCHANGED rejected, NEW packet \in Received,
             packet.seq = Current, Meaning(packet) = log[Current],
             accepted' = Append(accepted, packet)
      PROVE  Link!Return
  <2>1. Got' = Append(Got, [seq |-> Current, packet |-> log[Current]])
    <3>1. Seen(packet) = [seq |-> Current, packet |-> log[Current]]
      BY <1>3 DEF Seen
    <3> QED
      BY <1>3, <3>1, GotGrows
  <2>2. \A i \in 1..Len(accepted) : accepted[i].seq # Current
    <3>1. accepted \in Seq(Received) /\ Len(accepted) \in Nat
      BY LenProperties DEF FInv, Typed
    <3>2. /\ DOMAIN accepted' = 1..(Len(accepted) + 1)
          /\ \A i \in 1..Len(accepted) : accepted'[i] = accepted[i]
          /\ accepted'[Len(accepted) + 1] = packet
      BY <1>3, <3>1, AppendProperties, LenProperties
    <3>3. \A i \in 1..Len(accepted) :
              accepted'[i].seq < accepted'[Len(accepted) + 1].seq
      BY <3>1, <3>2 DEF FInv, Genuine
    <3>4. \A i \in 1..Len(accepted) : accepted[i].seq < Current
      BY <1>3, <3>2, <3>3
    <3>5. Current \in Nat
      BY CurrentInv
    <3>6. ~(Current < Current)
      BY <3>5
    <3> QED
      BY <3>4, <3>6, Zenon
  <2>3. ~Link!Returned(Current)
    BY <2>2, GotFacts DEF Link!Returned
  <2>4. Failed' = Failed
    BY <1>3 DEF Failed
  <2> QED
    BY <1>1, <2>1, <2>3, <2>4 DEF Link!Return, Link!Last, Failed
<1> QED
  BY <1>2, <1>3, ReceiveOutcome

LEMMA WriteSeen ==
    ASSUME FInv, WritePacket PROVE Link!Send
<1>1. /\ log = <<>> \/ chunk > Len(LensOf(Len(log)))
      /\ \E kind \in Kinds : log' = Append(log, kind)
      /\ UNCHANGED <<accepted, rejected, cut>>
  BY DEF WritePacket, Sendable
<1>2. ASSUME log # <<>>
      PROVE  Link!Returned(Len(log)) \/ Len(log) \in cut
  <2>1. Current = Len(log) /\ Current \in DOMAIN log
    BY <1>2, CurrentInv
  <2>2. Complete(Len(log))
    BY <1>1, <1>2, <2>1 DEF Complete
  <2>3. CASE \E i \in DOMAIN accepted : accepted[i].seq = Len(log)
    BY <2>3, GotFacts DEF Link!Returned
  <2> QED
    BY <2>1, <2>2, <2>3 DEF FInv, NoneLost
<1>3. Got' = Got /\ Failed' = Failed
  BY <1>1 DEF Got, Failed
<1> QED
  BY <1>1, <1>2, <1>3 DEF Link!Send, Link!Last, Failed

LEMMA MoveSeen ==
    ASSUME FInv, FInv', MoveChunk
    PROVE  Link!Read \/ UNCHANGED Link!vars
<1>1. log # <<>> /\ UNCHANGED <<log, cut>>
  BY DEF MoveChunk
<1>2. PICK f \in Nat : Follows(Append(transfer, Piece(Current, chunk)), f)
  BY <1>1, HeldFollows
<1>3. Current = Len(log)
  BY <1>1, CurrentInv
<1>4. CASE UNCHANGED <<accepted, rejected>>
  BY <1>1, <1>4, Unchanged
<1>5. CASE \E n : Receive(Append(transfer, Piece(Current, chunk)), n)
  BY <1>1, <1>2, <1>4, <1>5, ReceiveSeen DEF Link!Read
<1> QED
  BY <1>3, <1>4, <1>5, Zenon DEF MoveChunk

LEMMA CutSeen ==
    ASSUME FInv, FInv', Cut PROVE Link!GiveUp
<1>1. transfer # <<>> /\ log # <<>> /\ log' = log
  BY DEF Cut, FInv, Pending
<1>2. PICK f \in Nat : Follows(transfer, f)
  BY <1>1, HeldFollows
<1>3. cut' = cut \cup {Len(log)}
  <2>1. /\ DOMAIN transfer = 1..Len(transfer) /\ 1 \in DOMAIN transfer
        /\ \A i \in DOMAIN transfer : transfer[i].packet = Current
    <3>1. DOMAIN transfer = 1..Len(transfer) /\ Len(transfer) \in Nat \ {0}
      BY <1>1, EmptySeq, LenProperties DEF FInv, Typed
    <3>2. \A i : Piece(Current, i).packet = Current
      BY PieceFields, Zenon
    <3> QED
      BY <1>2, <3>1, <3>2 DEF Follows
  <2>2. {p.packet : p \in ToSet(transfer)} = {Current}
    BY <2>1 DEF ToSet
  <2> QED
    BY <1>1, <2>2, CurrentInv DEF Cut
<1>4. CASE UNCHANGED <<accepted, rejected>>
  <2>1. Got' = Got /\ Failed' = Failed
    BY <1>4 DEF Got, Failed
  <2> QED
    BY <1>1, <1>3, <2>1 DEF Link!GiveUp, Link!Nothing, Link!Last, Failed
<1>5. CASE Receive(transfer, bytes)
  <2>1. UNCHANGED <<accepted, rejected>> \/ Link!Return \/ Link!Fail
    BY <1>1, <1>2, <1>5, ReceiveSeen
  <2> QED
    BY <1>1, <1>3, <1>4, <2>1 DEF Link!GiveUp, Link!Last
<1> QED
  BY <1>4, <1>5 DEF Cut

LEMMA StepSeen ==
    FInv /\ FInv' /\ [Next]_vars => [Link!Next]_(Link!vars)
<1> SUFFICES ASSUME FInv, FInv', [Next]_vars
             PROVE  Link!Next \/ UNCHANGED Link!vars
  OBVIOUS
<1>1. CASE Call \/ TimeOut \/ Return \/ UNCHANGED vars
  BY <1>1, Unchanged DEF Call, TimeOut, Return, vars
<1>2. CASE WritePacket
  BY <1>2, WriteSeen DEF Link!Next
<1>3. CASE MoveChunk
  BY <1>3, MoveSeen DEF Link!Next
<1>4. CASE Cut
  BY <1>4, CutSeen DEF Link!Next
<1> QED
  BY <1>1, <1>2, <1>3, <1>4 DEF Next

-----------------------------------------------------------------------------
\* Every variable of the packet link keeps its type: what the reader returns
\* is a packet the programs can use, and what it holds is of a packet the
\* device wrote.
THEOREM FramingTypes == Spec => []TypeOK
  BY FInvInit, FInvStep, FInvImplies, PTL DEF Spec

\* The reader returns what the device wrote, in order and once, for any number
\* of packets, of reads given up and of sizes (transport.rs lines 103-149).
THEOREM PacketsGenuine == Spec => []Genuine
  BY FInvInit, FInvStep, FInvImplies, PTL DEF Spec

\* A read given up in mid-packet costs that packet and no other.
THEOREM OneCutOnePacket == Spec => []DamageContained
  BY FInvInit, FInvStep, FInvImplies, PTL DEF Spec

\* next_snapshot returns a snapshot read during the call (monitor.rs lines
\* 121-128).
THEOREM SnapshotsFresh == Spec => []FreshSnapshot
  BY FInvInit, FInvStep, FInvImplies, PTL DEF Spec

\* To the programs the link is PacketLink: one packet at a time, returned or
\* lost before the next is sent, however it is cut in chunks and whatever a
\* tail looks like (transport.rs lines 103-149).
THEOREM LinkImplemented == Spec => ImplementsLink
<1>1. Init => Link!Init
  BY DEF Init, Link!Init, Got
<1> QED
  BY <1>1, FInvInit, FInvStep, StepSeen, PTL
    DEF Spec, ImplementsLink, Link!Spec

=============================================================================
