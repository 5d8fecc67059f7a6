-------------------------- MODULE FeedbackTheorems --------------------------
(***************************************************************************)
(* Machine-checked proofs about FeedbackPath, for every bound on cycles,    *)
(* faults and restarts: how responses are paired with commands, what the    *)
(* decoder makes of a cadence, and the text the ROM makes of it.            *)
(***************************************************************************)
EXTENDS FeedbackPath, FiniteSetTheorems, TLAPS

-----------------------------------------------------------------------------
(* The pairing of commands and responses.                                   *)

\* What the proof needs of the types.
PathTypes ==
    /\ DOMAIN stored = Commands
    /\ rom \in {"write", "read"}
    /\ L0080 \in 0..9
    /\ lost \in Nat

\* A command left pending between transactions lost its response; one pending
\* in a later transaction lost that transaction's command too.
PendingLost ==
    /\ rom = "write" /\ pending_cmd # NoResponse => lost >= 1
    /\ rom = "read" /\ pending_cmd \notin {NoResponse, Command} => lost >= 2

MisfiledInv == PathTypes /\ PendingLost /\ MisfiledNeedsTwoLosses

-----------------------------------------------------------------------------
LEMMA CadenceCommands ==
    /\ LastEntry = 9
    /\ \A i \in 0..9 : Cadence[i + 1] \in Commands
  BY DEF LastEntry, Cadence, Commands, SignCommands

LEMMA MisfiledInit == Init => MisfiledInv
<1> SUFFICES ASSUME Init PROVE MisfiledInv
  OBVIOUS
<1>1. PathTypes
  BY CadenceCommands DEF Init, DecoderInit, RomInit, PathTypes
<1>2. PendingLost
  BY DEF Init, DecoderInit, PendingLost
<1>3. MisfiledNeedsTwoLosses
  BY DEF Init, DecoderInit, MisfiledNeedsTwoLosses
<1> QED
  BY <1>1, <1>2, <1>3 DEF MisfiledInv

LEMMA SendKeeps == MisfiledInv /\ SendCommand => MisfiledInv'
<1> SUFFICES ASSUME MisfiledInv, SendCommand PROVE MisfiledInv'
  OBVIOUS
<1>1. /\ rom = "write" /\ rom' = "read" /\ L0080' = L0080
      /\ Command' = Command
  BY DEF SendCommand, WriteCommand, Command
<1>2. CASE IngestCommand(Command) /\ UNCHANGED <<lost, clean>>
  BY <1>1, <1>2 DEF IngestCommand, MisfiledInv, PathTypes, PendingLost,
     MisfiledNeedsTwoLosses
<1>3. CASE Lose
  BY <1>1, <1>3 DEF Lose, decoderVars, MisfiledInv, PathTypes, PendingLost,
     MisfiledNeedsTwoLosses
<1> QED
  BY <1>2, <1>3 DEF SendCommand

LEMMA RespondKeeps == MisfiledInv /\ Respond => MisfiledInv'
<1> SUFFICES ASSUME MisfiledInv, NEW bcd \in BOOLEAN, ReadResponse(bcd),
                    \/ /\ IngestResponse(Answer(Command, bcd))
                       /\ UNCHANGED lost
                    \/ Lose
             PROVE  MisfiledInv'
  BY DEF Respond
<1>1. /\ rom = "read" /\ rom' = "write" /\ L0080' \in 0..9
      /\ Command \in Commands
  BY CadenceCommands DEF ReadResponse, NextEntry, MisfiledInv, PathTypes, Command
<1>2. CASE Lose
  BY <1>1, <1>2 DEF Lose, decoderVars, MisfiledInv, PathTypes, PendingLost,
     MisfiledNeedsTwoLosses
<1>3. CASE IngestResponse(Answer(Command, bcd)) /\ UNCHANGED lost
  <2> DEFINE a == Answer(Command, bcd)
  <2>1. a.cmd = Command
    BY DEF Answer
  <2>2. pending_cmd' = NoResponse
    BY <1>3 DEF IngestResponse
  <2>3. PathTypes' /\ PendingLost'
    <3>1. DOMAIN stored' = DOMAIN stored
      BY <1>3 DEF IngestResponse, ApplyResponse
    <3>2. PathTypes'
      BY <1>1, <1>3, <3>1 DEF MisfiledInv, PathTypes
    <3>3. PendingLost'
      BY <1>1, <2>2 DEF PendingLost
    <3> QED
      BY <3>2, <3>3
  <2>4. \A c \in Commands :
            stored'[c] = stored[c] \/ (c = pending_cmd /\ stored'[c] = a)
    BY <1>3 DEF IngestResponse, ApplyResponse, MisfiledInv, PathTypes
  <2>5. MisfiledNeedsTwoLosses'
    <3> SUFFICES ASSUME NEW c \in Commands, stored'[c] # NoResponse,
                        stored'[c].cmd # c
                 PROVE  lost >= 2
      BY <1>3 DEF MisfiledNeedsTwoLosses
    <3>1. CASE stored'[c] = stored[c]
      BY <3>1 DEF MisfiledInv, MisfiledNeedsTwoLosses
    <3>2. CASE c = pending_cmd /\ stored'[c] = a
      BY <1>1, <2>1, <3>2, NoResponseAssumption
         DEF MisfiledInv, PendingLost
    <3> QED
      BY <2>4, <3>1, <3>2
  <2> QED
    BY <2>3, <2>5 DEF MisfiledInv
<1> QED
  BY <1>2, <1>3

LEMMA OthersKeep ==
    MisfiledInv /\ (PollStatus \/ Restart \/ UNCHANGED vars) => MisfiledInv'
<1> USE DEF MisfiledInv, PathTypes, PendingLost, MisfiledNeedsTwoLosses
<1>1. MisfiledInv /\ PollStatus => MisfiledInv'
  BY DEF PollStatus, IngestOther, romVars, pathVars, Command
<1>2. MisfiledInv /\ Restart => MisfiledInv'
  BY DEF Restart, Plonkon, decoderVars, pathVars
<1>3. MisfiledInv /\ UNCHANGED vars => MisfiledInv'
  BY DEF vars, decoderVars, romVars, pathVars, Command
<1> QED
  BY <1>1, <1>2, <1>3

\* Whatever is lost, garbled or restarted, a response is filed under another
\* command only after two losses (FeedbackDecoder takes the pending command
\* with every response it reads).
THEOREM OneLossNeverMisfiles == Spec => []MisfiledNeedsTwoLosses
<1>1. MisfiledInv /\ [Next]_vars => MisfiledInv'
  BY SendKeeps, RespondKeeps, OthersKeep DEF Next
<1>2. MisfiledInv => MisfiledNeedsTwoLosses
  BY DEF MisfiledInv
<1> QED
  BY MisfiledInit, <1>1, <1>2, PTL DEF Spec

-----------------------------------------------------------------------------
(* The cadence.                                                             *)

LEMMA CadenceEntries ==
    /\ Len(Cadence) = 10 /\ LastEntry = 9
    /\ Cadence[1] = 3 /\ Cadence[2] = 2 /\ Cadence[3] = 1 /\ Cadence[4] = 0
    /\ Cadence[5] = 7 /\ Cadence[6] = 6 /\ Cadence[7] = 5 /\ Cadence[8] = 4
    /\ Cadence[9] = 13 /\ Cadence[10] = 12
  BY DEF Cadence, LastEntry

\* Every command has one place in it.
LEMMA CadencePlaces ==
    /\ \A c \in Commands : \E i \in 0..9 : c = Cadence[i + 1]
    /\ \A i, j \in 0..9 : Cadence[i + 1] = Cadence[j + 1] => i = j
    /\ {Cadence[i] : i \in 1..Len(Cadence)} = Commands
<1>1. \A i \in 0..9 : i \in {0, 1, 2, 3, 4, 5, 6, 7, 8, 9}
  OBVIOUS
<1>2. \A i, j \in 0..9 : Cadence[i + 1] = Cadence[j + 1] => i = j
  <2> SUFFICES ASSUME NEW i \in 0..9, NEW j \in 0..9,
                      Cadence[i + 1] = Cadence[j + 1]
               PROVE  i = j
    OBVIOUS
  <2> HIDE DEF Cadence
  <2> QED
    BY <1>1, CadenceEntries
<1>3. \A c \in Commands : \E i \in 0..9 : c = Cadence[i + 1]
  <2> SUFFICES ASSUME NEW c \in Commands
               PROVE  \E i \in 0..9 : c = Cadence[i + 1]
    OBVIOUS
  <2>1. CASE c \in {3, 2, 1, 0, 7}
    BY <2>1, CadenceEntries
  <2>2. CASE c \in {6, 5, 4, 13, 12}
    BY <2>2, CadenceEntries
  <2> QED
    BY <2>1, <2>2 DEF Commands, SignCommands
<1>4. {Cadence[i] : i \in 1..Len(Cadence)} = Commands
  <2>1. \A i \in 1..10 : i - 1 \in 0..9 /\ Cadence[(i - 1) + 1] = Cadence[i]
    OBVIOUS
  <2>2. \A i \in 0..9 : i + 1 \in 1..10
    OBVIOUS
  <2> QED
    BY <1>3, <2>1, <2>2, CadenceCommands, CadenceEntries
<1> QED
  BY <1>2, <1>3, <1>4

-----------------------------------------------------------------------------
(* Types.                                                                   *)

\* How far a text runs that a restart left room for, in mid-cadence.
IndexWithin(index, entry) == index <= 64 + 2 * entry /\ index <= 80

IndexBound ==
    /\ IndexWithin(event_feedback_index, L0080)
    /\ rom = "read" /\ L0080 = 9 => event_feedback_index = 0

PathTypeOK == TypeOK /\ event_feedback_index \in Nat /\ IndexBound

LEMMA TypesInit == Init => PathTypeOK
<1> SUFFICES ASSUME Init PROVE PathTypeOK
  OBVIOUS
<1>1. /\ pending_cmd \in Commands \cup {NoResponse}
      /\ stored \in [Commands -> Responses \cup {NoResponse}]
      /\ current_snapshot \in [Commands -> Responses] \cup {NoResponse}
      /\ delivered \in 0..SnapshotSamples
  BY DEF Init, DecoderInit, SnapshotSamples
<1>2. /\ rom \in {"write", "read"} /\ L0080 \in 0..LastEntry
      /\ DOMAIN event_feedback_buf = 0..(BufLen - 1)
  BY DEF Init, RomInit
<1>3. event_feedback_index \in 0..BufLen /\ IndexBound
  BY CadenceEntries, BoundAssumption
  DEF Init, RomInit, BufLen, IndexBound, IndexWithin
<1>4. answered \in [Commands -> Responses]
  <2>1. \A c \in Commands : Answer(c, TRUE) \in Responses
    BY BoundAssumption DEF Answer, Responses, Init, RomInit
  <2> QED
    BY <2>1, CadencePlaces DEF Init, RomInit
<1>5. /\ cycle \in 0..MaxCycles
      /\ lost \in 0..MaxFaults /\ garbled \in 0..MaxFaults
      /\ restarts \in 0..MaxRestarts /\ clean \in 0..Len(Cadence)
  BY BoundAssumption, CadenceEntries DEF Init, RomInit
<1> QED
  BY <1>1, <1>2, <1>3, <1>4, <1>5 DEF PathTypeOK, TypeOK, BufLen

\* What a sample does to the decoder's types.
DecoderTypes ==
    /\ pending_cmd \in Commands \cup {NoResponse}
    /\ stored \in [Commands -> Responses \cup {NoResponse}]
    /\ current_snapshot \in [Commands -> Responses] \cup {NoResponse}
    /\ delivered \in 0..SnapshotSamples

LEMMA CountStep ==
    ASSUME delivered \in 0..SnapshotSamples, Count
    PROVE  delivered' \in 0..SnapshotSamples
  BY DEF Count, SnapshotSamples

LEMMA ResponseTypes ==
    ASSUME DecoderTypes, NEW a \in Responses, IngestResponse(a)
    PROVE  DecoderTypes'
<1>1. delivered' \in 0..SnapshotSamples /\ pending_cmd' = NoResponse
  BY CountStep DEF IngestResponse, DecoderTypes
<1>2. CASE pending_cmd = NoResponse
  BY <1>1, <1>2 DEF IngestResponse, DecoderTypes
<1>3. CASE pending_cmd # NoResponse
  <2>1. stored' \in [Commands -> Responses \cup {NoResponse}]
    BY <1>3 DEF IngestResponse, ApplyResponse, DecoderTypes
  <2>2. Complete(stored') => stored' \in [Commands -> Responses]
    BY <2>1 DEF Complete
  <2>3. \/ current_snapshot' = stored' /\ Complete(stored')
        \/ current_snapshot' = current_snapshot
    BY <1>3 DEF IngestResponse
  <2> QED
    BY <1>1, <2>1, <2>2, <2>3 DEF DecoderTypes
<1> QED
  BY <1>2, <1>3

LEMMA IndexSteps ==
    ASSUME NEW index \in Nat, NEW entry \in 0..9, IndexWithin(index, entry)
    PROVE  /\ IndexWithin(0, entry)
           /\ IndexWithin(0, 0)
           /\ index + 16 <= BufLen => IndexWithin(index, 0)
           /\ IndexWithin(index, entry + 1)
           /\ entry < 8 => IndexWithin(index + 2, entry + 1)
           /\ index \in 0..BufLen
  BY DEF IndexWithin, BufLen

LEMMA CountsTyped ==
    ASSUME TypeOK
    PROVE  /\ lost \in 0..MaxFaults /\ garbled \in 0..MaxFaults
           /\ clean \in 0..10 /\ Len(Cadence) = 10
  BY CadenceEntries DEF TypeOK

LEMMA FaultStep ==
    ASSUME lost \in 0..MaxFaults, garbled \in 0..MaxFaults, MoreFaults
    PROVE  lost + 1 \in 0..MaxFaults /\ garbled + 1 \in 0..MaxFaults
  BY BoundAssumption DEF MoreFaults

LEMMA SendTypes == PathTypeOK /\ SendCommand => PathTypeOK'
<1> SUFFICES ASSUME PathTypeOK, SendCommand PROVE PathTypeOK'
  OBVIOUS
<1>1. /\ rom' = "read" /\ L0080' = L0080
      /\ event_feedback_index' = IF L0080 = LastEntry THEN 0
                                 ELSE event_feedback_index
      /\ UNCHANGED <<event_feedback_buf, restarts, answered, garbled>>
      /\ cycle' = cycle \/ (cycle < MaxCycles /\ cycle' = cycle + 1)
  BY DEF SendCommand, WriteCommand
<1>2. Command \in Commands
  BY CadenceCommands DEF Command, PathTypeOK, TypeOK
<1>3. DecoderTypes'
  BY <1>2, CountStep
  DEF SendCommand, IngestCommand, Lose, decoderVars, PathTypeOK, TypeOK,
      DecoderTypes
<1>4. lost' \in 0..MaxFaults /\ clean' \in 0..Len(Cadence)
  <2>1. /\ clean' \in {0, clean}
        /\ lost' = lost \/ (MoreFaults /\ lost' = lost + 1)
    BY DEF SendCommand, Lose
  <2>2. lost' \in 0..MaxFaults /\ clean' \in 0..10
    BY <2>1, CountsTyped, FaultStep DEF PathTypeOK
  <2> QED
    BY <2>2, CadenceEntries
<1>5. cycle' \in 0..MaxCycles
  BY <1>1, BoundAssumption DEF PathTypeOK, TypeOK
<1>6. /\ event_feedback_index' \in Nat /\ IndexBound'
      /\ event_feedback_index' \in 0..BufLen
  <2>1. /\ event_feedback_index \in Nat
        /\ L0080 \in 0..9 /\ IndexBound /\ BufLen \in Nat
        /\ event_feedback_index \in 0..BufLen
    BY CadenceEntries, BoundAssumption DEF PathTypeOK, TypeOK, BufLen
  <2>2. event_feedback_index' \in Nat /\ event_feedback_index' \in 0..BufLen
    BY <1>1, <2>1
  <2> QED
    BY <1>1, <2>1, <2>2, CadenceEntries, IndexSteps DEF IndexBound
<1> QED
  BY <1>1, <1>3, <1>4, <1>5, <1>6
  DEF PathTypeOK, TypeOK, DecoderTypes, BufLen

LEMMA RespondTypes == PathTypeOK /\ Respond => PathTypeOK'
<1> SUFFICES ASSUME PathTypeOK, NEW bcd \in BOOLEAN, ReadResponse(bcd),
                    \/ /\ bcd \/ MoreFaults
                       /\ IngestResponse(Answer(Command, bcd))
                       /\ garbled' = IF bcd THEN garbled ELSE garbled + 1
                       /\ clean' = IF ~bcd \/ pending_cmd # Command THEN 0
                                   ELSE IF clean < Len(Cadence) THEN clean + 1
                                   ELSE clean
                       /\ UNCHANGED lost
                    \/ bcd /\ Lose /\ UNCHANGED garbled
             PROVE  PathTypeOK'
  BY DEF Respond
<1>1. Command \in Commands /\ Answer(Command, bcd) \in Responses
  BY CadenceCommands DEF Command, Answer, Responses, PathTypeOK, TypeOK
<1>2. DecoderTypes'
  <2>1. DecoderTypes
    BY DEF PathTypeOK, TypeOK, DecoderTypes
  <2> QED
    BY <1>1, <2>1, ResponseTypes DEF Lose, decoderVars, DecoderTypes
<1>3. /\ lost' \in 0..MaxFaults /\ garbled' \in 0..MaxFaults
      /\ clean' \in 0..Len(Cadence)
  <2>1. lost' = lost \/ (MoreFaults /\ lost' = lost + 1)
    BY DEF Lose
  <2>2. garbled' = garbled \/ (MoreFaults /\ garbled' = garbled + 1)
    OBVIOUS
  <2>3. clean' \in {0, clean} \/ (clean < 10 /\ clean' = clean + 1)
    BY CadenceEntries DEF Lose
  <2>4. /\ lost \in 0..MaxFaults /\ garbled \in 0..MaxFaults
        /\ clean \in 0..10
    BY CountsTyped DEF PathTypeOK
  <2>5. lost' \in 0..MaxFaults /\ garbled' \in 0..MaxFaults
    BY <2>1, <2>2, <2>4, FaultStep
  <2>6. clean' \in 0..10
    BY <2>3, <2>4
  <2> QED
    BY <2>5, <2>6, CadenceEntries
<1>4. /\ rom' = "write" /\ L0080' \in 0..LastEntry
      /\ UNCHANGED <<cycle, restarts>>
      /\ answered' \in [Commands -> Responses]
      /\ DOMAIN event_feedback_buf' = DOMAIN event_feedback_buf
  <2>1. rom' = "write" /\ UNCHANGED <<cycle, restarts>>
    BY DEF ReadResponse
  <2>2. L0080' \in 0..LastEntry
    <3>1. L0080 \in 0..9
      BY CadenceEntries DEF PathTypeOK, TypeOK
    <3>2. L0080' = IF L0080 = 9 THEN 0 ELSE L0080 + 1
      BY CadenceEntries DEF ReadResponse, NextEntry
    <3> QED
      BY <3>1, <3>2, CadenceEntries
  <2>3. answered' = [answered EXCEPT ![Command] = Answer(Command, bcd)]
    BY DEF ReadResponse
  <2>4. answered \in [Commands -> Responses]
    BY DEF PathTypeOK, TypeOK
  <2>5. answered' \in [Commands -> Responses]
    BY <1>1, <2>3, <2>4, Zenon
  <2>6. DOMAIN event_feedback_buf' = DOMAIN event_feedback_buf
    BY DEF ReadResponse
  <2> QED
    BY <2>1, <2>2, <2>5, <2>6
<1>5. event_feedback_index' \in Nat /\ IndexBound'
  <2>1. /\ event_feedback_index \in Nat
        /\ L0080 \in 0..9 /\ IndexBound /\ rom = "read"
    BY CadenceEntries DEF PathTypeOK, TypeOK, ReadResponse
  <2>2. L0080 \in 0..7 \/ L0080 = 8 \/ L0080 = 9
    BY <2>1
  <2>3. CASE L0080 \in 0..7
    <3>1. /\ event_feedback_index' \in {event_feedback_index,
                                        event_feedback_index + 2}
          /\ L0080' = L0080 + 1
      BY <2>3, CadenceEntries DEF ReadResponse, NextEntry
    <3>2. IndexWithin(event_feedback_index', L0080')
      BY <2>1, <2>3, <3>1, IndexSteps DEF IndexBound
    <3>3. rom' = "write"
      BY <1>4
    <3>4. event_feedback_index' \in Nat
      BY <2>1, <3>1
    <3> QED
      BY <3>2, <3>3, <3>4, Zenon DEF IndexBound
  <2>4. CASE L0080 = 8 \/ L0080 = 9
    <3>1. ~StoresText(Command)
      BY <2>4, CadenceEntries DEF StoresText, Command
    <3>2. /\ event_feedback_index' = event_feedback_index
          /\ IF L0080 = 9 THEN L0080' = 0 ELSE L0080' = L0080 + 1
      BY <2>4, <3>1, CadenceEntries DEF ReadResponse, NextEntry
    <3>3. L0080 = 9 => event_feedback_index = 0
      BY <2>1 DEF IndexBound
    <3>4. IndexWithin(event_feedback_index, L0080')
      BY <2>1, <2>4, <3>2, <3>3, IndexSteps DEF IndexBound
    <3>5. rom' = "write"
      BY <1>4
    <3> QED
      BY <2>1, <3>2, <3>4, <3>5, Zenon DEF IndexBound
  <2> QED
    BY <2>2, <2>3, <2>4
<1>6. event_feedback_index' \in 0..BufLen
  <2>1. L0080' \in 0..9
    BY <1>4, CadenceEntries
  <2> QED
    BY <1>5, <2>1, IndexSteps DEF IndexBound
<1> QED
  BY <1>2, <1>3, <1>4, <1>5, <1>6
  DEF PathTypeOK, TypeOK, DecoderTypes, BufLen

LEMMA RestTypes ==
    PathTypeOK /\ (PollStatus \/ Restart \/ UNCHANGED vars) => PathTypeOK'
<1> USE DEF PathTypeOK, TypeOK, IndexBound, BufLen
<1>1. PathTypeOK /\ PollStatus => PathTypeOK'
  BY CountStep DEF PollStatus, IngestOther, romVars, pathVars
<1>2. PathTypeOK /\ Restart => PathTypeOK'
  <2> SUFFICES ASSUME PathTypeOK, Restart PROVE PathTypeOK'
    OBVIOUS
  <2>1. /\ event_feedback_index \in Nat /\ restarts \in Nat
        /\ L0080 \in 0..9 /\ IndexBound /\ restarts < MaxRestarts
        /\ event_feedback_index + 16 <= BufLen
        /\ restarts' = restarts + 1 /\ L0080' = 0 /\ rom' = "write"
        /\ event_feedback_index' = event_feedback_index
    BY BoundAssumption, CadenceEntries DEF Restart, Plonkon
  <2>2. restarts' \in 0..MaxRestarts
    BY <2>1, BoundAssumption
  <2>3. IndexWithin(event_feedback_index, 0)
    BY <2>1, IndexSteps
  <2>4. IndexBound'
    BY <2>1, <2>3, Zenon
  <2>5. L0080' \in 0..LastEntry
    BY <2>1, CadenceEntries
  <2> QED
    BY <2>2, <2>4, <2>5 DEF Restart, Plonkon, decoderVars, pathVars
<1>3. PathTypeOK /\ UNCHANGED vars => PathTypeOK'
  BY DEF vars, decoderVars, romVars, pathVars
<1> QED
  BY <1>1, <1>2, <1>3

LEMMA TypesStep == PathTypeOK /\ [Next]_vars => PathTypeOK'
  BY SendTypes, RespondTypes, RestTypes DEF Next

\* The decoder and the ROM keep their types; above all the index of the ROM's
\* text, which a restart does not reset, stays within sixteen places a restart.
THEOREM FeedbackTypes == Spec => []TypeOK
<1>1. PathTypeOK => TypeOK
  BY DEF PathTypeOK
<1> QED
  BY <1>1, TypesInit, TypesStep, PTL DEF Spec

-----------------------------------------------------------------------------
(* A cadence decoded whole.                                                 *)

\* The transactions decoded since the last fault have left their answers.
CleanTail ==
    \A i \in 0..9 :
        i < L0080 /\ L0080 <= i + clean =>
            stored[Cadence[i + 1]] = answered[Cadence[i + 1]]

\* A cadence is closed by its last answer only: until then that answer is of
\* an earlier one.  Of cadence 0 the decoder has not seen the first answer.
OpenCadence ==
    /\ answered[12].cycle <= cycle
    /\ cycle > 0 /\ (rom = "read" \/ L0080 # 0) => answered[12].cycle < cycle
    /\ cycle = 0 =>
           /\ clean <= 9
           /\ L0080 # 0 => clean < L0080
           /\ rom = "read" /\ L0080 = 0 => clean = 0 /\ pending_cmd = NoResponse

CadenceInv == PathTypeOK /\ CleanTail /\ OpenCadence /\ SnapshotExact

\* What the types say of the state the cadence is in.
LEMMA CadenceTyped ==
    ASSUME PathTypeOK
    PROVE  /\ L0080 \in 0..9 /\ clean \in 0..10 /\ cycle \in Nat
           /\ rom \in {"write", "read"}
           /\ answered[12] \in Responses /\ answered[12].cycle \in Nat
           /\ Command \in Commands
<1>1. 12 \in Commands
  BY DEF Commands, SignCommands
<1>2. answered[12] \in Responses
  BY <1>1 DEF PathTypeOK, TypeOK
<1>3. answered[12].cycle \in Nat
  BY <1>2, BoundAssumption DEF Responses
<1>4. L0080 \in 0..9 /\ Command \in Commands
  BY CadenceCommands DEF PathTypeOK, TypeOK, Command
<1> QED
  BY <1>2, <1>3, <1>4, CadenceEntries, BoundAssumption DEF PathTypeOK, TypeOK

LEMMA CadenceInit == Init => CadenceInv
<1> SUFFICES ASSUME Init PROVE CadenceInv
  OBVIOUS
<1>1. PathTypeOK
  BY TypesInit
<1>2. clean = 0 /\ cycle = 0 /\ pending_cmd = NoResponse
  BY DEF Init, RomInit, DecoderInit
<1>3. L0080 \in 0..9
  BY <1>1, CadenceTyped
<1>4. CleanTail
  BY <1>2, <1>3 DEF CleanTail
<1>5. answered[12].cycle = 0
  <2>1. 12 \in Commands
    BY DEF Commands, SignCommands
  <2>2. answered[12] = Answer(12, TRUE)
    BY <2>1, CadencePlaces DEF Init, RomInit
  <2> QED
    BY <1>2, <2>2 DEF Answer
<1>6. OpenCadence
  BY <1>2, <1>3, <1>5 DEF OpenCadence
<1>7. SnapshotExact
  BY <1>2, CadenceEntries DEF SnapshotExact, CycleClean
<1> QED
  BY <1>1, <1>4, <1>6, <1>7 DEF CadenceInv

LEMMA SendCadence == CadenceInv /\ SendCommand => CadenceInv'
<1> SUFFICES ASSUME CadenceInv, SendCommand PROVE CadenceInv'
  OBVIOUS
<1>1. PathTypeOK /\ PathTypeOK'
  BY SendTypes DEF CadenceInv
<1>2. /\ rom = "write" /\ rom' = "read"
      /\ UNCHANGED <<L0080, answered, stored, current_snapshot>>
      /\ IF L0080 = 0 THEN cycle' = cycle + 1 ELSE cycle' = cycle
      /\ clean' \in {0, clean}
  BY DEF SendCommand, WriteCommand, IngestCommand, Lose, decoderVars
<1>3. /\ L0080 \in 0..9 /\ clean \in 0..10 /\ cycle \in Nat
      /\ answered[12].cycle \in Nat
  BY <1>1, CadenceTyped
<1>4. CleanTail'
  <2> SUFFICES ASSUME NEW i \in 0..9, i < L0080, L0080 <= i + clean'
               PROVE  stored[Cadence[i + 1]] = answered[Cadence[i + 1]]
    BY <1>2 DEF CleanTail
  <2>1. L0080 \in 0..9 /\ clean' = clean
    BY <1>2, <1>3
  <2> QED
    BY <2>1 DEF CadenceInv, CleanTail
<1>5. OpenCadence'
  BY <1>2, <1>3 DEF CadenceInv, OpenCadence
<1>6. SnapshotExact'
  BY <1>2 DEF SnapshotExact, CycleClean, CycleEnded
<1> QED
  BY <1>1, <1>4, <1>5, <1>6 DEF CadenceInv

\* Entries and counts of transactions: a clean one more, an entry further.
LEMMA TailArithmetic ==
    \A i, entry \in 0..9, n, m \in 0..10 :
        /\ m <= n + 1 /\ entry < i + m => entry <= i + n
        /\ i < entry + 1 /\ entry + 1 <= i + m =>
               m # 0 /\ i <= entry /\ entry < i + m
  OBVIOUS

LEMMA RespondCadence == CadenceInv /\ Respond => CadenceInv'
<1> SUFFICES ASSUME CadenceInv, Respond PROVE CadenceInv'
  OBVIOUS
<1>1. PathTypeOK /\ PathTypeOK'
  BY RespondTypes DEF CadenceInv
<1>2. PICK bcd \in BOOLEAN :
          /\ ReadResponse(bcd)
          /\ \/ /\ IngestResponse(Answer(Command, bcd))
                /\ clean' = IF ~bcd \/ pending_cmd # Command THEN 0
                            ELSE IF clean < Len(Cadence) THEN clean + 1
                            ELSE clean
             \/ Lose
  BY DEF Respond
<1> DEFINE a == Answer(Command, bcd)
<1>3. /\ L0080 \in 0..9 /\ clean \in 0..10 /\ cycle \in Nat
      /\ answered[12].cycle \in Nat /\ Command \in Commands
  BY <1>1, CadenceTyped
<1>4. /\ rom = "read" /\ rom' = "write" /\ cycle' = cycle
      /\ IF L0080 = 9 THEN L0080' = 0 ELSE L0080' = L0080 + 1
  BY <1>2, CadenceEntries DEF ReadResponse, NextEntry
<1>5. /\ DOMAIN answered = Commands /\ DOMAIN stored = Commands
      /\ answered' = [answered EXCEPT ![Command] = a]
  BY <1>1, <1>2 DEF ReadResponse, PathTypeOK, TypeOK
<1>6. \/ clean' = 0
      \/ /\ pending_cmd = Command /\ bcd
         /\ clean' = IF clean < 10 THEN clean + 1 ELSE 10
         /\ stored' = [stored EXCEPT ![Command] = a]
         /\ current_snapshot' =
                IF Command = SnapshotCommand /\ Complete(stored')
                THEN stored' ELSE current_snapshot
  <2>1. CASE Lose
    BY <2>1 DEF Lose
  <2>2. CASE ~Lose /\ (~bcd \/ pending_cmd # Command)
    BY <1>2, <2>2
  <2>3. CASE ~Lose /\ bcd /\ pending_cmd = Command
    <3>1. a.bcd
      BY <2>3 DEF Answer
    <3>2. pending_cmd # NoResponse
      BY <1>3, <2>3, NoResponseAssumption
    <3>3. clean' = IF clean < 10 THEN clean + 1 ELSE 10
      <4>1. clean' = IF clean < 10 THEN clean + 1 ELSE clean
        BY <1>2, <2>3, CadenceEntries
      <4>2. clean \in 0..10
        BY <1>3
      <4> QED
        BY <4>1, <4>2
    <3> QED
      BY <1>2, <2>3, <3>1, <3>2, <3>3 DEF IngestResponse, ApplyResponse
  <2> QED
    BY <2>1, <2>2, <2>3
<1>7. clean' \in 0..10 /\ clean' <= clean + 1
  BY <1>3, <1>6
<1>8. \A i \in 0..9 : clean' # 0 /\ i <= L0080 /\ L0080 < i + clean' =>
          stored'[Cadence[i + 1]] = answered'[Cadence[i + 1]]
  <2> SUFFICES ASSUME NEW i \in 0..9, clean' # 0, i <= L0080,
                      L0080 < i + clean'
               PROVE  stored'[Cadence[i + 1]] = answered'[Cadence[i + 1]]
    OBVIOUS
  <2>1. Cadence[i + 1] \in Commands
    BY CadenceCommands
  <2>2. CASE i = L0080
    BY <1>5, <1>6, <2>1, <2>2 DEF Command
  <2>3. CASE i < L0080
    <3>1. Cadence[i + 1] # Command
      <4>1. L0080 \in 0..9 /\ i # L0080
        BY <1>3, <2>3
      <4> QED
        BY <4>1, CadencePlaces DEF Command
    <3>2. L0080 <= i + clean
      <4>1. L0080 \in 0..9 /\ clean \in 0..10
        BY <1>3
      <4> QED
        BY <1>7, <4>1, TailArithmetic, Zenon
    <3>3. stored[Cadence[i + 1]] = answered[Cadence[i + 1]]
      BY <2>3, <3>2 DEF CadenceInv, CleanTail
    <3> QED
      BY <1>5, <1>6, <2>1, <3>1, <3>3
  <2> QED
    BY <1>3, <2>2, <2>3
<1>9. CleanTail'
  <2> SUFFICES ASSUME NEW i \in 0..9, i < L0080', L0080' <= i + clean'
               PROVE  stored'[Cadence[i + 1]] = answered'[Cadence[i + 1]]
    BY DEF CleanTail
  <2>1. L0080 \in 0..9 /\ clean' \in 0..10
    BY <1>3, <1>7
  <2>2. L0080' = L0080 + 1
    BY <1>4
  <2>3. clean' # 0 /\ i <= L0080 /\ L0080 < i + clean'
    BY <2>1, <2>2, TailArithmetic, Zenon
  <2> QED
    BY <1>8, <2>3
<1>10. OpenCadence'
  <2>1. CASE L0080 = 9
    <3>1. answered'[12].cycle = cycle
      BY <1>3, <1>5, <2>1, CadenceEntries DEF Answer, Command
    <3>2. cycle = 0 => clean' <= 9
      BY <1>3, <1>7, <2>1 DEF CadenceInv, OpenCadence
    <3> QED
      BY <1>3, <1>4, <2>1, <3>1, <3>2 DEF OpenCadence
  <2>2. CASE L0080 # 9
    <3>1. Command # 12
      BY <1>3, <2>2, CadencePlaces, CadenceEntries DEF Command
    <3>2. answered'[12] = answered[12]
      BY <1>5, <3>1
    <3>3. cycle = 0 => clean' <= 9 /\ clean' < L0080 + 1
      <4>1. CASE L0080 = 0
        BY <1>3, <1>4, <1>6, <4>1, NoResponseAssumption
        DEF CadenceInv, OpenCadence
      <4>2. CASE L0080 # 0
        BY <1>3, <1>7, <2>2, <4>2 DEF CadenceInv, OpenCadence
      <4> QED
        BY <4>1, <4>2
    <3> QED
      BY <1>3, <1>4, <2>2, <3>2, <3>3 DEF CadenceInv, OpenCadence
  <2> QED
    BY <2>1, <2>2
<1>11. SnapshotExact'
  <2> SUFFICES ASSUME L0080' = 0, clean' = 10
               PROVE  current_snapshot' = answered'
    BY CadenceEntries DEF SnapshotExact, CycleClean, CycleEnded
  <2>1. L0080 = 9
    BY <1>3, <1>4
  <2>2. \A c \in Commands : stored'[c] = answered'[c]
    <3> SUFFICES ASSUME NEW c \in Commands PROVE stored'[c] = answered'[c]
      OBVIOUS
    <3>1. PICK i \in 0..9 : c = Cadence[i + 1]
      BY CadencePlaces
    <3>2. clean' # 0 /\ i <= L0080 /\ L0080 < i + clean'
      BY <2>1
    <3> QED
      BY <1>8, <3>1, <3>2
  <2>3. answered' \in [Commands -> Responses] /\ DOMAIN stored' = Commands
    BY <1>1 DEF PathTypeOK, TypeOK
  <2>4. stored' = answered'
    <3>1. stored' \in [Commands -> Responses \cup {NoResponse}]
      BY <1>1 DEF PathTypeOK, TypeOK
    <3> QED
      BY <2>2, <2>3, <3>1
  <2>5. Complete(stored')
    BY <2>3, <2>4, ResponseAssumption DEF Complete
  <2>6. Command = SnapshotCommand
    BY <2>1, CadenceEntries DEF Command, SnapshotCommand
  <2> QED
    BY <1>6, <2>4, <2>5, <2>6
<1> QED
  BY <1>1, <1>9, <1>10, <1>11 DEF CadenceInv

LEMMA RestCadence ==
    CadenceInv /\ (PollStatus \/ Restart \/ UNCHANGED vars) => CadenceInv'
<1> SUFFICES ASSUME CadenceInv, PollStatus \/ Restart \/ UNCHANGED vars
             PROVE  CadenceInv'
  OBVIOUS
<1>1. PathTypeOK /\ PathTypeOK'
  BY RestTypes DEF CadenceInv
<1>2. /\ L0080 \in 0..9 /\ clean \in 0..10 /\ cycle \in Nat
      /\ answered[12].cycle \in Nat
  BY <1>1, CadenceTyped
<1>3. CASE PollStatus \/ UNCHANGED vars
  <2>1. UNCHANGED <<pending_cmd, stored, current_snapshot, rom, L0080, cycle,
                    answered, clean>>
    BY <1>3 DEF PollStatus, IngestOther, romVars, pathVars, vars, decoderVars
  <2> QED
    BY <1>1, <2>1
    DEF CadenceInv, CleanTail, OpenCadence, SnapshotExact, CycleClean,
        CycleEnded
<1>4. CASE Restart
  <2>1. /\ UNCHANGED <<pending_cmd, stored, current_snapshot, cycle, answered,
                       clean>>
        /\ rom = "write" /\ rom' = "write" /\ L0080' = 0
    BY <1>4 DEF Restart, Plonkon, decoderVars, pathVars
  <2>2. CleanTail'
    BY <2>1 DEF CleanTail
  <2>3. OpenCadence'
    BY <1>2, <2>1 DEF CadenceInv, OpenCadence
  <2>4. CycleClean' => CycleClean
    BY <1>2, <2>1, CadenceEntries
    DEF CycleClean, CycleEnded, CadenceInv, OpenCadence
  <2> QED
    BY <1>1, <2>1, <2>2, <2>3, <2>4 DEF CadenceInv, SnapshotExact
<1> QED
  BY <1>3, <1>4

LEMMA CadenceStep == CadenceInv /\ [Next]_vars => CadenceInv'
  BY SendCadence, RespondCadence, RestCadence DEF Next

\* The end of a cadence decoded whole leaves a snapshot of its ten answers and
\* of nothing older, whatever was lost or restarted before (trace_decode.rs
\* lines 134-147).
THEOREM CleanCadenceExact == Spec => []SnapshotExact
<1>1. CadenceInv => SnapshotExact
  BY DEF CadenceInv
<1> QED
  BY <1>1, CadenceInit, CadenceStep, PTL DEF Spec

-----------------------------------------------------------------------------
(* The ROM's text, as long as its engine is not restarted.                  *)

\* Two places of text for each of the first eight entries of the cadence.
EntryText(answers, entry, n) ==
    Text(Cadence[entry + 1], answers[Cadence[entry + 1]])[n + 1]

TextKept ==
    restarts = 0 =>
        /\ event_feedback_index = IF L0080 = 9 /\ rom = "read" THEN 0
                                  ELSE IF L0080 < 8 THEN 2 * L0080 ELSE 16
        /\ \A entry \in 0..7, n \in 0..1 :
               event_feedback_buf[2 * entry + n]
                   = EntryText(answered, entry, n)

TextInv == CadenceInv /\ TextKept

LEMMA Places ==
    /\ \A i \in 0..15 : i \div 2 \in 0..7 /\ i % 2 \in 0..1
                        /\ i = 2 * (i \div 2) + (i % 2)
    /\ \A entry \in 0..7, n \in 0..1 :
           /\ 2 * entry + n \in 0..15
           /\ (2 * entry + n) \div 2 = entry /\ (2 * entry + n) % 2 = n
  OBVIOUS

LEMMA TextOfEntries ==
    ASSUME NEW answers
    PROVE  /\ \A i \in 0..15 :
                  TextOf(answers)[i] = EntryText(answers, i \div 2, i % 2)
           /\ \A entry \in 0..7, n \in 0..1 :
                  TextOf(answers)[2 * entry + n] = EntryText(answers, entry, n)
<1>1. \A i \in 0..15 :
          TextOf(answers)[i] = EntryText(answers, i \div 2, i % 2)
  BY DEF TextOf, EntryText
<1> QED
  BY <1>1, Places

LEMMA TextInit == Init => TextInv
<1> SUFFICES ASSUME Init PROVE TextInv
  OBVIOUS
<1>1. BufLen \in Nat /\ BufLen >= 16
  BY DEF BufLen
<1>2. \A i \in 0..15 : event_feedback_buf[i] = TextOf(answered)[i]
  BY <1>1 DEF Init, RomInit
<1>3. TextKept
  <2>1. event_feedback_index = IF L0080 = 9 /\ rom = "read" THEN 0
                               ELSE IF L0080 < 8 THEN 2 * L0080 ELSE 16
    BY CadenceEntries DEF Init, RomInit
  <2> QED
    BY <1>2, <2>1, Places, TextOfEntries DEF TextKept
<1> QED
  BY <1>3, CadenceInit DEF TextInv

LEMMA RespondText ==
    ASSUME TextInv, Respond, restarts = 0
    PROVE  TextKept'
<1>1. PICK bcd \in BOOLEAN : ReadResponse(bcd)
  BY DEF Respond
<1> DEFINE a == Answer(Command, bcd)
<1>2. /\ L0080 \in 0..9 /\ Command \in Commands
      /\ Command = Cadence[L0080 + 1]
  BY CadenceTyped DEF TextInv, CadenceInv, Command
<1>3. /\ DOMAIN answered = Commands
      /\ answered' = [answered EXCEPT ![Command] = a]
      /\ rom = "read" /\ rom' = "write" /\ restarts' = 0
      /\ IF L0080 = 9 THEN L0080' = 0 ELSE L0080' = L0080 + 1
  BY <1>1, CadenceEntries
  DEF ReadResponse, NextEntry, TextInv, CadenceInv, PathTypeOK, TypeOK
<1>4. \A entry \in 0..7, n \in 0..1 : entry # L0080 =>
          EntryText(answered', entry, n) = EntryText(answered, entry, n)
  <2> SUFFICES ASSUME NEW entry \in 0..7, NEW n \in 0..1, entry # L0080
               PROVE  EntryText(answered', entry, n)
                          = EntryText(answered, entry, n)
    OBVIOUS
  <2>1. entry \in 0..9
    OBVIOUS
  <2>2. Cadence[entry + 1] # Command /\ Cadence[entry + 1] \in Commands
    BY <1>2, <2>1, CadencePlaces, CadenceCommands
  <2>3. answered'[Cadence[entry + 1]] = answered[Cadence[entry + 1]]
    BY <1>3, <2>2
  <2> QED
    BY <2>3 DEF EntryText
<1>5. CASE L0080 \in 0..7
  <2>1. StoresText(Command)
    <3>1. /\ Command # Cadence[9] /\ Command # Cadence[10]
      <4>1. 8 \in 0..9 /\ 9 \in 0..9 /\ L0080 # 8 /\ L0080 # 9
        BY <1>5
      <4>2. Cadence[L0080 + 1] # Cadence[8 + 1]
        BY <1>2, <4>1, CadencePlaces
      <4>3. Cadence[L0080 + 1] # Cadence[9 + 1]
        BY <1>2, <4>1, CadencePlaces
      <4>4. 8 + 1 = 9 /\ 9 + 1 = 10
        OBVIOUS
      <4> QED
        BY <1>2, <4>2, <4>3, <4>4
    <3> QED
      BY <3>1, CadenceEntries DEF StoresText
  <2>2. event_feedback_index = 2 * L0080
    BY <1>5 DEF TextInv, TextKept
  <2>3. /\ event_feedback_buf' =
               [event_feedback_buf EXCEPT
                    ![2 * L0080] = Text(Command, a)[1],
                    ![2 * L0080 + 1] = Text(Command, a)[2]]
        /\ event_feedback_index' = 2 * L0080 + 2
    BY <1>1, <2>1, <2>2 DEF ReadResponse
  <2>4. 0..15 \subseteq DOMAIN event_feedback_buf
    <3>1. DOMAIN event_feedback_buf = 0..(BufLen - 1)
      BY DEF TextInv, CadenceInv, PathTypeOK, TypeOK
    <3>2. BufLen \in Nat /\ BufLen >= 16
      BY DEF BufLen
    <3> QED
      BY <3>1, <3>2
  <2>5. ASSUME NEW entry \in 0..7, NEW n \in 0..1
        PROVE  event_feedback_buf'[2 * entry + n]
                   = EntryText(answered', entry, n)
    <3>1. CASE entry = L0080
      <4>1. /\ 2 * L0080 \in DOMAIN event_feedback_buf
            /\ 2 * L0080 + 1 \in DOMAIN event_feedback_buf
            /\ 2 * L0080 + 1 # 2 * L0080
        BY <1>5, <2>4
      <4>2. /\ event_feedback_buf'[2 * L0080] = Text(Command, a)[1]
            /\ event_feedback_buf'[2 * L0080 + 1] = Text(Command, a)[2]
        BY <2>3, <4>1
      <4>3. EntryText(answered', L0080, n) = Text(Command, a)[n + 1]
        BY <1>2, <1>3 DEF EntryText
      <4>4. n = 0 \/ n = 1
        OBVIOUS
      <4> QED
        BY <1>5, <3>1, <4>2, <4>3, <4>4
    <3>2. CASE entry # L0080
      <4>1. /\ 2 * entry + n \in DOMAIN event_feedback_buf
            /\ 2 * entry + n # 2 * L0080
            /\ 2 * entry + n # 2 * L0080 + 1
        BY <1>5, <2>4, <3>2, Places
      <4>2. event_feedback_buf'[2 * entry + n]
                = event_feedback_buf[2 * entry + n]
        BY <2>3, <4>1
      <4>3. event_feedback_buf[2 * entry + n] = EntryText(answered, entry, n)
        BY DEF TextInv, TextKept
      <4> QED
        BY <1>4, <3>2, <4>2, <4>3
    <3> QED
      BY <3>1, <3>2
  <2>6. event_feedback_index'
            = IF L0080' = 9 /\ rom' = "read" THEN 0
              ELSE IF L0080' < 8 THEN 2 * L0080' ELSE 16
    BY <1>3, <1>5, <2>3
  <2> QED
    BY <2>5, <2>6 DEF TextKept
<1>6. CASE L0080 = 8 \/ L0080 = 9
  <2>1. ~StoresText(Command)
    BY <1>2, <1>6, CadenceEntries DEF StoresText
  <2>2. UNCHANGED <<event_feedback_buf, event_feedback_index>>
    BY <1>1, <2>1 DEF ReadResponse
  <2>3. event_feedback_index'
            = IF L0080' = 9 /\ rom' = "read" THEN 0
              ELSE IF L0080' < 8 THEN 2 * L0080' ELSE 16
    BY <1>3, <1>6, <2>2 DEF TextInv, TextKept
  <2>4. \A entry \in 0..7 : entry # L0080
    BY <1>6
  <2> QED
    BY <1>4, <2>2, <2>3, <2>4 DEF TextInv, TextKept
<1> QED
  BY <1>2, <1>5, <1>6

LEMMA TextStep == TextInv /\ [Next]_vars => TextInv'
<1> SUFFICES ASSUME TextInv, [Next]_vars PROVE TextInv'
  OBVIOUS
<1>1. CadenceInv'
  BY CadenceStep DEF TextInv
<1>2. SUFFICES ASSUME restarts' = 0 PROVE TextKept'
  BY <1>1 DEF TextInv, TextKept
<1>3. CASE SendCommand
  <2>1. /\ UNCHANGED <<L0080, event_feedback_buf, answered, restarts>>
        /\ rom' = "read"
        /\ event_feedback_index' = IF L0080 = 9 THEN 0 ELSE event_feedback_index
    BY <1>3, CadenceEntries DEF SendCommand, WriteCommand
  <2> QED
    BY <1>2, <2>1, CadenceTyped DEF TextInv, CadenceInv, TextKept
<1>4. CASE Respond
  <2>1. restarts = 0
    BY <1>2, <1>4 DEF Respond, ReadResponse
  <2> QED
    BY <1>4, <2>1, RespondText
<1>5. CASE Restart
  <2>1. restarts' = restarts + 1 /\ restarts \in Nat
    BY <1>5, BoundAssumption
    DEF Restart, Plonkon, TextInv, CadenceInv, PathTypeOK, TypeOK
  <2> QED
    BY <1>2, <2>1
<1>6. CASE PollStatus \/ UNCHANGED vars
  BY <1>2, <1>6
  DEF PollStatus, romVars, vars, TextInv, TextKept
<1> QED
  BY <1>3, <1>4, <1>5, <1>6 DEF Next

\* The two decoders of the repository read the lathe alike: without a restart
\* the ROM's text and the snapshot agree at the end of a cadence decoded whole
\* (tcl202.asm lines 2553-2679, trace_decode.rs lines 115-194).
THEOREM DecodersAgree == Spec => []TextAgrees
<1>1. TextInv => TextAgrees
  <2> SUFFICES ASSUME TextInv, CycleClean, restarts = 0, NEW i \in 0..15
               PROVE  event_feedback_buf[i] = TextOf(current_snapshot)[i]
    BY DEF TextAgrees
  <2>1. current_snapshot = answered
    BY DEF TextInv, CadenceInv, SnapshotExact
  <2>2. event_feedback_buf[2 * (i \div 2) + (i % 2)]
            = EntryText(answered, i \div 2, i % 2)
    BY Places DEF TextInv, TextKept
  <2> QED
    BY <2>1, <2>2, Places, TextOfEntries
<1> QED
  BY <1>1, TextInit, TextStep, PTL DEF Spec

-----------------------------------------------------------------------------
(* What a snapshot costs.                                                   *)

\* The commands with a response kept.
Kept == {c \in Commands : stored[c] # NoResponse}

\* Each response kept has cost two samples, and a command pending one.
Paid ==
    \/ delivered = SnapshotSamples
    \/ delivered >= 2 * Cardinality(Kept)
                        + (IF pending_cmd = NoResponse THEN 0 ELSE 1)

CostInv == PathTypeOK /\ Paid /\ SnapshotNeedsCadence

LEMMA CommandsCounted == IsFiniteSet(Commands) /\ Cardinality(Commands) = 10
<1> DEFINE Set(n) == {Cadence[i + 1] : i \in 0..(n - 1)}
<1>1. IsFiniteSet(Set(0)) /\ Cardinality(Set(0)) = 0
  <2>1. Set(0) = {}
    OBVIOUS
  <2> QED
    BY <2>1, FS_EmptySet
<1>2. ASSUME NEW n \in 0..9, IsFiniteSet(Set(n)), Cardinality(Set(n)) = n
      PROVE  IsFiniteSet(Set(n + 1)) /\ Cardinality(Set(n + 1)) = n + 1
  <2>1. Set(n + 1) = Set(n) \cup {Cadence[n + 1]}
    <3>1. 0..((n + 1) - 1) = (0..(n - 1)) \cup {n}
      OBVIOUS
    <3> QED
      BY <3>1
  <2>2. Cadence[n + 1] \notin Set(n)
    <3>1. \A i \in 0..(n - 1) : i \in 0..9 /\ i # n
      OBVIOUS
    <3> QED
      BY <3>1, CadencePlaces
  <2> HIDE DEF Set
  <2> QED
    BY <1>2, <2>1, <2>2, FS_AddElement
<1>3. Set(10) = Commands
  <2>1. 0..(10 - 1) = 0..9
    OBVIOUS
  <2>2. Set(10) = {Cadence[i + 1] : i \in 0..9}
    BY <2>1
  <2>3. \A c \in Commands : c \in Set(10)
    BY <2>2, CadencePlaces
  <2>4. \A c \in Set(10) : c \in Commands
    BY <2>2, CadenceCommands
  <2> QED
    BY <2>3, <2>4
<1> HIDE DEF Set
<1>4. IsFiniteSet(Set(5)) /\ Cardinality(Set(5)) = 5
  <2>1. IsFiniteSet(Set(1)) /\ Cardinality(Set(1)) = 1
    BY <1>1, <1>2
  <2>2. IsFiniteSet(Set(2)) /\ Cardinality(Set(2)) = 2
    BY <1>2, <2>1
  <2>3. IsFiniteSet(Set(3)) /\ Cardinality(Set(3)) = 3
    BY <1>2, <2>2
  <2>4. IsFiniteSet(Set(4)) /\ Cardinality(Set(4)) = 4
    BY <1>2, <2>3
  <2> QED
    BY <1>2, <2>4
<1>5. IsFiniteSet(Set(10)) /\ Cardinality(Set(10)) = 10
  <2>1. IsFiniteSet(Set(6)) /\ Cardinality(Set(6)) = 6
    BY <1>2, <1>4
  <2>2. IsFiniteSet(Set(7)) /\ Cardinality(Set(7)) = 7
    BY <1>2, <2>1
  <2>3. IsFiniteSet(Set(8)) /\ Cardinality(Set(8)) = 8
    BY <1>2, <2>2
  <2>4. IsFiniteSet(Set(9)) /\ Cardinality(Set(9)) = 9
    BY <1>2, <2>3
  <2> QED
    BY <1>2, <2>4
<1> QED
  BY <1>3, <1>5

LEMMA KeptCounted ==
    IsFiniteSet(Kept) /\ Cardinality(Kept) \in Nat
  BY CommandsCounted, FS_Subset, FS_CardinalityType DEF Kept

\* A sample that leaves what is kept alone.
LEMMA SampleStep ==
    ASSUME CostInv, stored' = stored, current_snapshot' = current_snapshot,
           \/ Count
           \/ delivered' = delivered /\ pending_cmd' = pending_cmd,
           pending_cmd' = pending_cmd \/ Count
    PROVE  Paid' /\ SnapshotNeedsCadence'
<1>1. Kept' = Kept
  BY DEF Kept
<1>2. Cardinality(Kept) \in Nat /\ delivered \in 0..20
      /\ SnapshotSamples = 20
  BY KeptCounted DEF CostInv, PathTypeOK, TypeOK, SnapshotSamples
<1>3. CASE Count
  <2>1. \/ delivered = 20 /\ delivered' = 20
        \/ delivered < 20 /\ delivered' = delivered + 1
    BY <1>2, <1>3 DEF Count
  <2>2. Paid'
    BY <1>1, <1>2, <2>1 DEF CostInv, Paid
  <2>3. SnapshotNeedsCadence'
    BY <1>2, <2>1 DEF CostInv, SnapshotNeedsCadence
  <2> QED
    BY <2>2, <2>3
<1>4. CASE delivered' = delivered /\ pending_cmd' = pending_cmd
  BY <1>1, <1>4 DEF CostInv, Paid, SnapshotNeedsCadence, SnapshotSamples
<1> QED
  BY <1>3, <1>4

LEMMA ResponseCost ==
    ASSUME CostInv, NEW a \in Responses, IngestResponse(a)
    PROVE  Paid' /\ SnapshotNeedsCadence'
<1>1. Cardinality(Kept) \in Nat /\ delivered \in 0..20
      /\ SnapshotSamples = 20 /\ IsFiniteSet(Kept)
  BY KeptCounted DEF CostInv, PathTypeOK, TypeOK, SnapshotSamples
<1>2. \/ delivered = 20 /\ delivered' = 20
      \/ delivered < 20 /\ delivered' = delivered + 1
  BY <1>1 DEF IngestResponse, Count
<1>3. pending_cmd' = NoResponse
  BY DEF IngestResponse
<1>4. CASE pending_cmd = NoResponse
  BY <1>4, SampleStep DEF IngestResponse
<1>5. CASE pending_cmd # NoResponse
  <2>1. Kept' \in {Kept, Kept \cup {pending_cmd}}
    BY <1>5, ResponseAssumption
    DEF IngestResponse, ApplyResponse, Kept, CostInv, PathTypeOK, TypeOK
  <2>2. /\ Cardinality(Kept') <= Cardinality(Kept) + 1
        /\ Cardinality(Kept') \in Nat
    <3>1. CASE Kept' = Kept
      BY <1>1, <3>1
    <3>2. CASE Kept' = Kept \cup {pending_cmd}
      <4>1. Cardinality(Kept \cup {pending_cmd})
                \in {Cardinality(Kept), Cardinality(Kept) + 1}
        <5>1. Cardinality(Kept \cup {pending_cmd})
                  = IF pending_cmd \in Kept THEN Cardinality(Kept)
                    ELSE Cardinality(Kept) + 1
          BY <1>1, FS_AddElement, Zenon
        <5> QED
          BY <5>1
      <4> QED
        BY <1>1, <3>2, <4>1
    <3> QED
      BY <2>1, <3>1, <3>2
  <2>3. Paid'
    BY <1>1, <1>2, <1>3, <1>5, <2>2 DEF CostInv, Paid
  <2>4. Complete(stored') => delivered' = 20
    <3>1. Complete(stored') => Kept' = Commands
      BY DEF Complete, Kept
    <3> QED
      BY <1>1, <1>2, <1>3, <2>3, <3>1, CommandsCounted DEF Paid
  <2>5. SnapshotNeedsCadence'
    BY <1>1, <1>2, <1>5, <2>4
    DEF IngestResponse, CostInv, SnapshotNeedsCadence
  <2> QED
    BY <2>3, <2>5
<1> QED
  BY <1>4, <1>5

LEMMA CostInit == Init => CostInv
<1> SUFFICES ASSUME Init PROVE CostInv
  OBVIOUS
<1>1. Kept = {}
  BY DEF Init, DecoderInit, Kept
<1>2. Paid
  BY <1>1, FS_EmptySet DEF Init, DecoderInit, Paid
<1>3. SnapshotNeedsCadence
  BY DEF Init, DecoderInit, SnapshotNeedsCadence
<1> QED
  BY <1>2, <1>3, TypesInit DEF CostInv

LEMMA CostStep == CostInv /\ [Next]_vars => CostInv'
<1> SUFFICES ASSUME CostInv, [Next]_vars PROVE CostInv'
  OBVIOUS
<1>1. PathTypeOK'
  BY TypesStep DEF CostInv
<1>2. Command \in Commands
  BY CadenceTyped DEF CostInv
<1>3. CASE SendCommand
  BY <1>1, <1>3, SampleStep
  DEF SendCommand, IngestCommand, Lose, decoderVars, CostInv
<1>4. CASE Respond
  <2>1. PICK bcd \in BOOLEAN : IngestResponse(Answer(Command, bcd)) \/ Lose
    BY <1>4 DEF Respond
  <2>2. Answer(Command, bcd) \in Responses
    BY <1>2 DEF Answer, Responses, CostInv, PathTypeOK, TypeOK
  <2>3. CASE IngestResponse(Answer(Command, bcd))
    BY <1>1, <2>2, <2>3, ResponseCost DEF CostInv
  <2>4. CASE Lose
    BY <1>1, <2>4, SampleStep DEF Lose, decoderVars, CostInv
  <2> QED
    BY <2>1, <2>3, <2>4
<1>5. CASE PollStatus
  BY <1>1, <1>5, SampleStep DEF PollStatus, IngestOther, CostInv
<1>6. CASE Restart \/ UNCHANGED vars
  BY <1>1, <1>6, SampleStep DEF Restart, vars, decoderVars, CostInv
<1> QED
  BY <1>3, <1>4, <1>5, <1>6 DEF Next

\* No snapshot comes of less than twenty samples, whatever is lost, misfiled
\* or taken anew (trace_decode.rs lines 134-194): what the capture path takes
\* from the decoder.
THEOREM SnapshotsCost == Spec => []SnapshotNeedsCadence
<1>1. CostInv => SnapshotNeedsCadence
  BY DEF CostInv
<1> QED
  BY <1>1, CostInit, CostStep, PTL DEF Spec
=============================================================================
