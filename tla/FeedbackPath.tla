---------------------------- MODULE FeedbackPath ----------------------------
(***************************************************************************)
(* The decoder listening to the ROM's traffic through a capture path that   *)
(* keeps the order of the samples but may lose any of them (StreamInOrder   *)
(* and NoSilentLoss of CaptureSystem).  The decoder may be made anew at any *)
(* point of the cadence: that is its initial state here.  How late a sample *)
(* reaches the decoder makes no difference to what it decodes, so it gets   *)
(* each sample as it is taken.                                              *)
(***************************************************************************)
EXTENDS FeedbackDecoder, RomFeedback

CONSTANT MaxFaults   \* bound: samples lost, answers that are not BCD

ASSUME BoundAssumption ==
    MaxCycles \in Nat /\ MaxRestarts \in Nat /\ MaxFaults \in Nat

Responses == [cmd : Commands, cycle : 0..MaxCycles, bcd : BOOLEAN]

ASSUME ResponseAssumption == NoResponse \notin Responses

VARIABLES
    \* history
    lost,          \* command and response samples lost
    garbled,       \* answers that were not BCD
    clean          \* transactions decoded since the last fault, up to a cycle

pathVars == <<lost, garbled, clean>>
vars == <<decoderVars, romVars, pathVars>>

Init ==
    /\ DecoderInit /\ RomInit
    /\ lost = 0 /\ garbled = 0 /\ clean = 0

MoreFaults == lost + garbled < MaxFaults
Lose ==
    /\ MoreFaults
    /\ lost' = lost + 1 /\ clean' = 0
    /\ UNCHANGED decoderVars

\* The status reads the ROM makes between the two, each a bus cycle.
PollStatus ==
    /\ IngestOther
    /\ UNCHANGED <<romVars, pathVars>>

SendCommand ==
    /\ WriteCommand
    /\ \/ IngestCommand(Command) /\ UNCHANGED <<lost, clean>>
       \/ Lose
    /\ UNCHANGED garbled

\* A transaction counts as clean when the decoder has seen both its samples.
Respond ==
    \E bcd \in BOOLEAN :
        /\ ReadResponse(bcd)
        /\ \/ /\ bcd \/ MoreFaults
              /\ IngestResponse(Answer(Command, bcd))
              /\ garbled' = IF bcd THEN garbled ELSE garbled + 1
              /\ clean' = IF ~bcd \/ pending_cmd # Command THEN 0
                          ELSE IF clean < Len(Cadence) THEN clean + 1
                          ELSE clean
              /\ UNCHANGED lost
           \/ bcd /\ Lose /\ UNCHANGED garbled

Restart ==
    /\ Plonkon
    /\ UNCHANGED <<decoderVars, pathVars>>

Next == PollStatus \/ SendCommand \/ Respond \/ Restart

Spec == Init /\ [][Next]_vars

TypeOK ==
    /\ pending_cmd \in Commands \cup {NoResponse}
    /\ stored \in [Commands -> Responses \cup {NoResponse}]
    /\ current_snapshot \in [Commands -> Responses] \cup {NoResponse}
    /\ delivered \in 0..SnapshotSamples
    /\ rom \in {"write", "read"} /\ L0080 \in 0..LastEntry
    /\ event_feedback_index \in 0..BufLen
    /\ DOMAIN event_feedback_buf = 0..(BufLen - 1)
    /\ cycle \in 0..MaxCycles
    /\ answered \in [Commands -> Responses]
    /\ lost \in 0..MaxFaults /\ garbled \in 0..MaxFaults
    /\ restarts \in 0..MaxRestarts /\ clean \in 0..Len(Cadence)

-----------------------------------------------------------------------------
\* A cycle of the cadence has just ended.
CycleEnded == rom = "write" /\ L0080 = 0 /\ answered[12].cycle = cycle

\* The decoder has seen the last ten transactions whole.
CycleClean == CycleEnded /\ clean = Len(Cadence)

\* When a cycle has been seen whole, its end leaves a snapshot of the lathe's
\* latest answers and of nothing older: what is kept from before a loss does
\* not outlive the next whole cycle (trace_decode.rs lines 134-147).
SnapshotExact == CycleClean => current_snapshot = answered

\* A response is never filed under another command unless two samples were
\* lost: a response and the command after it.
MisfiledNeedsTwoLosses ==
    \A c \in Commands :
        stored[c] # NoResponse /\ stored[c].cmd # c => lost >= 2

\* No snapshot comes of less than a full cadence of samples, whatever is lost
\* or misfiled.  CaptureSystem builds on it (MinSnapshotSamples).
SnapshotNeedsCadence ==
    current_snapshot # NoResponse => delivered = SnapshotSamples

\* The text the BASIC programs read and the decoder's snapshot agree at the
\* end of a whole cycle, as long as the engine is not restarted: the two
\* decoders of the repository read the lathe alike.
TextAgrees ==
    CycleClean /\ restarts = 0 =>
        \A i \in 0..15 : event_feedback_buf[i] = TextOf(current_snapshot)[i]

-----------------------------------------------------------------------------
(* What protocol.txt lines 106-107 say of the text after one full cycle.    *)

\* $0C9F holds the sign and digits of x, $0CA7 those of z.  A restart leaves
\* event_feedback_index where it was, and the next cycle is stored past them.
TextAfterCycle ==
    CycleEnded /\ cycle > 0 =>
        \A i \in 0..15 : event_feedback_buf[i] = TextOf(answered)[i]
=============================================================================
