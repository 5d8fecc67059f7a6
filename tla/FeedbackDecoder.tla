-------------------------- MODULE FeedbackDecoder --------------------------
(***************************************************************************)
(* FeedbackDecoder (protocol/src/trace_decode.rs): it pairs each command    *)
(* written to FC80 with the response next read at FCF1, keeps the latest    *)
(* response to every command, and yields a snapshot at the command that     *)
(* ends a cadence.                                                          *)
(*                                                                          *)
(* A response is known by the command it answers, the cycle of the cadence  *)
(* it was given in, and whether it is packed BCD; its digits are left out.  *)
(* The test that suppresses a repeated snapshot (lines 142-144) compares    *)
(* sample_index too, so it never fires, and is left out.                    *)
(***************************************************************************)
EXTENDS Naturals

CONSTANT NoResponse   \* nothing stored yet

VARIABLES
    pending_cmd,       \* NoResponse, or the command awaiting its response
    stored,            \* response kept for each command: NoResponse while its
                       \* sign_seen, pair_mask or rpm_mask bit is clear
    current_snapshot,  \* NoResponse, or the responses of the last snapshot
    \* history
    delivered          \* samples ingested, up to a full cadence of them

decoderVars == <<pending_cmd, stored, current_snapshot, delivered>>

SignCommands == {3, 7}
Commands == {0, 1, 2, 4, 5, 6, 12, 13} \cup SignCommands
SnapshotCommand == 12

ASSUME NoResponseAssumption == NoResponse \notin Commands

\* The commands of a cadence, and as many responses.
SnapshotSamples == 2 * 10

DecoderInit ==
    /\ pending_cmd = NoResponse
    /\ stored = [c \in Commands |-> NoResponse]
    /\ current_snapshot = NoResponse
    /\ delivered = 0

-----------------------------------------------------------------------------
\* What is stored once `response` is taken for an answer to `cmd`.
ApplyResponse(cmd, response) ==
    IF cmd \in SignCommands \/ response.bcd
    THEN [stored EXCEPT ![cmd] = response] ELSE stored

\* Mutant: the mask of the x axis is not tested.
Complete_IgnoresX(s) ==
    \A c \in {4, 5, 6, 7, 12, 13} : s[c] # NoResponse

Complete(s) == \A c \in Commands : s[c] # NoResponse

Count == delivered' = IF delivered < SnapshotSamples THEN delivered + 1
                      ELSE delivered

IngestCommand(cmd) ==
    /\ pending_cmd' = cmd
    /\ Count
    /\ UNCHANGED <<stored, current_snapshot>>

\* Mutant: the pending command is left in place.
IngestResponse_Peek(response) ==
    /\ Count
    /\ UNCHANGED pending_cmd
    /\ IF pending_cmd = NoResponse THEN UNCHANGED <<stored, current_snapshot>>
       ELSE /\ stored' = ApplyResponse(pending_cmd, response)
            /\ current_snapshot' =
                   IF pending_cmd = SnapshotCommand /\ Complete(stored')
                   THEN stored' ELSE current_snapshot

\* Mutant: the snapshot is taken before the last response is applied.
IngestResponse_SnapshotFirst(response) ==
    /\ Count
    /\ pending_cmd' = NoResponse
    /\ IF pending_cmd = NoResponse THEN UNCHANGED <<stored, current_snapshot>>
       ELSE /\ stored' = ApplyResponse(pending_cmd, response)
            /\ current_snapshot' =
                   IF pending_cmd = SnapshotCommand /\ Complete(stored)
                   THEN stored ELSE current_snapshot

IngestResponse(response) ==
    /\ Count
    /\ pending_cmd' = NoResponse
    /\ IF pending_cmd = NoResponse THEN UNCHANGED <<stored, current_snapshot>>
       ELSE /\ stored' = ApplyResponse(pending_cmd, response)
            /\ current_snapshot' =
                   IF pending_cmd = SnapshotCommand /\ Complete(stored')
                   THEN stored' ELSE current_snapshot

\* Any other cycle of the bus, a status read for one.
IngestOther == Count /\ UNCHANGED <<pending_cmd, stored, current_snapshot>>
=============================================================================
