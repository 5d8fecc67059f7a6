------------------------------- MODULE Replay -------------------------------
(***************************************************************************)
(* What a capture file promises to who replays it: the abstract             *)
(* specification of host/src/capture_file.rs.  The batches captured are     *)
(* returned in their order.  A replay that ends has missed at most the last *)
(* of them, the one that is being written; it is refused only for a file of *)
(* another format, or for a batch that is too long for it, which no file of *)
(* its own format has.  CaptureFile implements it.                          *)
(***************************************************************************)
EXTENDS Naturals, Sequences

CONSTANTS
    Batches,    \* what there is to capture
    Short,      \* the batches a replay has room for
    Readable,   \* the formats it knows
    Own         \* and the one it writes

VARIABLES
    format,     \* the format of the file
    captured,   \* the batches captured so far
    returned,   \* and those replayed
    end         \* how the replay ended, "none" before it does

vars == <<format, captured, returned, end>>

Init ==
    /\ captured = <<>> /\ returned = <<>>
    /\ end = "none"

\* The next batch to replay.
Due == captured[Len(returned) + 1]

Capture ==
    /\ captured' \in Seq(IF format = Own THEN Short ELSE Batches)
    /\ Len(captured') = Len(captured) + 1
    /\ \A i \in 1..Len(captured) : captured'[i] = captured[i]
    /\ UNCHANGED <<format, returned, end>>

Return ==
    /\ end = "none" /\ format \in Readable
    /\ Len(returned) < Len(captured) /\ Due \in Short
    /\ returned' = Append(returned, Due)
    /\ UNCHANGED <<format, captured, end>>

\* At the end of the file, or where it is cut off.
Stop ==
    /\ end = "none"
    /\ Len(captured) <= Len(returned) + 1
    /\ end' \in {"eof", "truncated"}
    /\ UNCHANGED <<format, captured, returned>>

Refuse ==
    /\ end = "none"
    /\ IF format \in Readable
       THEN Len(returned) < Len(captured) /\ Due \notin Short
       ELSE returned = <<>>
    /\ end' = "refused"
    /\ UNCHANGED <<format, captured, returned>>

Next == Capture \/ Return \/ Stop \/ Refuse

Spec == Init /\ [][Next]_vars
=============================================================================
