------------------------------ MODULE LossReport ------------------------------
(***************************************************************************)
(* The losses fredctl reports: the counter of dropped samples from the      *)
(* bridge, which a mode command zeroes, through the packets of samples, to  *)
(* TraceCaptureCounters (host/src/main.rs lines 279-302), which remembers   *)
(* the last total and prints the difference to it.  The counter of stalls   *)
(* goes the same way and is left out.                                       *)
(*                                                                          *)
(* HostSession runs underneath, so a program may find packets of an earlier *)
(* one, whose totals started from another zero.                             *)
(***************************************************************************)
EXTENDS HostSession

CONSTANTS
    CounterMod,     \* values of a counter, 2^32
    MaxLost         \* bound: samples dropped

ASSUME CounterAssumption == CounterMod \in Nat \ {0} /\ MaxLost \in Nat

VARIABLES
    trace_queue_drop_count,   \* TRACE_QUEUE_DROP_COUNT
    usb_total, ep_total,      \* total in the packet of usb_in, of in_ep
    dropped_samples_total,    \* of TraceCaptureCounters
    dropped_delta,            \* printed with the last packet, 0 for nothing
    \* history
    lost,                     \* samples the bridge ever dropped
    zeroed_at,                \* `lost` at its last mode command
    usb_lost, ep_lost,        \* `lost` when the packet was made
    known,                    \* `lost` as of the packet reported last
    misled                    \* a difference was not what had been lost

packetVars == <<usb_total, usb_lost, ep_total, ep_lost>>
reportVars == <<dropped_samples_total, dropped_delta, known, misled>>
lossVars == <<trace_queue_drop_count, lost, zeroed_at, packetVars,
              reportVars, vars>>

LossInit ==
    /\ Init
    /\ trace_queue_drop_count = 0
    /\ usb_total = 0 /\ ep_total = 0
    /\ dropped_samples_total = 0 /\ dropped_delta = 0
    /\ lost = 0 /\ zeroed_at = 0
    /\ usb_lost = 0 /\ ep_lost = 0
    /\ known = 0
    /\ misled = FALSE

-----------------------------------------------------------------------------
(* The bridge.                                                              *)

\* Core1 drops a sample that found the gate open.
DropSample ==
    /\ gate \/ late
    /\ lost < MaxLost
    /\ lost' = lost + 1
    /\ trace_queue_drop_count' = (trace_queue_drop_count + 1) % CounterMod
    /\ UNCHANGED <<zeroed_at, packetVars, reportVars, vars>>

\* Mutant: a mode command leaves the counter as it is.
ZeroCount_Kept ==
    /\ DeviceRead
    /\ zeroed_at' = lost
    /\ UNCHANGED <<trace_queue_drop_count, lost, packetVars, reportVars>>

\* reset_stream_state in a mode command.
ZeroCount ==
    /\ DeviceRead
    /\ trace_queue_drop_count' = 0
    /\ zeroed_at' = lost
    /\ UNCHANGED <<lost, packetVars, reportVars>>

\* poll_outgoing_packet: a packet of samples has the count of its time.
LoadCount ==
    /\ DeviceStream /\ usb_in'.type = "TraceSample"
    /\ usb_total' = trace_queue_drop_count
    /\ usb_lost' = lost
    /\ UNCHANGED <<trace_queue_drop_count, lost, zeroed_at, ep_total, ep_lost,
                   reportVars>>

\* The packet crosses.
MoveCount ==
    /\ DeviceWrite
    /\ ep_total' = usb_total /\ ep_lost' = usb_lost
    /\ usb_total' = 0 /\ usb_lost' = 0
    /\ UNCHANGED <<trace_queue_drop_count, lost, zeroed_at, reportVars>>

-----------------------------------------------------------------------------
(* The program.                                                             *)

\* A packet that was read or cut is gone with its count.
Taken ==
    /\ IF in_ep' = in_ep THEN UNCHANGED <<ep_total, ep_lost>>
       ELSE ep_total' = 0 /\ ep_lost' = 0
    /\ UNCHANGED <<usb_total, usb_lost>>

\* TraceCaptureCounters::default, when the mode commands are through: the
\* program takes it that the bridge counts from zero.
Begin ==
    /\ ReadReply \/ Deadline
    /\ host' = "stream"
    /\ dropped_samples_total' = 0 /\ dropped_delta' = 0
    /\ known' = zeroed_at
    /\ misled' = FALSE
    /\ Taken
    /\ UNCHANGED <<trace_queue_drop_count, lost, zeroed_at>>

\* Mutant: plain subtraction.
Delta_Signed(now, before) == now - before

\* wrapping_sub.
Delta(now, before) == (now - before) % CounterMod

\* TraceCaptureCounters::update, of a packet that decodes as samples.
Update ==
    /\ ReadStream /\ Wants = "TraceSample" /\ in_ep.type = "TraceSample"
    /\ dropped_delta' = Delta(ep_total, dropped_samples_total)
    /\ dropped_samples_total' = ep_total
    /\ known' = ep_lost
    /\ misled' = \/ misled
                 \/ ep_lost < known
                 \/ dropped_delta' # (ep_lost - known) % CounterMod
    /\ Taken
    /\ UNCHANGED <<trace_queue_drop_count, lost, zeroed_at>>

\* Every other step moves no count.  What a program reported ends with its
\* stream.
Uncounted ==
    /\ \/ Open \/ WritePacket \/ WriteTimeout
       \/ (ReadReply \/ Deadline) /\ host' # "stream"
       \/ ReadStream /\ ~(Wants = "TraceSample" /\ in_ep.type = "TraceSample")
       \/ StopPolling \/ Interrupt \/ Kill \/ Cut \/ ReadTail
       \/ DeviceConnect \/ DevicePoll \/ DeviceRest
       \/ DeviceStream /\ usb_in'.type # "TraceSample"
    /\ IF host' = "stream" THEN UNCHANGED reportVars
       ELSE /\ dropped_samples_total' = 0 /\ dropped_delta' = 0
            /\ known' = 0
            /\ misled' = FALSE
    /\ Taken
    /\ UNCHANGED <<trace_queue_drop_count, lost, zeroed_at>>

LossNext ==
    \/ DropSample \/ ZeroCount \/ LoadCount \/ MoveCount
    \/ Begin \/ Update \/ Uncounted

LossSpec == LossInit /\ [][LossNext]_lossVars

\* As FairSession.
FairLoss == LossSpec /\ WF_vars(Device) /\ WF_vars(ReadReply \/ ReadTail)

-----------------------------------------------------------------------------
Count == 0..(CounterMod - 1)

LossTypeOK ==
    /\ {trace_queue_drop_count, usb_total, ep_total,
        dropped_samples_total, dropped_delta} \subseteq Count
    /\ {lost, zeroed_at, usb_lost, ep_lost, known} \subseteq 0..MaxLost
    /\ misled \in BOOLEAN

\* The loss a program reports with a packet is what the bridge dropped since
\* the packet before, or since its mode command, up to a wrap of the counter:
\* however many streams and resets of other programs, and of its own first
\* command, lie in the endpoints.  As with OwnSamples, it takes a deadline or
\* two answers left unread to mislead it (main.rs lines 286-301).
LossesTrue == misled => deadlines > 0 \/ stranded > 1
=============================================================================
