----------------------------- MODULE PacketLink ------------------------------
(***************************************************************************)
(* What the packets from the device are to a host program: the abstract     *)
(* specification of read_packet_timeout (host/src/transport.rs lines        *)
(* 103-149).  There is one packet under way at a time.  It is returned, or  *)
(* a read is given up in it and it may be lost; only then is there a next,  *)
(* and an error is reported of no packet that is not lost.  PacketFraming   *)
(* implements it.                                                           *)
(***************************************************************************)
EXTENDS Naturals, Sequences

CONSTANT Packets

VARIABLES
    sent,       \* the packets the device wrote
    returned,   \* those a program got, with their numbers
    lost,       \* the numbers of those a read was given up in
    failed      \* and of those an error was reported of

vars == <<sent, returned, lost, failed>>

Init == sent = <<>> /\ returned = <<>> /\ lost = {} /\ failed = {}

Last == Len(sent)
Returned(p) == \E i \in DOMAIN returned : returned[i].seq = p

Send ==
    /\ sent # <<>> => Returned(Last) \/ Last \in lost
    /\ \E packet \in Packets : sent' = Append(sent, packet)
    /\ UNCHANGED <<returned, lost, failed>>

\* How a read comes out.
Nothing == UNCHANGED <<returned, failed>>

Return ==
    /\ ~Returned(Last)
    /\ returned' = Append(returned, [seq |-> Last, packet |-> sent[Last]])
    /\ UNCHANGED failed

Fail ==
    /\ Last \in lost'
    /\ failed' = failed \cup {Last}
    /\ UNCHANGED returned

Read ==
    /\ sent # <<>>
    /\ UNCHANGED <<sent, lost>>
    /\ Return \/ Fail

\* What was read by then may still come to the program.
GiveUp ==
    /\ sent # <<>> /\ UNCHANGED sent
    /\ lost' = lost \cup {Last}
    /\ Nothing \/ Return \/ Fail

Next == Send \/ Read \/ GiveUp

Spec == Init /\ [][Next]_vars
=============================================================================
