---------------------------- MODULE RomFeedback ----------------------------
(***************************************************************************)
(* The bus master: the feedback engine of the TCL 202 ROM (tcl202.asm,      *)
(* event_main and its callbacks).  Each event runs one transaction: write   *)
(* the next command of the cadence, read the lathe's response, put it in    *)
(* the text the BASIC programs read.  The lathe answers as it likes; its    *)
(* answer is known by the command, the cycle of the cadence and whether it  *)
(* is packed BCD.  The drawing of the text on the screen is left out.       *)
(***************************************************************************)
EXTENDS Naturals, Sequences

CONSTANTS
    MaxCycles,     \* bound: cycles of the cadence
    MaxRestarts    \* bound: times PLONKON or PLONKW is run

VARIABLES
    rom,                   \* before FRED_80 is written, or before FRED_F1 is read
    L0080,                 \* entry of fred80_table, counted from 0
    event_feedback_index,
    event_feedback_buf,
    \* history
    cycle,                 \* cycles begun
    restarts,
    answered               \* last answer the lathe gave to each command

romVars == <<rom, L0080, event_feedback_index, event_feedback_buf, cycle,
             restarts, answered>>

\* fred80_table, the commands only.
Cadence == <<3, 2, 1, 0, 7, 6, 5, 4, 13, 12>>
Command == Cadence[L0080 + 1]
LastEntry == Len(Cadence) - 1

Answer(cmd, bcd) == [cmd |-> cmd, cycle |-> cycle, bcd |-> bcd]

\* What event_cb_store_sign and event_cb_store_pair write at an index.
Text(cmd, a) == IF cmd \in {3, 7} THEN <<"CR", a>> ELSE <<a, a>>
StoresText(cmd) == cmd \notin {13, 12}

\* The text of a cycle: sixteen places, the x axis first.
TextOf(answers) ==
    [i \in 0..15 |->
        LET cmd == Cadence[(i \div 2) + 1]
        IN  Text(cmd, answers[cmd])[(i % 2) + 1]]

\* Bound: a restart may push the text sixteen places further, over the
\* variables that follow it.  From $0CBD on they only serve the drawing; place
\* 81 is event_feedback_saved_y, and a text that reached it would send the
\* engine out of its table, long before the index of one byte wraps.
BufLen == 80

\* The engine has been running when it is first looked at: cycle 0 is over.
\* Past the text of a cycle the memory holds what it held before.
RomInit ==
    /\ rom \in {"write", "read"}
    /\ L0080 \in 0..LastEntry
    /\ event_feedback_index =
           IF L0080 = LastEntry /\ rom = "read" THEN 0
           ELSE IF L0080 < 8 THEN 2 * L0080 ELSE 16
    /\ cycle = 0 /\ restarts = 0
    /\ answered = [c \in {Cadence[i] : i \in 1..Len(Cadence)} |->
                       Answer(c, TRUE)]
    /\ event_feedback_buf =
           [i \in 0..(BufLen - 1) |-> IF i < 16 THEN TextOf(answered)[i]
                                      ELSE "stale"]

-----------------------------------------------------------------------------
\* Mutant: the end of the table does not reset the index.
WriteCommand_IndexKept ==
    /\ rom = "write"
    /\ rom' = "read"
    /\ IF L0080 = 0 THEN cycle < MaxCycles /\ cycle' = cycle + 1
       ELSE UNCHANGED cycle
    /\ UNCHANGED <<L0080, event_feedback_index, event_feedback_buf, restarts,
                   answered>>

\* event_main up to the command, and the end-of-table test.
WriteCommand ==
    /\ rom = "write"
    /\ rom' = "read"
    /\ event_feedback_index' = IF L0080 = LastEntry THEN 0
                               ELSE event_feedback_index
    /\ IF L0080 = 0 THEN cycle < MaxCycles /\ cycle' = cycle + 1
       ELSE UNCHANGED cycle
    /\ UNCHANGED <<L0080, event_feedback_buf, restarts, answered>>

\* Mutant: the end of the table is not looked for.
NextEntry_NoEnd == L0080 + 1

\* The end of the table, $FF after the last entry, starts it again.
NextEntry == IF L0080 = LastEntry THEN 0 ELSE L0080 + 1

\* The rest of event_main: the response, and its callback.
ReadResponse(bcd) ==
    /\ rom = "read"
    /\ rom' = "write"
    /\ answered' = [answered EXCEPT ![Command] = Answer(Command, bcd)]
    /\ IF StoresText(Command)
       THEN LET text == Text(Command, Answer(Command, bcd))
                n == event_feedback_index
            IN  /\ event_feedback_buf' =
                       [event_feedback_buf EXCEPT ![n] = text[1],
                                                  ![n + 1] = text[2]]
                /\ event_feedback_index' = n + 2
       ELSE UNCHANGED <<event_feedback_buf, event_feedback_index>>
    /\ L0080' = NextEntry
    /\ UNCHANGED <<cycle, restarts>>

\* PLONKON and PLONKW, from the foreground: an event is never half done.  The
\* index of the text is left where it was.  The bound on the index allows four
\* restarts in a row, and any number with whole cycles between them.
Plonkon ==
    /\ rom = "write" /\ restarts < MaxRestarts
    /\ event_feedback_index + 16 <= BufLen
    /\ restarts' = restarts + 1
    /\ L0080' = 0
    /\ UNCHANGED <<rom, event_feedback_index, event_feedback_buf, cycle,
                   answered>>
=============================================================================
