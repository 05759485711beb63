---------------------------- MODULE MCSwitchCommands ----------------------------
\* Two commands on devices with any two of these switches: two events of a camera
\* that exclude each other, an alarm output, the holiday mode.
EXTENDS SwitchCommands, FiniteSets, TLC

CONSTANTS tap1, tap2, motion, line, output, holiday

Pairs == {pair \in SUBSET Switches : Cardinality(pair) = 2}

Kinds ==
    motion :> "event" @@ line :> "event" @@ output :> "output" @@ holiday :> "holiday"

\* Commands are interchangeable.
CommandSymmetry == Permutations(Commands)
================================================================================
