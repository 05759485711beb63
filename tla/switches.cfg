SPECIFICATION Spec
CONSTANTS
    tap1 = tap1
    tap2 = tap2
    motion = motion
    line = line
    output = output
    holiday = holiday
    Commands = {tap1, tap2}
    Switches = {motion, line, output, holiday}
    Fits <- Pairs
    Kind <- Kinds
    Exclusive = {{motion, line}}
INVARIANTS
    TypeOK
    ExclusiveEventsStayExclusive
    ChangesArePolled
PROPERTIES
    SuccessMeansEffect
SYMMETRY CommandSymmetry
