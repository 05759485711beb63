SPECIFICATION Spec
CONSTANTS
    motion = motion
    disks = disks
    Keys = {motion, disks}
    Kind <- EventsKind
    Values = {off, on}
    Blank = off
    NoSample = NoSample
    NoReply = NoReply
INVARIANTS
    FailedRequestIsUnavailable
