SPECIFICATION FairSpec
CONSTANTS
    motion = motion
    disks = disks
    Keys = {motion, disks}
    Kind <- EventsKind
    Values = {off, on}
    Blank = off
    NoSample = NoSample
    NoReply = NoReply
INVARIANTS
    TypeOK
    CurrentIsRecent
    AvailabilityFollowsLastPoll
    StorageAgrees
    AgeOfEverySample
PROPERTIES
    Recovery
    CacheSpec
