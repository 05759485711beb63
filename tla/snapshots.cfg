SPECIFICATION FairSpec
CONSTANTS
    card1 = card1
    card2 = card2
    stream1 = stream1
    stream2 = stream2
    Calls = {card1, card2}
    Streams = {stream1, stream2}
INVARIANTS
    TypeOK
    AlternateIsTried
    RequestsAreBounded
    BusyDeviceIsRetried
PROPERTIES
    CallsEnd
