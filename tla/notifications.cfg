SPECIFICATION Spec
CONSTANTS
    h1 = h1
    h2 = h2
    a1 = a1
    a2 = a2
    N = 3
    Hosts = {h1, h2}
    Addresses = {a1, a2}
INVARIANTS
    TypeOK
    RightSensor
    EventsArrive
SYMMETRY NetworkSymmetry
