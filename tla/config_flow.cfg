SPECIFICATION Spec
CONSTANTS
    Entries = {entry1, entry2, entry3}
    Flows = {flow1, flow2}
    Devices = {camera, recorder}
    Nothing = Nothing
SYMMETRY Symmetry
INVARIANTS
    TypeOK
    OneEntryPerDevice
    EntryKeepsItsDevice
