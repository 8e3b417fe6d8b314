SPECIFICATION Spec
CONSTANTS
    NDrives = 2
    Budget = 2
    Sync = Sync
    Notifiers = {n1}
    MaxChanges = 2
    MaxNotes = 2
    MaxFails = 1
INVARIANTS TypeOK
PROPERTIES CoverageSpec EventuallyHandled
