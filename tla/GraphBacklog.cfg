SPECIFICATION Spec
CONSTANTS
    NDrives = 1
    Budget = 2
    Sync = Sync
    Notifiers = {n1}
    MaxChanges = 3
    MaxNotes = 1
    MaxFails = 0
PROPERTIES EventuallyHandled
