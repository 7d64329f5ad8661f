SPECIFICATION Spec
CONSTANTS
    MaxRecords = 2
    MaxFaults = 0
    kMaxRecordSize = 3
    RecordBuffer = 3
    SizeBuffer = 3
    ManySizes = 1
INVARIANT AcceptedIsRead
CHECK_DEADLOCK FALSE
