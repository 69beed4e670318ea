SPECIFICATION Spec
CONSTANTS
    Uploads <- MCUploads
    First = First
    MaxFaults = 1
    U1 = U1
    U2 = U2
    U3 = U3
    U4 = U4
INVARIANTS
    TypeOK
    StaleUploadsWereOvertaken
    LogsAreFirstUploads
PROPERTIES
    ReplacesOneByOne
CHECK_DEADLOCK FALSE
