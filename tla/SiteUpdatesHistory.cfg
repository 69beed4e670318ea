SPECIFICATION FairSpec
CONSTANTS
    Dates <- MCDates
    NoDate = Null
    Types = {Receiver, Antenna}
    Equipment = {Serial1, Serial2}
    Logs <- MCLogs
    MaxUploads = 4
    MaxFaults = 1
    Null = Null
    Receiver = Receiver
    Antenna = Antenna
    Serial1 = Serial1
    Serial2 = Serial2
INVARIANTS
    TypeOK
    ValidSetupsAreTimeline
    CurrentSetupIsFound
    FailuresCostOneUpdate
PROPERTIES
    HistoryIsKept
    SetupsCatchUp
CHECK_DEADLOCK FALSE
