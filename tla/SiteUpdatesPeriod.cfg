SPECIFICATION Spec
CONSTANTS
    Dates <- MCDates
    NoDate = Null
    Types = {Receiver, Antenna}
    Equipment = {Serial1, Serial2}
    Logs <- MCLogs
    MaxUploads = 1
    MaxFaults = 0
    Null = Null
    Receiver = Receiver
    Antenna = Antenna
    Serial1 = Serial1
    Serial2 = Serial2
INVARIANTS
    AllOfPeriodAreFound
CHECK_DEADLOCK FALSE
