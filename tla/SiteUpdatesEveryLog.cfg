SPECIFICATION Spec
CONSTANTS
    Dates <- MCDates
    NoDate = Null
    Types = {Receiver, Antenna}
    Equipment = {Serial1}
    Logs <- MCEveryLog
    MaxUploads = 1
    MaxFaults = 0
    Null = Null
    Receiver = Receiver
    Antenna = Antenna
    Serial1 = Serial1
INVARIANTS
    SettledSetupsDescribeLog
    PeriodsAreFound
CHECK_DEADLOCK FALSE
