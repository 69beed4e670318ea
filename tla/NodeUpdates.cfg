SPECIFICATION NodesFairSpec
CONSTANTS
    Dates <- MCDates
    NoDate = Null
    Types = {Receiver, Antenna, Clock, Sensor}
    Equipment = {Serial1, Serial2}
    Logs <- MCLogs
    MaxUploads = 2
    MaxFaults = 2
    Second = 3
    Null = Null
    Receiver = Receiver
    Antenna = Antenna
    Clock = Clock
    Sensor = Sensor
    Serial1 = Serial1
    Serial2 = Serial2
INVARIANTS
    NodesTypeOK
    OneNodePerSetup
    NodesFollowSetups
    NodeContainsItsSetup
    NodelessSetupsWerePassedOver
    NodesCoverCompleteSetups
    NodesOverlapOnlyInSecond
    SettledNodesDescribeLog
PROPERTIES
    NodesCatchUp
CHECK_DEADLOCK FALSE
