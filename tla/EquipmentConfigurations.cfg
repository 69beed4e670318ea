SPECIFICATION Spec
CONSTANTS
    Dates <- MCDates
    NoDate = Null
    Types = {Receiver, Clock}
    Equipment = {Serial, Quartz}
    Sites = {Here, There}
    Settings = {Old, New}
    Logs <- MCLogs
    NoSite = NoSite
    MaxUploads = 3
    MaxFaults = 1
    Null = Null
    Receiver = Receiver
    Clock = Clock
    Serial = Serial
    Quartz = Quartz
    Old = Old
    New = New
    Here = Here
    There = There
INVARIANTS
    TypeOK
    OneConfigurationPerDate
    SettledConfigurationsSayLog
PROPERTIES
    ConfigurationsAreKept
CHECK_DEADLOCK FALSE
