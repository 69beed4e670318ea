SPECIFICATION Spec
CONSTANTS
    Requests <- MCRequests
    Networks <- MCNetworks
    Periods <- MCPeriods
    Asked <- MCAsked
    MaxUpdates = 2
    MaxFaults = 2
    R1 = R1
    R2 = R2
    R3 = R3
    R4 = R4
    Gpsnet = Gpsnet
    Auscope = Auscope
    Always = Always
    Past = Past
INVARIANTS
    TenanciesTypeOK
    TenanciesAreTheAccepted
    NoTenancyTwice
    TenanciesHaveNetworks
    UpdatesGiveWayToTenancies
CHECK_DEADLOCK FALSE
