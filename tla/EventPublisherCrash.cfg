SPECIFICATION Spec
CONSTANTS
    CorsSiteService = CorsSiteService
    SiteLogNotifier = SiteLogNotifier
    NodeService = NodeService
    Subscribers <- MCSubscribers
    Types <- MCTypes
    RequestTypes <- MCRequestTypes
    Handles <- MCHandles
    Raises <- MCRaises
    NoType = "NoType"
    NoRow = NoRow
    MAX_RETRIES = 3
    MaxEvents = 4
    MaxRequests = 2
    MaxCrashes = 2
    MaxFaults = 1
INVARIANTS
    TypeOK
    AtMostOneCall
    CommittedWorkIsHandled
    HandledWithoutWorkHasError
    EachLifeLosesAtMostOne
    EventsHaveCommittedCauses
PROPERTIES
    ColumnsNeverRevert
    DeliversAtMostOnce
CHECK_DEADLOCK FALSE
