SPECIFICATION Spec
CONSTANTS
    CorsSiteService = CorsSiteService
    SiteLogNotifier = SiteLogNotifier
    NodeService = NodeService
    Subscribers <- MCSubscribers
    Types <- MCTypes
    RequestTypes <- MCRequestTypes
    Handles <- MCHandles
    Raises <- MCRaises
    NoType = "NoType"
    NoRow = NoRow
    MAX_RETRIES = 3
    MaxEvents = 2
    MaxRequests = 1
    MaxCrashes = 0
    MaxFaults = 0
INVARIANTS
    HandledMeansDone
CHECK_DEADLOCK FALSE
