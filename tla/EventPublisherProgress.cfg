SPECIFICATION FairSpec
CONSTANTS
    CorsSiteService = CorsSiteService
    SiteLogNotifier = SiteLogNotifier
    NodeService = NodeService
    Subscribers <- MCSubscribers
    Types <- MCTypes
    RequestTypes <- MCRequestTypes
    Handles <- MCHandles
    Raises <- MCRaises
    NoType = "NoType"
    NoRow = NoRow
    MAX_RETRIES = 3
    MaxEvents = 2
    MaxRequests = 1
    MaxCrashes = 2
    MaxFaults = 1
PROPERTIES
    PendingIsClaimed
    EveryDeliverySettles
CHECK_DEADLOCK FALSE
