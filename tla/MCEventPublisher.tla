--------------------------- MODULE MCEventPublisher ---------------------------
(***************************************************************************)
(* The subscribers of site logs and sites, with the table of who handles   *)
(* and who raises what read from their canHandle() and handle().           *)
(***************************************************************************)
EXTENDS EventPublisher

CONSTANTS CorsSiteService, SiteLogNotifier, NodeService

MCSubscribers == {CorsSiteService, SiteLogNotifier, NodeService}

MCTypes == {"SiteLogReceived", "SiteUpdated"}
MCRequestTypes == {"SiteLogReceived"}

MCHandles ==
    [s \in MCSubscribers |->
        IF s = NodeService THEN {"SiteUpdated"} ELSE {"SiteLogReceived"}]

MCRaises ==
    [s \in MCSubscribers |->
        IF s = CorsSiteService THEN "SiteUpdated" ELSE "NoType"]
===============================================================================
