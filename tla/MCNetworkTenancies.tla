-------------------------- MODULE MCNetworkTenancies --------------------------
(***************************************************************************)
(* Two requests for one tenancy, one for the same network in another       *)
(* period, one for another network.                                        *)
(***************************************************************************)
EXTENDS NetworkTenancies

CONSTANTS R1, R2, R3, R4, Gpsnet, Auscope, Always, Past

MCRequests == {R1, R2, R3, R4}
MCNetworks == {Gpsnet, Auscope}
MCPeriods == {Always, Past}

MCAsked ==
    [r \in MCRequests |->
        [network |-> IF r = R4 THEN Auscope ELSE Gpsnet,
         period |-> IF r = R3 THEN Past ELSE Always]]

==============================================================================
