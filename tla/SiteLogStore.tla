----------------------------- MODULE SiteLogStore -----------------------------
(***************************************************************************)
(* What CorsSiteLogService promises of the site log of one site: there is  *)
(* one, each upload that is accepted replaces it at once, and is announced *)
(* by an event with that.                                                  *)
(***************************************************************************)
CONSTANTS
    Uploads,     \* the requests
    First        \* the site log that is there before them

VARIABLES
    log,         \* the upload whose site log is stored
    announced    \* the uploads whose SiteLogReceived event is stored

Init ==
    /\ log = First
    /\ announced = {}

Replace(u) ==
    /\ u \notin announced
    /\ log' = u
    /\ announced' = announced \union {u}

Next == \E u \in Uploads : Replace(u)

Spec == Init /\ [][Next]_<<log, announced>>

==============================================================================
