--------------------------- MODULE NetworkTenancies ---------------------------
(***************************************************************************)
(* The networks of one site.                                               *)
(*                                                                         *)
(* CorsSiteEndpoint.addToNetwork() is no transaction.  It loads the site,  *)
(* asks whether the network exists, adds the tenancy to its detached copy  *)
(* and has the copy merged, each with a transaction of its own.  Meanwhile *)
(* other requests do the same, a network may be deleted, and the handler   *)
(* of SiteLogReceived, one transaction, saves the same site.  Merging      *)
(* makes the tenancies of the row those of the copy (orphanRemoval), so    *)
(* that everything rests on the version of the site.                       *)
(*                                                                         *)
(* No subscriber takes the event CorsSiteAddedToNetwork: publish() stores  *)
(* nothing for it.                                                         *)
(***************************************************************************)
EXTENDS FiniteSets, Naturals

CONSTANTS
    Requests,    \* the calls of addToNetwork() for the site
    Networks,    \* the networks there are at first
    Periods,     \* the periods a request may name
    Asked,       \* what each request asks for: a network and a period
    MaxUpdates,  \* bound on the events handled for the site
    MaxFaults    \* bound on requests and handlers that are stopped

ASSUME TenanciesAssumption ==
    /\ Asked \in [Requests -> [network : Networks, period : Periods]]
    /\ MaxUpdates \in Nat
    /\ MaxFaults \in Nat

VARIABLES
    tenancies,   \* the rows of CORS_SITE_IN_NETWORK, by the request that added them
    version,     \* the version of the site
    networks,    \* the networks that exist
    state,       \* where each request is
    copy,        \* the copy of the site it works on, its own tenancy apart
    handler,     \* the handler of SiteLogReceived: its step, the version it has read
    updates,     \* how many events of the site it has taken
    lost,        \* history: how many of them it gave up, the site being stale
    faults       \* how many requests and handlers were stopped

vars == <<tenancies, version, networks, state, copy, handler, updates, lost, faults>>
site == <<tenancies, version>>
service == <<handler, updates, lost>>

State == {"new", "loaded", "adding", "keeping", "ok", "refused", "failed"}
Copy == [tenancies : SUBSET Requests, version : Nat]
Handler == [step : {"idle", "read", "flushed"}, version : Nat]

Init ==
    /\ tenancies = {}
    /\ version = 0
    /\ networks = Networks
    /\ state = [r \in Requests |-> "new"]
    /\ copy = [r \in Requests |-> [tenancies |-> {}, version |-> 0]]
    /\ handler = [step |-> "idle", version |-> 0]
    /\ updates = 0
    /\ lost = 0
    /\ faults = 0

\* NetworkTenancy.equals() compares the network and the period.
ContainsTenancy(rows, r) == \E q \in rows : Asked[q] = Asked[r]

\* sites.findOne()
Load(r) ==
    /\ state[r] = "new"
    /\ state' = [state EXCEPT ![r] = "loaded"]
    /\ copy' = [copy EXCEPT ![r] = [tenancies |-> tenancies, version |-> version]]
    /\ UNCHANGED <<site, networks, service, faults>>

\* Network not found: 400
Refuse(r) ==
    /\ state[r] = "loaded"
    /\ Asked[r].network \notin networks
    /\ state' = [state EXCEPT ![r] = "refused"]
    /\ UNCHANGED <<site, networks, copy, service, faults>>

\* Deviation: the copy is not asked for the tenancy.
ChangeAlways(r) ==
    /\ state[r] = "loaded"
    /\ Asked[r].network \in networks
    /\ state' = [state EXCEPT ![r] = "adding"]
    /\ UNCHANGED <<site, networks, copy, service, faults>>

\* CorsSite.handle() adds the tenancy to the copy unless it has it.
Change(r) ==
    /\ state[r] = "loaded"
    /\ Asked[r].network \in networks
    /\ state' = [state EXCEPT ![r] =
           IF ContainsTenancy(copy[r].tenancies, r) THEN "keeping" ELSE "adding"]
    /\ UNCHANGED <<site, networks, copy, service, faults>>

IsFresh(r) == copy[r].version = version

\* Deviation: the site has no version.
SaveUnversioned(r) ==
    /\ state[r] = "adding"
    /\ handler.step # "flushed"
    /\ Asked[r].network \in networks
    /\ tenancies' = copy[r].tenancies \union {r}
    /\ version' = version + 1
    /\ state' = [state EXCEPT ![r] = "ok"]
    /\ UNCHANGED <<networks, copy, service, faults>>

\* Deviation: the table of tenancies does not refer to that of networks.
SaveUnreferenced(r) ==
    /\ state[r] = "adding"
    /\ handler.step # "flushed"
    /\ IsFresh(r)
    /\ tenancies' = copy[r].tenancies \union {r}
    /\ version' = version + 1
    /\ state' = [state EXCEPT ![r] = "ok"]
    /\ UNCHANGED <<networks, copy, service, faults>>

\* sites.save() of a changed copy.  It waits for the row of the site while the
\* handler has it locked.
Save(r) ==
    /\ state[r] = "adding"
    /\ handler.step # "flushed"
    /\ IsFresh(r)
    /\ Asked[r].network \in networks
    /\ tenancies' = copy[r].tenancies \union {r}
    /\ version' = version + 1
    /\ state' = [state EXCEPT ![r] = "ok"]
    /\ UNCHANGED <<networks, copy, service, faults>>

\* Deviation: merging an unchanged copy counts as a change.
KeepAsChange(r) ==
    /\ state[r] = "keeping"
    /\ handler.step # "flushed"
    /\ IsFresh(r)
    /\ version' = version + 1
    /\ state' = [state EXCEPT ![r] = "ok"]
    /\ UNCHANGED <<tenancies, networks, copy, service, faults>>

\* sites.save() of an unchanged copy reads the row and writes nothing.
Keep(r) ==
    /\ state[r] = "keeping"
    /\ IsFresh(r)
    /\ state' = [state EXCEPT ![r] = "ok"]
    /\ UNCHANGED <<site, networks, copy, service, faults>>

\* The copy is stale, or the foreign key of the network does not hold.
SaveFails(r) ==
    /\ \/ state[r] \in {"adding", "keeping"} /\ ~IsFresh(r)
       \/ state[r] = "adding" /\ Asked[r].network \notin networks
    /\ state' = [state EXCEPT ![r] = "failed"]
    /\ UNCHANGED <<site, networks, copy, service, faults>>

\* The program is stopped, the database fails, or a date cannot be parsed.
RequestFault(r) ==
    /\ state[r] \in {"new", "loaded", "adding", "keeping"}
    /\ faults < MaxFaults
    /\ faults' = faults + 1
    /\ state' = [state EXCEPT ![r] = "failed"]
    /\ UNCHANGED <<site, networks, copy, service>>

\* DELETE /corsNetworks, refused by the foreign key while the network has tenancies.
DeleteNetwork(n) ==
    /\ n \in networks
    /\ \A q \in tenancies : Asked[q].network # n
    /\ networks' = networks \ {n}
    /\ UNCHANGED <<site, state, copy, service, faults>>

\* The handler of SiteLogReceived reads the site,
BeginUpdate ==
    /\ handler.step = "idle"
    /\ updates < MaxUpdates
    /\ updates' = updates + 1
    /\ handler' = [step |-> "read", version |-> version]
    /\ UNCHANGED <<site, networks, state, copy, lost, faults>>

\* saves it, always with a new monument, and has the row locked until it ends,
FlushUpdate ==
    /\ handler.step = "read"
    /\ handler.version = version
    /\ handler' = [handler EXCEPT !.step = "flushed"]
    /\ UNCHANGED <<site, networks, state, copy, updates, lost, faults>>

\* Deviation: a handler that gives up goes back to its event.
LoseUpdateAndRetry ==
    /\ handler.step = "read"
    /\ handler.version # version
    /\ handler' = [handler EXCEPT !.step = "idle"]
    /\ lost' = lost + 1
    /\ updates' = updates - 1
    /\ UNCHANGED <<site, networks, state, copy, faults>>

\* or finds it stale and is rolled back: the event is not delivered again.
LoseUpdate ==
    /\ handler.step = "read"
    /\ handler.version # version
    /\ handler' = [handler EXCEPT !.step = "idle"]
    /\ lost' = lost + 1
    /\ UNCHANGED <<site, networks, state, copy, updates, faults>>

CommitUpdate ==
    /\ handler.step = "flushed"
    /\ version' = version + 1
    /\ handler' = [handler EXCEPT !.step = "idle"]
    /\ UNCHANGED <<tenancies, networks, state, copy, updates, lost, faults>>

\* The setups cannot be derived, the program is stopped or the database fails.
UpdateFault ==
    /\ handler.step \in {"read", "flushed"}
    /\ faults < MaxFaults
    /\ faults' = faults + 1
    /\ handler' = [handler EXCEPT !.step = "idle"]
    /\ UNCHANGED <<site, networks, state, copy, updates, lost>>

AddToNetwork(r) ==
    Load(r) \/ Refuse(r) \/ Change(r) \/ Save(r) \/ Keep(r) \/ SaveFails(r) \/ RequestFault(r)

Update == BeginUpdate \/ FlushUpdate \/ LoseUpdate \/ CommitUpdate \/ UpdateFault

Next ==
    \/ \E r \in Requests : AddToNetwork(r)
    \/ \E n \in Networks : DeleteNetwork(n)
    \/ Update

Spec == Init /\ [][Next]_vars

------------------------------------------------------------------------------
\* Types of the variables.
TenanciesTypeOK ==
    /\ tenancies \subseteq Requests
    /\ version \in Nat
    /\ networks \subseteq Networks
    /\ state \in [Requests -> State]
    /\ copy \in [Requests -> Copy]
    /\ handler \in Handler
    /\ updates \in 0 .. MaxUpdates
    /\ lost \in 0 .. MaxUpdates
    /\ faults \in 0 .. MaxFaults

\* The stored tenancies are those of the requests that got through save(), and no
\* others: concurrent requests and updates of the site drop none of them, and a
\* request that fails on the way leaves none.
TenanciesAreTheAccepted ==
    {Asked[r] : r \in tenancies} = {Asked[r] : r \in {q \in Requests : state[q] = "ok"}}

\* A site is not twice in one network for one period, though each request asks its
\* own copy.
NoTenancyTwice ==
    \A r, q \in tenancies : Asked[r] = Asked[q] => r = q

\* The network of a tenancy exists, as EndpointSecurity takes for granted, though it
\* may be deleted between exists() and save().
TenanciesHaveNetworks ==
    \A r \in tenancies : Asked[r].network \in networks

\* Updates of the site give way to new tenancies only, at most one to each: asking
\* for a tenancy that is there costs no site log its effect.
UpdatesGiveWayToTenancies ==
    lost <= Cardinality(tenancies)

==============================================================================
