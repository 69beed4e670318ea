---------------------------- MODULE SiteLogUpload ----------------------------
(***************************************************************************)
(* Uploads of site logs of one site, at the same time.                     *)
(*                                                                         *)
(* CorsSiteLogService.upload() is a transaction: it selects the site log   *)
(* with the four character id, deletes it if there is one, inserts the new *)
(* one and the SiteLogReceived event.  Deletions and insertions are sent   *)
(* when the transaction commits.  READ COMMITTED lets two transactions     *)
(* select the same row; the second DELETE then waits for the first, finds  *)
(* nothing, and Hibernate rolls back what deletes fewer rows than it       *)
(* should.  Nothing holds up two insertions: the column of the four        *)
(* character id has no constraint.                                         *)
(***************************************************************************)
EXTENDS FiniteSets, Naturals

CONSTANTS
    Uploads,     \* the requests
    First,       \* the site log of a site that has one before them
    MaxFaults    \* bound on the uploads that are stopped

ASSUME UploadsAssumption ==
    /\ First \notin Uploads
    /\ MaxFaults \in Nat

VARIABLES
    known,       \* whether the site has a site log before the uploads; never changes
    siteLogs,    \* the rows of SITELOG_SITE for the site, by upload
    events,      \* the uploads whose event is stored
    state,       \* where each upload is
    found,       \* the site log it selected: none or one
    seen,        \* history: the events that were stored when it did
    faults       \* how many uploads were stopped

vars == <<known, siteLogs, events, state, found, seen, faults>>

\* "stale": the site log to delete is gone; "ambiguous": there are two of them.
State == {"new", "selected", "committed", "stale", "ambiguous", "stopped"}

Init ==
    /\ known \in BOOLEAN
    /\ siteLogs = IF known THEN {First} ELSE {}
    /\ events = {}
    /\ state = [u \in Uploads |-> "new"]
    /\ found = [u \in Uploads |-> {}]
    /\ seen = [u \in Uploads |-> {}]
    /\ faults = 0

IsOneAtMost(rows) == \A r, q \in rows : r = q

\* findByFourCharacterId() finds none or one,
Select(u) ==
    /\ state[u] = "new"
    /\ IsOneAtMost(siteLogs)
    /\ state' = [state EXCEPT ![u] = "selected"]
    /\ found' = [found EXCEPT ![u] = siteLogs]
    /\ seen' = [seen EXCEPT ![u] = events]
    /\ UNCHANGED <<known, siteLogs, events, faults>>

\* or throws.
SelectFails(u) ==
    /\ state[u] = "new"
    /\ ~IsOneAtMost(siteLogs)
    /\ state' = [state EXCEPT ![u] = "ambiguous"]
    /\ UNCHANGED <<known, siteLogs, events, found, seen, faults>>

\* Deviation: nobody minds that the row to delete is gone.
CommitAnyway(u) ==
    /\ state[u] = "selected"
    /\ siteLogs' = (siteLogs \ found[u]) \union {u}
    /\ events' = events \union {u}
    /\ state' = [state EXCEPT ![u] = "committed"]
    /\ UNCHANGED <<known, found, seen, faults>>

\* Deviation: the event is stored by a transaction of its own.
CommitWithoutEvent(u) ==
    /\ state[u] = "selected"
    /\ found[u] \subseteq siteLogs
    /\ siteLogs' = (siteLogs \ found[u]) \union {u}
    /\ state' = [state EXCEPT ![u] = "committed"]
    /\ UNCHANGED <<known, events, found, seen, faults>>

\* The transaction deletes the row it has found, inserts its own and the event.
Commit(u) ==
    /\ state[u] = "selected"
    /\ found[u] \subseteq siteLogs
    /\ siteLogs' = (siteLogs \ found[u]) \union {u}
    /\ events' = events \union {u}
    /\ state' = [state EXCEPT ![u] = "committed"]
    /\ UNCHANGED <<known, found, seen, faults>>

\* Deviation: two uploads that found the same row get in each other's way.
CommitFailsOnConflict(u) ==
    /\ state[u] = "selected"
    /\ \/ ~(found[u] \subseteq siteLogs)
       \/ \E v \in Uploads \ {u} : state[v] = "selected" /\ found[v] = found[u]
    /\ state' = [state EXCEPT ![u] = "stale"]
    /\ UNCHANGED <<known, siteLogs, events, found, seen, faults>>

\* The DELETE finds no row: StaleStateException, and everything is rolled back.
CommitFails(u) ==
    /\ state[u] = "selected"
    /\ ~(found[u] \subseteq siteLogs)
    /\ state' = [state EXCEPT ![u] = "stale"]
    /\ UNCHANGED <<known, siteLogs, events, found, seen, faults>>

\* The program is killed, or the database fails, during an upload.
Stop(u) ==
    /\ state[u] \in {"new", "selected"}
    /\ faults < MaxFaults
    /\ faults' = faults + 1
    /\ state' = [state EXCEPT ![u] = "stopped"]
    /\ UNCHANGED <<known, siteLogs, events, found, seen>>

Next ==
    \E u \in Uploads :
        Select(u) \/ SelectFails(u) \/ Commit(u) \/ CommitFails(u) \/ Stop(u)

Spec == Init /\ [][Next]_vars

------------------------------------------------------------------------------
\* Types of the variables, for TLC; there is an event for each accepted upload.
TypeOK ==
    /\ known \in BOOLEAN
    /\ siteLogs \subseteq Uploads \union {First}
    /\ events = {u \in Uploads : state[u] = "committed"}
    /\ state \in [Uploads -> State]
    /\ found \in [Uploads -> SUBSET (Uploads \union {First})]
    /\ seen \in [Uploads -> SUBSET Uploads]
    /\ faults \in 0 .. MaxFaults

\* A site that has a site log keeps having one, which each accepted upload
\* replaces as a whole, together with its event, however uploads overlap.  Of a site
\* without one nothing is promised: the store stays as it was.
Store == INSTANCE SiteLogStore WITH
    log <- IF known THEN CHOOSE u \in siteLogs : TRUE ELSE First,
    announced <- IF known THEN events ELSE {}

ReplacesOneByOne == Store!Spec

\* An upload is refused as stale only when another one was accepted after it had
\* selected its site log: of uploads that overlap, one goes through.
StaleUploadsWereOvertaken ==
    \A u \in Uploads : state[u] = "stale" =>
        \E v \in events \ seen[u] : state[v] = "committed"

\* The stored site logs are as many as the accepted uploads that found none.  As
\* no upload takes that back, a site that got two site logs keeps them.
LogsAreFirstUploads ==
    ~known => Cardinality(siteLogs) =
                  Cardinality({u \in Uploads : state[u] = "committed" /\ found[u] = {}})

\* "four character unique identifier of a gnss site" (SITELOG_SITE)
FourCharacterIdIsUnique == IsOneAtMost(siteLogs)

==============================================================================
