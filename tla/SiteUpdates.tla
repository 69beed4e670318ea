----------------------------- MODULE SiteUpdates -----------------------------
(***************************************************************************)
(* The setups of one site, from upload to upload of its site log.          *)
(*                                                                         *)
(* CorsSiteLogService.upload() replaces the site log and publishes         *)
(* SiteLogReceived in one transaction.  The event names the site only:     *)
(* CorsSiteService.handle(), called by the thread of the event loop for    *)
(* one event at a time, reads the site log that is there by then.  It      *)
(* reads it with one SELECT for the site log and one for each collection   *)
(* of equipment, and under READ COMMITTED each of them sees what is        *)
(* committed at its own time: an upload in between deletes the rows of the *)
(* old site log, and the remaining SELECTs, by the id of the old one, find *)
(* nothing.  Then the handler derives the setups, invalidates those of the *)
(* table that are no longer among them, adds the new ones and commits.     *)
(***************************************************************************)
EXTENDS SetupDerivation

CONSTANTS
    Logs,          \* the site logs that may be uploaded: sets of items
    MaxUploads,    \* bound on the uploads
    MaxFaults      \* bound on the handlers that are rolled back for no reason of the site log

ASSUME UpdatesAssumption ==
    /\ Logs \subseteq SUBSET LogItem
    /\ MaxUploads \in Nat
    /\ MaxFaults \in Nat

VARIABLES
    siteLog,      \* the site log of the database; {} before the first upload
    uploads,      \* how many site logs were uploaded
    pending,      \* how many SiteLogReceived events the loop has not taken
    pc,           \* "idle", or "reading": a handler is in its transaction
    replaced,     \* the site log the handler began to read has been replaced
    unread,       \* the types of equipment the handler has yet to read
    view,         \* the items it has read
    setups,       \* the rows of the table SETUP
    handled,      \* how many handlers have committed
    rolledBack,   \* the last handler was rolled back
    faults        \* how many handlers were rolled back for no reason of the site log

uploading == <<siteLog, uploads, pending>>
reading == <<pc, unread, view>>
vars == <<uploading, reading, replaced, setups, handled, rolledBack, faults>>

\* A row: the setup, the handler that inserted it, and the flag.
Row == [setup : SetupRecord, created : 0 .. MaxUploads, invalidated : BOOLEAN]

\* setups.findBySiteId()
Valid(rows) == {r \in rows : ~r.invalidated}

SetupsOf(rows) == {r.setup : r \in rows}

Init ==
    /\ siteLog = {}
    /\ uploads = 0
    /\ pending = 0
    /\ pc = "idle"
    /\ replaced = FALSE
    /\ unread = {}
    /\ view = {}
    /\ setups = {}
    /\ handled = 0
    /\ rolledBack = FALSE
    /\ faults = 0

\* CorsSiteLogService.upload(), committed
Upload(items) ==
    /\ uploads < MaxUploads
    /\ siteLog' = items
    /\ uploads' = uploads + 1
    /\ pending' = pending + 1
    /\ replaced' = TRUE
    /\ UNCHANGED <<reading, setups, handled, rolledBack, faults>>

\* Deviation: the event is not marked as taken.
BeginHandleAgain ==
    /\ pc = "idle"
    /\ pending > 0
    /\ pc' = "reading"
    /\ replaced' = FALSE
    /\ unread' = Types
    /\ view' = {}
    /\ UNCHANGED <<uploading, setups, handled, rolledBack, faults>>

\* The loop takes an event and calls the handler, which selects the site log.
BeginHandle ==
    /\ pc = "idle"
    /\ pending > 0
    /\ pc' = "reading"
    /\ pending' = pending - 1
    /\ replaced' = FALSE
    /\ unread' = Types
    /\ view' = {}
    /\ UNCHANGED <<siteLog, uploads, setups, handled, rolledBack, faults>>

\* The SELECT of one collection of equipment
ReadItems(type) ==
    /\ pc = "reading"
    /\ type \in unread
    /\ unread' = unread \ {type}
    /\ view' = view \union {i \in siteLog : i.type = type /\ ~replaced}
    /\ UNCHANGED <<uploading, pc, replaced, setups, handled, rolledBack, faults>>

\* Setup.equals() compares the equipment of two setups pairwise, in the order of the
\* lists.  That of a stored setup is read from EQUIPMENT_IN_USE without an ORDER BY
\* into a List without an @OrderBy or @OrderColumn: in any order.
AnyOrder(setup) == \E i, j \in setup.inUse : i # j

\* EquipmentFactory.getConfiguration() finds the configuration of an item by its
\* first date; an item without one gets a new configuration each time.
NewConfiguration(setup) == \E i \in setup.inUse : i.from = NoDate

Invalidated(rows) == {[r EXCEPT !.invalidated = TRUE] : r \in rows}

Inserted(new) == {[setup |-> s, created |-> handled, invalidated |-> FALSE] : s \in new}

\* The old setups that are among the new ones; the handler does not recognise those
\* that differ in a configuration, nor those of "unequal", compared in another order.
Common(new, unequal) ==
    {r \in Valid(setups) : r.setup \in new /\ r \notin unequal /\ ~NewConfiguration(r.setup)}

\* Deviation: setups that are not derived any more are deleted.
SavedDeleting(new, unequal) ==
    LET common == Common(new, unequal)
    IN  (setups \ (Valid(setups) \ common)) \union Inserted(new \ SetupsOf(common))

\* Deviation: setups that are not derived any more stay valid.
SavedBeside(new, unequal) == setups \union Inserted(new \ SetupsOf(Common(new, unequal)))

\* The table after the handler has derived the setups "new"
Saved(new, unequal) ==
    LET common == Common(new, unequal)
        gone == Valid(setups) \ common
    IN  (setups \ gone) \union Invalidated(gone) \union Inserted(new \ SetupsOf(common))

\* Deviation: the events that came in meanwhile count as handled.
HandleCommitAll ==
    /\ pc = "reading"
    /\ unread = {}
    /\ ~GetSetupsFails(view)
    /\ \E unequal \in SUBSET {r \in Valid(setups) : AnyOrder(r.setup)} :
          setups' = Saved(GetSetups(view), unequal)
    /\ handled' = handled + 1
    /\ rolledBack' = FALSE
    /\ pc' = "idle"
    /\ view' = {}
    /\ pending' = 0
    /\ UNCHANGED <<siteLog, uploads, replaced, unread, faults>>

\* The handler derives the setups from what it has read, saves them and commits.
HandleCommit ==
    /\ pc = "reading"
    /\ unread = {}
    /\ ~GetSetupsFails(view)
    /\ \E unequal \in SUBSET {r \in Valid(setups) : AnyOrder(r.setup)} :
          setups' = Saved(GetSetups(view), unequal)
    /\ handled' = handled + 1
    /\ rolledBack' = FALSE
    /\ pc' = "idle"
    /\ view' = {}
    /\ UNCHANGED <<uploading, replaced, unread, faults>>

\* Deviation: setups that are not valid any more are found as well.
FindCurrentOfAll(rows) == {r \in rows : r.setup.to = NoDate}

\* findCurrentBySiteId(): the caller throws unless this is one row.
FindCurrent(rows) == {r \in Valid(rows) : r.setup.to = NoDate}

\* The transaction of the handler ends without effect, and the event is gone.
HandlerRollsBack ==
    /\ rolledBack' = TRUE
    /\ pc' = "idle"
    /\ unread' = {}
    /\ view' = {}
    /\ UNCHANGED <<uploading, replaced, setups, handled>>

\* Deviation: the events that came in meanwhile fail with the one at hand.
HandleFailAll ==
    /\ pc = "reading"
    /\ unread = {}
    /\ GetSetupsFails(view)
    /\ rolledBack' = TRUE
    /\ pc' = "idle"
    /\ view' = {}
    /\ pending' = 0
    /\ UNCHANGED <<siteLog, uploads, replaced, unread, setups, handled, faults>>

\* getSetups() throws.
HandleFail ==
    /\ pc = "reading"
    /\ unread = {}
    /\ GetSetupsFails(view)
    /\ HandlerRollsBack
    /\ UNCHANGED faults

\* The program is killed, or the database fails, while the handler is at work.
HandlerFault ==
    /\ pc = "reading"
    /\ faults < MaxFaults
    /\ HandlerRollsBack
    /\ faults' = faults + 1

CorsSiteService ==
    \/ BeginHandle
    \/ \E type \in Types : ReadItems(type)
    \/ HandleCommit
    \/ HandleFail

Next ==
    \/ \E items \in Logs : Upload(items)
    \/ CorsSiteService
    \/ HandlerFault

Spec == Init /\ [][Next]_vars

\* The thread of the event loop keeps running.  Nothing else is promised: sites
\* need not upload anything.
FairSpec == Spec /\ WF_vars(CorsSiteService)

------------------------------------------------------------------------------
\* Types of the variables, for TLC; it says nothing about the code's behaviour
\* beyond the bounds of its counters.
TypeOK ==
    /\ siteLog \in Logs \union {{}}
    /\ uploads \in 0 .. MaxUploads
    /\ pending \in 0 .. uploads
    /\ pc \in {"idle", "reading"}
    /\ replaced \in BOOLEAN
    /\ unread \subseteq Types
    /\ view \subseteq UNION Logs
    /\ \A r \in setups : /\ r.setup.from \in Dates
                         /\ r.setup.to \in DateOrNull
                         /\ r.setup.inUse \subseteq UNION Logs
                         /\ r.created < handled
                         /\ r.invalidated \in BOOLEAN
    /\ handled \in 0 .. uploads
    /\ rolledBack \in BOOLEAN
    /\ faults \in 0 .. MaxFaults

Current == SetupsOf(Valid(setups))

\* Whatever the handlers read while uploads went on, the valid setups of the
\* site are one uninterrupted sequence of periods at every moment: at most one
\* is in effect at a date, as findCurrentBySiteId() relies on.
ValidSetupsAreTimeline == IsTimeline(Current)

\* At every moment at which a site has a valid setup, findCurrentBySiteId() finds
\* one row and no other, and it is the one in effect from the last date of change on.
CurrentSetupIsFound ==
    Valid(setups) # {} =>
        \E r \in Valid(setups) :
            /\ FindCurrent(setups) = {r}
            /\ \A q \in Valid(setups) : q.setup.from <= r.setup.from

\* When every event is handled and the last handler was not rolled back, the
\* valid setups say of every date which equipment was installed, as the site log
\* says it: whichever events were overtaken by uploads, and whatever the handlers
\* of the overtaken ones had read (CorsSiteService.handle).
Settled == pc = "idle" /\ pending = 0 /\ ~rolledBack

SettledSetupsDescribeLog ==
    Settled /\ WellFormed(siteLog) => Describes(Current, siteLog)

\* A site log that getSetups() cannot place costs the site the update for that log and
\* no other: as long as no handler fails for another reason, the valid setups describe
\* the site log whenever all is quiet and it is well-formed, also when it came while the
\* handler of the other one was failing (CorsSiteService.addEquipment).
FailuresCostOneUpdate ==
    faults = 0 /\ pc = "idle" /\ pending = 0 /\ WellFormed(siteLog) =>
        Describes(Current, siteLog)

\* The table of setups is a history: no row is deleted or changed, and a setup
\* that is not valid any more never becomes valid again (Setup.invalidate).
HistoryIsKept ==
    [][\A r \in setups : r \in setups' \/ (~r.invalidated /\ Invalidated({r}) \subseteq setups')]_vars

ReplacedByEqual(r) ==
    \E q \in Valid(setups') : q.setup = r.setup /\ q.created # r.created

\* A handler replaces no setup by one equal to it, as the nodes of a setup are
\* invalidated with it.  The test KeepUnmodifiedNodesAndSetupsITest uploads a log
\* twice and asserts that the setups are those of the first time.
EveryUnmodifiedSetupIsKept == [][\A r \in Valid(setups) : ~ReplacedByEqual(r)]_vars

\* findBySiteIdAndPeriod() finds only setups of the period, and all of them when
\* the period has an end.
Period(start, end) ==
    /\ start # NoDate \/ end # NoDate
    /\ start # NoDate /\ end # NoDate => start <= end

PeriodsAreFound ==
    \A start, end \in DateOrNull :
        Period(start, end) =>
            /\ FindByPeriod(Current, start, end) \subseteq InPeriod(Current, start, end)
            /\ end # NoDate =>
                 FindByPeriod(Current, start, end) = InPeriod(Current, start, end)

\* "Find all Setups at a Site for a period of interest", whether or not the
\* period has an end.
AllOfPeriodAreFound ==
    \A start, end \in DateOrNull :
        Period(start, end) =>
            InPeriod(Current, start, end) \subseteq FindByPeriod(Current, start, end)

\* The setups come to describe the last of the site logs and stay so, unless its
\* handler was rolled back for another reason than the log.
SetupsCatchUp ==
    <>[](\/ rolledBack /\ faults > 0
         \/ WellFormed(siteLog) => Describes(Current, siteLog))

==============================================================================
