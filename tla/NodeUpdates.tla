----------------------------- MODULE NodeUpdates -----------------------------
(***************************************************************************)
(* The nodes of one site, composed with the updates of its setups.         *)
(*                                                                         *)
(* When CorsSiteService.handle() commits, it publishes SiteUpdated.        *)
(* NodeService.handle() takes one of these events, in the thread that      *)
(* runs CorsSiteService.handle() too, invalidates the nodes of invalidated *)
(* setups and then visits the valid setups, in whatever order the SELECT   *)
(* gives them.  A setup with a receiver and an antenna gets a node for the *)
(* period in which the receiver, the antenna and the clock in use stay the *)
(* same; the setups that begin in that period are passed over.  It is one  *)
(* transaction, modelled with a step for each setup: "saved" is the table  *)
(* as the transaction has it, "nodes" the table as it is committed.        *)
(***************************************************************************)
EXTENDS SiteUpdates

CONSTANTS
    Receiver, Antenna, Clock,    \* the types that matter to a node
    Second           \* how many of the dates fall into one second

ASSUME NodesAssumption ==
    /\ Second \in Nat \ {0}
    /\ Cardinality({Receiver, Antenna, Clock}) = 3

VARIABLES
    updated,         \* how many SiteUpdated events the loop has not taken
    walk,            \* "idle", or "walking": a handler is in its transaction
    unvisited,       \* the setups it has yet to visit
    nodePeriod,      \* the period of the last setup with a node, {} for null
    saved,           \* the table NODE as the transaction sees it
    nodes,           \* the table NODE
    nodesHandled,    \* how many of these handlers have committed
    nodesRolledBack, \* the last of them was rolled back
    chronological    \* whether the SELECTs give setups in the order of time; never changes

walking == <<walk, unvisited, nodePeriod, saved>>
nodeVars == <<updated, walking, nodes, nodesHandled, nodesRolledBack, chronological>>

Significant == {Receiver, Antenna, Clock}

PeriodRecord == [from : DateOrNull, to : DateOrNull]

\* What SETUP_ID refers to.
SetupId(r) == [setup |-> r.setup, created |-> r.created]

NodesInit ==
    /\ Init
    /\ updated = 0
    /\ walk = "idle"
    /\ unvisited = {}
    /\ nodePeriod = {}
    /\ saved = {}
    /\ nodes = {}
    /\ nodesHandled = 0
    /\ nodesRolledBack = FALSE
    /\ chronological \in BOOLEAN

------------------------------------------------------------------------------
\* Deviation: a node stays as valid as it was.
NodesOfInvalidatedKept(table) == table

\* The table after the nodes of invalidated setups have been invalidated
NodesInvalidated(table) ==
    LET gone == {SetupId(r) : r \in {q \in setups : q.invalidated}}
    IN  {[n EXCEPT !.invalidated = n.invalidated \/ n.setupId \in gone] : n \in table}

HasType(s, type) == \E i \in s.inUse : i.type = type

\* Deviation: a setup is complete with a receiver.
IsCompleteWithReceiver(s) == HasType(s, Receiver)

\* isCompleteCorsSetup()
IsComplete(s) == HasType(s, Receiver) /\ HasType(s, Antenna)

\* getOneEquipmentInUse() for each of the types: of several in use, the first
\* of a list without an order.
OneOfEachInUse(s) ==
    {picked \in SUBSET {i \in s.inUse : i.type \in Significant} :
        \A type \in Significant : HasType(s, type) =>
            \E i \in picked : {j \in picked : j.type = type} = {i}}

\* The latest of the beginnings; null is lower than any.
LatestFrom(items) ==
    LET froms == {i.from : i \in items} \ {NoDate}
    IN  IF froms = {} THEN NoDate ELSE CHOOSE d \in froms : \A e \in froms : e <= d

\* The earliest of the ends; null is higher than any.
EarliestTo(items) ==
    LET tos == {i.to : i \in items} \ {NoDate}
    IN  IF tos = {} THEN NoDate ELSE CHOOSE d \in tos : \A e \in tos : d <= e

\* Deviation: the latest of the ends.
LongestPeriod(items) ==
    LET tos == {i.to : i \in items}
    IN  [from |-> LatestFrom(items),
         to |-> IF NoDate \in tos THEN NoDate ELSE CHOOSE d \in tos : \A e \in tos : e <= d]

\* Deviation: the beginnings and the ends are swapped.
SwappedPeriod(items) == [from |-> EarliestTo(items), to |-> LatestFrom(items)]

\* lcd(): the period in which all of the equipment is in use
CommonPeriod(items) == [from |-> LatestFrom(items), to |-> EarliestTo(items)]

NodePeriods(s) == {CommonPeriod(items) : items \in OneOfEachInUse(s)}

\* Instant.compareTo(): the sign for instants of different seconds, the
\* difference in the smallest unit for instants of the same second
CompareTo(d, e) ==
    IF d \div Second # e \div Second
    THEN IF d < e THEN -1 ELSE 1
    ELSE d - e

\* The loop over the setups ends.
IsOpenEnded == \E p \in nodePeriod : p.to = NoDate

\* Deviation: a setup that begins with the end of the last node is passed over.
IsPassedOverAtEnd(s) ==
    \E p \in nodePeriod : p.to # NoDate /\ CompareTo(p.to, s.from) >= 0

\* Deviation: the period of the last node is not looked at.
IsNeverPassedOver(s) == FALSE

\* A setup that begins in the period of the last node gets no node.
IsPassedOver(s) ==
    \E p \in nodePeriod : p.to # NoDate /\ CompareTo(p.to, s.from) = 1

HasNode(r, table) == \E n \in table : n.setupId = SetupId(r)

NewNode(r, period) ==
    [setupId |-> SetupId(r), period |-> period, created |-> nodesHandled,
     invalidated |-> FALSE]

\* Deviation: nobody asks whether the setup has a node.
WithNewNode(r, period, table) == table \union {NewNode(r, period)}

WithNode(r, period, table) ==
    IF HasNode(r, table) THEN table ELSE table \union {NewNode(r, period)}

------------------------------------------------------------------------------
\* Deviation: the event is not marked as taken.
BeginNodesAgain ==
    /\ pc = "idle" /\ walk = "idle"
    /\ updated > 0
    /\ walk' = "walking"
    /\ unvisited' = Valid(setups)
    /\ nodePeriod' = {}
    /\ saved' = NodesInvalidated(nodes)
    /\ UNCHANGED <<vars, updated, nodes, nodesHandled, nodesRolledBack, chronological>>

\* The loop takes an event and calls NodeService.handle(), which invalidates
\* nodes and selects the setups.
BeginNodes ==
    /\ pc = "idle" /\ walk = "idle"
    /\ updated > 0
    /\ walk' = "walking"
    /\ updated' = updated - 1
    /\ unvisited' = Valid(setups)
    /\ nodePeriod' = {}
    /\ saved' = NodesInvalidated(nodes)
    /\ UNCHANGED <<vars, nodes, nodesHandled, nodesRolledBack, chronological>>

\* The next setup of the list
IsNext(r) ==
    /\ walk = "walking"
    /\ r \in unvisited
    /\ ~IsOpenEnded
    /\ chronological => \A q \in unvisited : r.setup.from <= q.setup.from

PassOver(r) ==
    /\ IsNext(r)
    /\ IsPassedOver(r.setup) \/ ~IsComplete(r.setup)
    /\ unvisited' = unvisited \ {r}
    /\ UNCHANGED <<vars, updated, walk, nodePeriod, saved>>
    /\ UNCHANGED <<nodes, nodesHandled, nodesRolledBack, chronological>>

\* The setup has a node by now, or gets one.
VisitComplete(r) ==
    /\ IsNext(r)
    /\ ~IsPassedOver(r.setup)
    /\ IsComplete(r.setup)
    /\ unvisited' = unvisited \ {r}
    /\ \E period \in NodePeriods(r.setup) :
          /\ nodePeriod' = {period}
          /\ saved' = WithNode(r, period, saved)
    /\ UNCHANGED <<vars, updated, walk, nodes, nodesHandled, nodesRolledBack, chronological>>

WalkEnds ==
    /\ walk' = "idle"
    /\ unvisited' = {}
    /\ nodePeriod' = {}
    /\ saved' = {}

\* Deviation: the loop over the setups ends with the first node.
NodesCommitEarly ==
    /\ walk = "walking"
    /\ unvisited = {} \/ nodePeriod # {}
    /\ nodes' = saved
    /\ nodesHandled' = nodesHandled + 1
    /\ nodesRolledBack' = FALSE
    /\ WalkEnds
    /\ UNCHANGED <<vars, updated, chronological>>

NodesCommit ==
    /\ walk = "walking"
    /\ unvisited = {} \/ IsOpenEnded
    /\ nodes' = saved
    /\ nodesHandled' = nodesHandled + 1
    /\ nodesRolledBack' = FALSE
    /\ WalkEnds
    /\ UNCHANGED <<vars, updated, chronological>>

\* The program is killed, or the database fails, while the handler is at work:
\* its transaction has no effect and the event is gone.
NodesFault ==
    /\ walk = "walking"
    /\ faults < MaxFaults
    /\ faults' = faults + 1
    /\ nodesRolledBack' = TRUE
    /\ WalkEnds
    /\ UNCHANGED <<uploading, reading, replaced, setups, handled, rolledBack>>
    /\ UNCHANGED <<updated, nodes, nodesHandled, chronological>>

NodeService ==
    \/ BeginNodes
    \/ \E r \in unvisited : PassOver(r) \/ VisitComplete(r)
    \/ NodesCommit

------------------------------------------------------------------------------
\* CorsSiteService.handle() commits together with its SiteUpdated event, and
\* both handlers wait for the one thread of the loop.
SiteServiceStep ==
    \/ HandleCommit /\ updated' = updated + 1
    \/ BeginHandle /\ walk = "idle" /\ UNCHANGED updated
    \/ (\E type \in Types : ReadItems(type)) /\ UNCHANGED updated
    \/ HandleFail /\ UNCHANGED updated

Unrelated ==
    \/ \E items \in Logs : Upload(items)
    \/ HandlerFault

EventLoopStep ==
    \/ SiteServiceStep /\ UNCHANGED <<walking, nodes, nodesHandled, nodesRolledBack, chronological>>
    \/ NodeService

NodesNext ==
    \/ Unrelated /\ UNCHANGED nodeVars
    \/ EventLoopStep
    \/ NodesFault

NodesSpec == NodesInit /\ [][NodesNext]_<<vars, nodeVars>>

\* The thread of the event loop keeps running.
NodesFairSpec == NodesSpec /\ WF_<<vars, nodeVars>>(EventLoopStep)

------------------------------------------------------------------------------
\* Types of the variables of this module, for TLC.
NodeTable(table) ==
    \A n \in table : /\ \E r \in setups : SetupId(r) = n.setupId
                     /\ n.period \in PeriodRecord
                     /\ n.created \in Nat
                     /\ n.invalidated \in BOOLEAN

NodesTypeOK ==
    /\ updated \in 0 .. handled
    /\ walk \in {"idle", "walking"}
    /\ walk = "walking" => pc = "idle"
    /\ unvisited \subseteq Valid(setups)
    /\ nodePeriod \subseteq PeriodRecord
    /\ NodeTable(saved)
    /\ NodeTable(nodes)
    /\ nodesHandled \in 0 .. handled
    /\ nodesRolledBack \in BOOLEAN
    /\ chronological \in BOOLEAN

\* No setup has two nodes, valid or not, after any number of handlers that visit
\* it: findBySetupId() expects one row, and throws for more (NodeService.handle).
OneNodePerSetup == \A n, m \in nodes : n.setupId = m.setupId => n = m

NodesSettled == updated = 0 /\ walk = "idle" /\ ~nodesRolledBack

ValidNodes == {n \in nodes : ~n.invalidated}

\* A node is invalidated only with its setup and, when every SiteUpdated event is
\* handled, always with it, also if handlers before the last were rolled back.
NodesFollowSetups ==
    \A n \in nodes, r \in setups : n.setupId = SetupId(r) =>
        /\ n.invalidated => r.invalidated
        /\ NodesSettled /\ r.invalidated => n.invalidated

ItemsWellFormed(s) ==
    \A i \in s.inUse : i.from # NoDate /\ i.to # NoDate => i.from <= i.to

\* The period of a node contains the period of its setup: the equipment the node
\* stands for does not change while the setup lasts (NodeService.lcd).
NodeContainsItsSetup ==
    \A n \in nodes : ItemsWellFormed(n.setupId.setup) =>
        /\ n.period.from = NoDate \/ n.period.from <= n.setupId.setup.from
        /\ n.period.to = NoDate \/ Precedes(n.setupId.setup.to, n.period.to)
                                \/ n.setupId.setup.to = n.period.to

\* The equipment that matters to a node is the one the code finds first: setups
\* with two receivers, antennas or clocks at a time may have either.
Ambiguous(s) ==
    \E i, j \in s.inUse : i # j /\ i.type = j.type /\ i.type \in Significant

\* When everything is handled, a valid setup with a receiver and an antenna has a
\* node, or there is one that lasts beyond the beginning of the setup; in any
\* order of the setups.
NodelessSetupsWerePassedOver ==
    NodesSettled /\ (\A s \in Current : ~Ambiguous(s)) =>
        \A r \in Valid(setups) : IsComplete(r.setup) =>
            \/ HasNode(r, ValidNodes)
            \/ \E n \in ValidNodes : Precedes(r.setup.from, n.period.to)

NodeInEffect(n, d) == (n.period.from = NoDate \/ n.period.from <= d) /\ Precedes(d, n.period.to)

\* When everything is handled and the setups came in the order of time, there is a
\* valid node for every date at which a receiver and an antenna are installed.
NodesCoverCompleteSetups ==
    chronological /\ NodesSettled /\ (\A s \in Current : ~Ambiguous(s) /\ ItemsWellFormed(s)) =>
        \A s \in Current, d \in Dates :
            IsComplete(s) /\ s.from <= d /\ Precedes(d, s.to) =>
                \E n \in ValidNodes : NodeInEffect(n, d)

\* Nothing was unclear about any setup the site ever had: a node keeps the period it
\* was given, whatever the other setups become.
HistoryIsClear == \A r \in setups : ~Ambiguous(r.setup) /\ ItemsWellFormed(r.setup)

SameSecond(d, e) == d \div Second = e \div Second

\* Two nodes with clocks are in effect at one date only if they are of the same period,
\* in any order of the setups; in the order of time only if one of their setups begins
\* within the second in which that period ends, where compareTo() may give more than 1;
\* unless a site log, the last or an earlier one, was unclear (NodeService.handle).
NodesOverlapOnlyInSecond ==
    NodesSettled /\ HistoryIsClear =>
        \A n, m \in ValidNodes, d \in Dates :
            /\ n # m /\ NodeInEffect(n, d) /\ NodeInEffect(m, d)
            /\ HasType(n.setupId.setup, Clock) /\ HasType(m.setupId.setup, Clock)
            => /\ n.period = m.period
               /\ chronological =>
                    /\ n.period.to # NoDate
                    /\ \E s \in {n.setupId.setup, m.setupId.setup} :
                          SameSecond(n.period.to, s.from)

\* A receiver and an antenna are installed at a date, by the site log alone.
StationAt(d) == {Receiver, Antenna} \subseteq {i.type : i \in EquipmentAt(siteLog, d)}

NodeAt(d) == \E n \in ValidNodes : NodeInEffect(n, d)

\* No node is in effect where the site log has no receiver or no antenna.  Where it has
\* both there is one: with the setups in the order of time at every date, in another
\* order since the last change of equipment, while earlier periods may be without.
NodesDescribeLog ==
    WellFormed(siteLog) /\ (\A s \in Current : ~Ambiguous(s)) =>
        \A d \in Dates :
            /\ NodeAt(d) => StationAt(d)
            /\ chronological \/ (\A c \in DatesOfChange(siteLog) : c <= d) =>
                  (StationAt(d) => NodeAt(d))

\* The nodes describe the last site log whenever every event is handled, whatever the
\* uploads before it were and whichever of the handlers before the last ones were rolled
\* back or overtaken (NodeService.handle).
SettledNodesDescribeLog == Settled /\ NodesSettled => NodesDescribeLog

\* The nodes come to describe the last site log and stay so, unless one of the last two
\* handlers was rolled back (SiteLogReceived, then SiteUpdated) for another reason than
\* the log.
NodesCatchUp ==
    <>[](\/ faults > 0 /\ (rolledBack \/ nodesRolledBack)
         \/ NodesDescribeLog)

==============================================================================
