--------------------------- MODULE SetupDerivation ---------------------------
(***************************************************************************)
(* CorsSiteService.getSetups(): from the equipment of a site log to the    *)
(* setups of the site.  A setup is a period in which the equipment in use  *)
(* at the site does not change.                                            *)
(*                                                                         *)
(* A site log is a set of equipment log items.  The effective dates of an  *)
(* item are two dates, each possibly null (NoDate); an item without        *)
(* effective dates is treated by the code like one whose dates are both    *)
(* null.  Dates are numbers in the order of time.                          *)
(***************************************************************************)
EXTENDS Integers, FiniteSets

CONSTANTS Dates, NoDate, Types, Equipment

ASSUME DatesAssumption == Dates \subseteq Nat /\ NoDate \notin Dates

\* There is a last date, as there is a last Instant.
ASSUME LastDateAssumption == Dates = {} \/ \E last \in Dates : \A d \in Dates : d <= last

DateOrNull == Dates \union {NoDate}

\* An item is its equipment (type and serial number), its dates, and whether
\* it is marked deleted.  A piece of equipment in use at a setup is recorded
\* as the item that put it there.
LogItem ==
    [type : Types, equipment : Equipment, from : DateOrNull, to : DateOrNull,
     deleted : BOOLEAN]

SetupRecord == [from : Dates, to : DateOrNull, inUse : SUBSET LogItem]

\* Deviation: items marked deleted still count.
CurrentItemsWithDeleted(log) == log

\* siteLog.getEquipmentLogItems(), without the deleted ones
CurrentItems(log) == {i \in log : ~i.deleted}

\* Deviation: only installations change the equipment in use.
InstallationDates(log) == {i.from : i \in CurrentItems(log)} \ {NoDate}

\* The dates at which the equipment in use may change.
DatesOfChange(log) ==
    (UNION {{i.from, i.to} : i \in CurrentItems(log)}) \ {NoDate}

\* The end of the setup that starts at d: the next date of change, if any.
SetupEnd(changes, d) ==
    LET later == {e \in changes : e > d}
    IN  IF later = {} THEN NoDate ELSE CHOOSE e \in later : \A x \in later : e <= x

\* "equipment log entries with empty periods are corrections"
IsCorrection(i) == i.from # NoDate /\ i.from = i.to

\* addEquipment() walks off the end of the setups: no setup starts at null.
Unplaceable(i) == i.from = NoDate /\ i.to # NoDate

\* Deviation: the last setup of the walk is left out.
SpannedButLast(i, changes) ==
    {d \in changes : /\ i.from <= d
                     /\ \A e \in changes : i.from <= e /\ e <= d => SetupEnd(changes, e) # i.to}

\* The setups, by their start, that addEquipment() adds the item to: from the
\* setup that starts with the item through the one that ends with it, or to the
\* last one when no setup does.
Spanned(i, changes) ==
    IF i.from = NoDate THEN changes
    ELSE IF IsCorrection(i) THEN {}
    ELSE {d \in changes :
            /\ i.from <= d
            /\ i.to # NoDate =>
                 \A e \in changes : i.from <= e /\ e < d => SetupEnd(changes, e) # i.to}

\* getSetups() throws IndexOutOfBoundsException.
GetSetupsFails(log) == \E i \in CurrentItems(log) : Unplaceable(i)

GetSetups(log) ==
    LET changes == DatesOfChange(log)
    IN  {[from |-> d, to |-> SetupEnd(changes, d),
          inUse |-> {i \in CurrentItems(log) : d \in Spanned(i, changes)}] : d \in changes}

------------------------------------------------------------------------------
\* What setups are for.

Precedes(d, e) == e = NoDate \/ (d # NoDate /\ d < e)

\* The log says nothing impossible: items start before they end, or together.
WellFormed(log) ==
    \A i \in CurrentItems(log) :
        i.from # NoDate /\ (i.to = NoDate \/ i.from <= i.to)

\* The item is in effect from its first date and until its last one.
InEffect(i, d) == i.from <= d /\ Precedes(d, i.to)

\* The equipment that is installed at a date, by the log alone.
EquipmentAt(log, d) == {i \in log : ~i.deleted /\ InEffect(i, d)}

\* A set of setups covers the time from its first date on without gap or overlap.
IsTimeline(setups) ==
    /\ \A s \in setups : Precedes(s.from, s.to)
    /\ \A s \in setups : s.to # NoDate => \E t \in setups : t.from = s.to
    /\ \A s, t \in setups : s # t => Precedes(s.to, t.from) \/ Precedes(t.to, s.from)
                                     \/ s.to = t.from \/ t.to = s.from

\* The setups say of every date what the log says.
Describes(setups, log) ==
    /\ IsTimeline(setups)
    /\ \A d \in Dates :
          LET here == {s \in setups : s.from <= d /\ Precedes(d, s.to)}
          IN  UNION {s.inUse : s \in here} = EquipmentAt(log, d)

------------------------------------------------------------------------------
\* SetupRepositoryImpl: the queries over the valid setups of a site.

\* A comparison with null is not true in SQL.
AtOrBefore(d, e) == d # NoDate /\ e # NoDate /\ d <= e

ContainedIn(s, start, end) ==
    /\ start # NoDate => AtOrBefore(start, s.from)
    /\ end # NoDate => AtOrBefore(s.to, end)

\* Deviation: an open-ended setup intersects no period.
FindByPeriodClosed(setups, start, end) ==
    {s \in setups :
        \/ ContainedIn(s, start, end)
        \/ start # NoDate /\ AtOrBefore(s.from, start) /\ AtOrBefore(start, s.to)
        \/ end # NoDate /\ AtOrBefore(s.from, end) /\ AtOrBefore(end, s.to)}

\* findBySiteIdAndPeriod(), for a period with at least one bound
FindByPeriod(setups, start, end) ==
    {s \in setups :
        \/ ContainedIn(s, start, end)
        \/ start # NoDate /\ AtOrBefore(s.from, start) /\ AtOrBefore(start, s.to)
        \/ end # NoDate /\ AtOrBefore(s.from, end) /\ (AtOrBefore(end, s.to) \/ s.to = NoDate)}

\* The setups in effect at some date of the period, both bounds included.
InPeriod(setups, start, end) ==
    {s \in setups : /\ end # NoDate => s.from <= end
                    /\ start # NoDate => s.to = NoDate \/ start <= s.to}

==============================================================================
