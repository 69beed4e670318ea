-------------------------- MODULE NodeUpdatesProofs --------------------------
(***************************************************************************)
(* The nodes of a site under any uploads: the proofs of the safety         *)
(* properties of NodeUpdates, for every set of site logs and every bound.  *)
(*                                                                         *)
(* Three things are needed of the setups beyond SetupsInv: what the dates  *)
(* of their equipment are (Fits), that equipment of a valid setup is       *)
(* removed where a valid setup ends (EndsMeet), and that SETUP_ID refers   *)
(* to one row (OneRowPerId).  On these rests what the walk over the setups *)
(* has achieved before each of its steps (Done, LastNode).                 *)
(***************************************************************************)
EXTENDS NodeUpdates, SiteUpdatesProofs

------------------------------------------------------------------------------
\* The dates of equipment in use.

\* A setup lies in the period of its equipment, if that period is one.
Fits(s) ==
    \A i \in s.inUse :
        /\ i.from # NoDate => i.from <= s.from
        /\ i.from = NoDate => i.to = NoDate
        /\ i.to # NoDate /\ i.from <= i.to => s.to # NoDate /\ s.to <= i.to

\* Where equipment is removed, no setup goes on.
EndsMeet(group) ==
    \A s, t \in group : \A i \in s.inUse :
        i.to # NoDate /\ t.from < i.to => t.to # NoDate /\ t.to <= i.to

LEMMA DerivedFits ==
    ASSUME NEW log \in SUBSET LogItem, ~GetSetupsFails(log), NEW s \in GetSetups(log)
    PROVE  Fits(s)
<1> DEFINE changes == DatesOfChange(log)
<1>1. changes \in SUBSET Dates /\ changes \subseteq Nat
  BY DatesOfChangeAreDates, DatesAssumption
<1>2. PICK c \in changes :
         s = [from |-> c, to |-> SetupEnd(changes, c),
              inUse |-> {i \in CurrentItems(log) : c \in Spanned(i, changes)}]
  BY DEF GetSetups
<1>3. /\ s.from = c /\ s.to = SetupEnd(changes, c)
      /\ s.inUse = {i \in CurrentItems(log) : c \in Spanned(i, changes)}
  BY <1>2
<1>4. \/ SetupEnd(changes, c) = NoDate /\ \A e \in changes : e <= c
      \/ /\ SetupEnd(changes, c) \in changes
         /\ c < SetupEnd(changes, c)
         /\ \A e \in changes : c < e => SetupEnd(changes, c) <= e
  BY <1>1, SetupEndIsNext
<1>5. SUFFICES ASSUME NEW i \in CurrentItems(log), c \in Spanned(i, changes)
               PROVE  /\ i.from # NoDate => i.from <= c
                      /\ i.from = NoDate => i.to = NoDate
                      /\ i.to # NoDate /\ i.from <= i.to =>
                            SetupEnd(changes, c) # NoDate /\ SetupEnd(changes, c) <= i.to
  BY <1>3 DEF Fits
<1>6. /\ i \in LogItem
      /\ i.from # NoDate => i.from \in changes
      /\ i.to # NoDate => i.to \in changes
  BY DatesOfChangeAreDates DEF CurrentItems
<1>7. i.from = NoDate => i.to = NoDate
  BY DEF GetSetupsFails, Unplaceable
<1> HIDE DEF changes
<1>8. i.from # NoDate => i.from <= c
  BY <1>5 DEF Spanned
<1>9. ASSUME i.to # NoDate, i.from <= i.to
      PROVE  SetupEnd(changes, c) # NoDate /\ SetupEnd(changes, c) <= i.to
  <2>1. i.from \in changes /\ i.to \in changes /\ i.to \in Nat /\ c \in Nat
    BY <1>1, <1>6, <1>7, <1>9
  <2>2. Precedes(c, SetupEnd(changes, c))
    BY <1>1, <1>4, DatesAssumption DEF Precedes
  <2>3. InEffect(i, c)
    BY <1>1, <1>5, <1>6, <1>9, <2>1, <2>2, SpannedIsInEffect
  <2>4. c < i.to
    BY <1>9, <2>3 DEF InEffect, Precedes
  <2>5. SetupEnd(changes, c) \in changes /\ SetupEnd(changes, c) <= i.to
    BY <1>4, <2>1, <2>4
  <2>. QED  BY <1>1, <2>5, DatesAssumption
<1>. QED  BY <1>7, <1>8, <1>9

LEMMA DerivedEndsMeet ==
    ASSUME NEW log \in SUBSET LogItem
    PROVE  EndsMeet(GetSetups(log))
<1> DEFINE changes == DatesOfChange(log)
<1>1. changes \in SUBSET Dates /\ changes \subseteq Nat
  BY DatesOfChangeAreDates, DatesAssumption
<1>2. SUFFICES ASSUME NEW s \in GetSetups(log), NEW t \in GetSetups(log), NEW i \in s.inUse,
                      i.to # NoDate, t.from < i.to
               PROVE  t.to # NoDate /\ t.to <= i.to
  BY DEF EndsMeet
<1>3. i.to \in changes
  BY <1>2, DatesOfChangeAreDates DEF GetSetups
<1>4. t.from \in changes /\ t.to = SetupEnd(changes, t.from)
  BY DEF GetSetups
<1> HIDE DEF changes
<1>5. SetupEnd(changes, t.from) \in changes /\ SetupEnd(changes, t.from) <= i.to
  <2>1. i.to \in Nat /\ t.from \in Nat
    BY <1>1, <1>3, <1>4
  <2>2. ~(\A e \in changes : e <= t.from)
    <3>1. ~(i.to <= t.from)
      BY <1>2, <2>1
    <3>. QED  BY <1>3, <3>1
  <2>. QED  BY <1>1, <1>2, <1>3, <1>4, <2>2, SetupEndIsNext
<1>. QED  BY <1>1, <1>4, <1>5, DatesAssumption

------------------------------------------------------------------------------
\* The period of a node.

\* Of equipment that fits the setup, the latest beginning and the earliest end exist.
LEMMA LatestFromIsFrom ==
    ASSUME NEW items \in SUBSET LogItem, NEW c \in Dates,
           \A i \in items : i.from # NoDate => i.from <= c
    PROVE  \/ LatestFrom(items) = NoDate
           \/ LatestFrom(items) \in Dates /\ LatestFrom(items) <= c
<1> DEFINE froms == {i.from : i \in items} \ {NoDate}
<1>1. froms \in SUBSET Nat /\ froms \subseteq Dates /\ c \in Nat /\ \A d \in froms : d <= c
  BY DatesAssumption DEF LogItem, DateOrNull
<1>2. CASE froms = {}
  BY <1>2 DEF LatestFrom
<1>3. CASE froms # {}
  <2>1. PICK x \in froms : TRUE
    BY <1>3
  <2> HIDE DEF froms
  <2>2. froms \in SUBSET Nat /\ c \in Nat /\ x \in froms /\ x <= c
    BY <1>1, <2>1
  <2>3. PICK d \in froms : d <= c /\ \A e \in froms : e <= c => e <= d
    <3>1. \A n \in Nat : \A y \in froms : y <= n =>
             \E d \in froms : d <= n /\ \A e \in froms : e <= n => e <= d
      BY ONLY <2>2, LastUpTo, Zenon
    <3>. QED  BY ONLY <2>2, <3>1
  <2>4. \A e \in froms : e <= d
    BY ONLY <1>1, <2>3
  <2>5. \E m \in froms : \A e \in froms : e <= m
    BY ONLY <2>3, <2>4
  <2>6. LatestFrom(items) = CHOOSE m \in froms : \A e \in froms : e <= m
    BY <1>3 DEF LatestFrom, froms
  <2>. QED  BY <1>1, <2>5, <2>6
<1>. QED  BY <1>2, <1>3

LEMMA EarliestToIsTo ==
    ASSUME NEW items \in SUBSET LogItem
    PROVE  \/ EarliestTo(items) = NoDate
           \/ EarliestTo(items) \in Dates /\ \E i \in items : i.to = EarliestTo(items)
<1> DEFINE tos == {i.to : i \in items} \ {NoDate}
<1>1. tos \in SUBSET Nat /\ tos \subseteq Dates
  BY DatesAssumption DEF LogItem, DateOrNull
<1>2. CASE tos = {}
  BY <1>2 DEF EarliestTo
<1>3. CASE tos # {}
  <2>1. \A d \in tos : \E i \in items : i.to = d
    OBVIOUS
  <2>2. EarliestTo(items) = CHOOSE d \in tos : \A e \in tos : d <= e
    BY <1>3 DEF EarliestTo
  <2> HIDE DEF tos
  <2>3. \E d \in tos : \A e \in tos : d <= e
    BY <1>1, <1>3, LeastNumber
  <2>. QED  BY <1>1, <2>1, <2>2, <2>3
<1>. QED  BY <1>2, <1>3

\* The setup lies in the period of its node, which ends with a piece of equipment
\* (NodeService.lcd).
LEMMA NodePeriodFits ==
    ASSUME NEW s, s.from \in Dates, s.inUse \in SUBSET LogItem, Fits(s),
           NEW period \in NodePeriods(s)
    PROVE  /\ period \in PeriodRecord
           /\ period.from = NoDate \/ period.from <= s.from
           /\ period.to # NoDate => \E i \in s.inUse : i.to = period.to
           /\ ItemsWellFormed(s) /\ period.to # NoDate => s.to # NoDate /\ s.to <= period.to
<1>1. PICK items \in SUBSET s.inUse : period = CommonPeriod(items)
  BY DEF NodePeriods, OneOfEachInUse
<1>2. items \in SUBSET LogItem /\ \A i \in items : i.from # NoDate => i.from <= s.from
  BY DEF Fits
<1>3. period.from = LatestFrom(items) /\ period.to = EarliestTo(items)
      /\ period = [from |-> LatestFrom(items), to |-> EarliestTo(items)]
  BY <1>1 DEF CommonPeriod
<1>4. \/ LatestFrom(items) = NoDate
      \/ LatestFrom(items) \in Dates /\ LatestFrom(items) <= s.from
  BY <1>2, LatestFromIsFrom
<1>5. \/ EarliestTo(items) = NoDate
      \/ EarliestTo(items) \in Dates /\ \E i \in items : i.to = EarliestTo(items)
  BY <1>2, EarliestToIsTo
<1>6. period \in PeriodRecord
  BY <1>3, <1>4, <1>5 DEF PeriodRecord, DateOrNull
<1>7. period.to # NoDate => \E i \in s.inUse : i.to = period.to
  BY <1>3, <1>5
<1>8. ASSUME ItemsWellFormed(s), period.to # NoDate
      PROVE  s.to # NoDate /\ s.to <= period.to
  BY <1>7, <1>8 DEF ItemsWellFormed, Fits
<1>. QED  BY <1>3, <1>4, <1>6, <1>7, <1>8

\* With one receiver, antenna and clock at a time there is only one choice.
LEMMA OnePeriod ==
    ASSUME NEW s, ~Ambiguous(s), NEW p \in NodePeriods(s), NEW q \in NodePeriods(s)
    PROVE  p = q
<1>1. \A picked \in OneOfEachInUse(s) : picked = {i \in s.inUse : i.type \in Significant}
  BY DEF OneOfEachInUse, Ambiguous, HasType
<1>. QED  BY <1>1 DEF NodePeriods

------------------------------------------------------------------------------
\* The rows of the setups.

OneRowPerId == \A q, r \in setups : SetupId(q) = SetupId(r) => q = r

RowsFit == \A r \in setups : Fits(r.setup)

RowsInv == SetupsInv /\ OneRowPerId /\ RowsFit /\ EndsMeet(Current)

LEMMA InvalidatedRow ==
    ASSUME NEW r \in Row
    PROVE  [r EXCEPT !.invalidated = TRUE]
               = [setup |-> r.setup, created |-> r.created, invalidated |-> TRUE]
<1> DEFINE q == [r EXCEPT !.invalidated = TRUE]
           gone == [setup |-> r.setup, created |-> r.created, invalidated |-> TRUE]
<1>1. q \in Row /\ gone \in Row
  BY DEF Row
<1>2. q.setup = gone.setup /\ q.created = gone.created /\ q.invalidated = gone.invalidated
  BY DEF Row
<1>3. \A x, y \in Row :
         x.setup = y.setup /\ x.created = y.created /\ x.invalidated = y.invalidated => x = y
  BY DEF Row
<1> HIDE DEF q, gone
<1>4. q = gone
  BY <1>1, <1>2, <1>3
<1>. QED  BY <1>4 DEF q, gone

\* A commit leaves each row with its identity, and gives new ones to new rows.
LEMMA CommitKeepsIds ==
    ASSUME RowsInv, HandleCommit
    PROVE  /\ OneRowPerId'
           /\ RowsFit'
           /\ \A r \in setups : \E q \in setups' : SetupId(q) = SetupId(r)
           /\ \A r \in setups, q \in setups' :
                 SetupId(q) = SetupId(r) /\ r.invalidated => q.invalidated
<1>1. PICK unequal : setups' = Saved(GetSetups(view), unequal)
  BY DEF HandleCommit
<1> DEFINE gone == Valid(setups) \ Common(GetSetups(view), unequal)
           added == Inserted(GetSetups(view) \ SetupsOf(Common(GetSetups(view), unequal)))
<1>2. setups' = ((setups \ gone) \union Invalidated(gone)) \union added
  BY <1>1 DEF Saved
<1>3. \A r \in setups : r \in Row /\ r.created < handled /\ r.created \in Nat
  BY DEF RowsInv, SetupsInv, TypeInv, TypeOK, Row
<1>4. gone \subseteq setups /\ \A r \in gone : ~r.invalidated
  BY DEF Valid
<1> DEFINE Gone(r) == [setup |-> r.setup, created |-> r.created, invalidated |-> TRUE]
<1>5. /\ \A q \in Invalidated(gone) : \E r \in gone :
            q.setup = r.setup /\ q.created = r.created /\ q.invalidated /\ q = Gone(r)
      /\ \A r \in gone : Gone(r) \in Invalidated(gone)
  <2> HIDE DEF gone
  <2>1. \A r \in gone : [r EXCEPT !.invalidated = TRUE] = Gone(r)
    BY <1>3, <1>4, InvalidatedRow
  <2>. QED  BY <2>1 DEF Invalidated
<1>6. \A q \in added : q.created = handled /\ q.setup \in GetSetups(view)
                       /\ q = [setup |-> q.setup, created |-> handled, invalidated |-> FALSE]
  BY DEF Inserted
<1>7. \A r \in gone : \E q \in Invalidated(gone) : q.setup = r.setup /\ q.created = r.created
  BY <1>5
<1>8. handled \in Nat /\ \A r \in setups : r.created # handled
  BY <1>3 DEF RowsInv, SetupsInv, TypeInv, Counting
<1> HIDE DEF gone, added
<1>9. \A q, r \in setups : q.setup = r.setup /\ q.created = r.created => q = r
  BY DEF RowsInv, OneRowPerId, SetupId
<1>10. ASSUME NEW q \in setups', NEW r \in setups', q.setup = r.setup, q.created = r.created
       PROVE  q = r
  <2>1. CASE q \in added
    BY <1>2, <1>4, <1>5, <1>6, <1>8, <1>10, <2>1
  <2>2. CASE r \in added
    BY <1>2, <1>4, <1>5, <1>6, <1>8, <1>10, <2>2
  <2>3. CASE q \in setups \ gone /\ r \in setups \ gone
    BY <1>9, <1>10, <2>3
  <2>4. CASE q \in Invalidated(gone) /\ r \in Invalidated(gone)
    <3>1. PICK q0 \in gone : q.setup = q0.setup /\ q.created = q0.created /\ q = Gone(q0)
      BY <1>5, <2>4
    <3>2. PICK r0 \in gone : r.setup = r0.setup /\ r.created = r0.created /\ r = Gone(r0)
      BY <1>5, <2>4
    <3>3. q0 = r0
      BY <1>4, <1>9, <1>10, <3>1, <3>2
    <3>. QED  BY <3>1, <3>2, <3>3
  <2>5. CASE q \in Invalidated(gone) /\ r \in setups \ gone
    BY <1>4, <1>5, <1>9, <1>10, <2>5
  <2>6. CASE q \in setups \ gone /\ r \in Invalidated(gone)
    BY <1>4, <1>5, <1>9, <1>10, <2>6
  <2>. QED  BY <1>2, <2>1, <2>2, <2>3, <2>4, <2>5, <2>6
<1>11. RowsFit'
  <2>1. view \in SUBSET LogItem /\ ~GetSetupsFails(view)
    BY ViewsAreItems DEF RowsInv, SetupsInv, TypeInv, HandleCommit
  <2>2. \A s \in GetSetups(view) : Fits(s)
    BY <2>1, DerivedFits
  <2>3. \A r \in setups : Fits(r.setup)
    BY DEF RowsInv, RowsFit
  <2>4. \A q \in setups' : q.setup \in GetSetups(view) \/ \E r \in setups : q.setup = r.setup
    BY <1>2, <1>4, <1>5, <1>6
  <2>. QED  BY <2>2, <2>3, <2>4 DEF RowsFit
<1>12. \A r \in setups : \E q \in setups' : q.setup = r.setup /\ q.created = r.created
  BY <1>2, <1>7
<1>13. ASSUME NEW r \in setups, NEW q \in setups', q.setup = r.setup, q.created = r.created,
              r.invalidated
       PROVE  q.invalidated
  <2>1. q \notin added
    BY <1>6, <1>8, <1>13
  <2>2. CASE q \in setups \ gone
    BY <1>9, <1>13, <2>2
  <2>3. CASE q \in Invalidated(gone)
    BY <1>5, <2>3
  <2>. QED  BY <1>2, <2>1, <2>2, <2>3
<1>. QED  BY <1>10, <1>11, <1>12, <1>13 DEF OneRowPerId, SetupId

LEMMA InitRows == Init => RowsInv
<1>. SUFFICES ASSUME Init PROVE RowsInv
  OBVIOUS
<1>1. setups = {} /\ Current = {}
  BY DEF Init, Current, SetupsOf, Valid
<1>. QED  BY <1>1, InitInv DEF RowsInv, OneRowPerId, RowsFit, EndsMeet

LEMMA StepRows == RowsInv /\ [Next]_vars => RowsInv'
<1>. SUFFICES ASSUME RowsInv, [Next]_vars PROVE RowsInv'
  OBVIOUS
<1>1. SetupsInv'
  BY StepInv DEF RowsInv
<1>2. CASE HandleCommit
  <2>1. Current' = GetSetups(view)
    BY <1>2, CommitSaves DEF RowsInv, SetupsInv
  <2>2. view \in SUBSET LogItem
    BY ViewsAreItems DEF RowsInv, SetupsInv, TypeInv
  <2>3. EndsMeet(GetSetups(view))
    BY <2>2, DerivedEndsMeet
  <2>4. EndsMeet(Current)'
    BY <2>1, <2>3 DEF EndsMeet
  <2>. QED  BY <1>1, <1>2, <2>4, CommitKeepsIds DEF RowsInv
<1>3. CASE ~HandleCommit
  <2>1. setups' = setups
    BY <1>3, OnlyCommitsSave
  <2>2. Current' = Current
    BY <2>1 DEF Current, SetupsOf, Valid
  <2>. QED  BY <1>1, <2>1, <2>2 DEF RowsInv, OneRowPerId, SetupId, RowsFit, EndsMeet
<1>. QED  BY <1>2, <1>3

------------------------------------------------------------------------------
\* The tables of nodes: the committed one, and the one of the handler.

NodeRow ==
    [setupId : [setup : SetupRecord, created : 0 .. MaxUploads],
     period : PeriodRecord, created : Nat, invalidated : BOOLEAN]

\* A table of nodes for the rows of the setups: one node to a setup, with a period
\* of its equipment, and invalidated with it at the earliest.
Table(table, rows) ==
    /\ table \subseteq NodeRow
    /\ \A n \in table : \E r \in rows : SetupId(r) = n.setupId
    /\ \A n, m \in table : n.setupId = m.setupId => n = m
    /\ \A n \in table : n.period \in NodePeriods(n.setupId.setup)
    /\ \A n \in table, r \in rows : n.setupId = SetupId(r) /\ n.invalidated => r.invalidated

\* Nodes are invalidated with their setups at the latest.
NoneOfInvalidated(table) ==
    \A n \in table, r \in setups : n.setupId = SetupId(r) /\ r.invalidated => n.invalidated

LEMMA ValidSetups ==
    ASSUME RowsInv, NEW r \in Valid(setups)
    PROVE  /\ r \in setups /\ r \in Row /\ ~r.invalidated
           /\ r.setup \in Current
           /\ r.setup.from \in Dates /\ r.setup.from \in Nat /\ r.setup.from # NoDate
           /\ r.setup.to \in DateOrNull /\ r.setup.inUse \in SUBSET LogItem
           /\ Fits(r.setup)
           /\ SetupId(r).setup = r.setup
<1>1. r \in setups /\ r \in Row /\ ~r.invalidated /\ r.setup \in Current
  BY DEF RowsInv, SetupsInv, TypeInv, Valid, Current, SetupsOf
<1>2. r.setup \in SetupRecord /\ Fits(r.setup)
  BY <1>1 DEF RowsInv, RowsFit, Row
<1>. QED  BY <1>1, <1>2, DatesAssumption DEF SetupRecord, SetupId

\* What a commit of the setups does to the table.
LEMMA CommitKeepsTables ==
    ASSUME RowsInv, HandleCommit, NEW table, Table(table, setups)
    PROVE  Table(table, setups')
<1>1. /\ \A r \in setups : \E q \in setups' : SetupId(q) = SetupId(r)
      /\ \A r \in setups, q \in setups' : SetupId(q) = SetupId(r) /\ r.invalidated => q.invalidated
  BY CommitKeepsIds
<1>2. \A n \in table : \E q \in setups' : SetupId(q) = n.setupId
  BY <1>1 DEF Table
<1>3. \A n \in table, q \in setups' : n.setupId = SetupId(q) /\ n.invalidated => q.invalidated
  BY <1>1 DEF Table
<1>. QED  BY <1>2, <1>3 DEF Table

LEMMA NodeWithFlag ==
    ASSUME NEW n \in NodeRow, NEW flag \in BOOLEAN
    PROVE  /\ [n EXCEPT !.invalidated = flag] \in NodeRow
           /\ [n EXCEPT !.invalidated = flag].setupId = n.setupId
           /\ [n EXCEPT !.invalidated = flag].period = n.period
           /\ [n EXCEPT !.invalidated = flag].invalidated = flag
           /\ flag = n.invalidated => [n EXCEPT !.invalidated = flag] = n
BY DEF NodeRow

\* What NodeService.handle() begins with.
LEMMA InvalidatedTable ==
    ASSUME RowsInv, NEW table, Table(table, setups)
    PROVE  /\ Table(NodesInvalidated(table), setups)
           /\ NoneOfInvalidated(NodesInvalidated(table))
<1> DEFINE gone == {SetupId(r) : r \in {q \in setups : q.invalidated}}
           Flag(n) == n.invalidated \/ n.setupId \in gone
           Flagged(n) == [n EXCEPT !.invalidated = Flag(n)]
           result == {Flagged(n) : n \in table}
<1>1. NodesInvalidated(table) = result
  BY DEF NodesInvalidated
<1>2. \A n \in table : n \in NodeRow /\ n.invalidated \in BOOLEAN
  BY DEF Table, NodeRow
<1>3. \A n \in table : /\ Flagged(n) \in NodeRow
                       /\ Flagged(n).setupId = n.setupId
                       /\ Flagged(n).period = n.period
                       /\ Flagged(n).invalidated = Flag(n)
  <2>1. SUFFICES ASSUME NEW n \in table
                 PROVE  /\ Flagged(n) \in NodeRow
                        /\ Flagged(n).setupId = n.setupId
                        /\ Flagged(n).period = n.period
                        /\ Flagged(n).invalidated = Flag(n)
    OBVIOUS
  <2>2. n \in NodeRow
    BY <1>2
  <2>3. Flag(n) \in BOOLEAN
    OBVIOUS
  <2> HIDE DEF Flag
  <2>. QED  BY <2>2, <2>3, NodeWithFlag
<1>4. \A id : id \in gone <=> \E r \in setups : r.invalidated /\ SetupId(r) = id
  OBVIOUS
<1> HIDE DEF gone, Flagged, Flag
<1>5. \A m \in result : \E n \in table :
         /\ m = Flagged(n) /\ m \in NodeRow
         /\ m.setupId = n.setupId /\ m.period = n.period
         /\ m.invalidated = Flag(n)
  BY <1>3
<1> HIDE DEF result
<1>6. result \subseteq NodeRow
  BY <1>5
<1>7. \A m \in result : \E r \in setups : SetupId(r) = m.setupId
  BY <1>5 DEF Table
<1>8. \A m, k \in result : m.setupId = k.setupId => m = k
  BY <1>5 DEF Table
<1>9. \A m \in result : m.period \in NodePeriods(m.setupId.setup)
  BY <1>5 DEF Table
<1>10. \A m \in result, r \in setups : m.setupId = SetupId(r) => (m.invalidated <=> r.invalidated)
  <2>1. \A q, r \in setups : SetupId(q) = SetupId(r) => q = r
    BY DEF RowsInv, OneRowPerId
  <2>2. \A n \in table, r \in setups : n.setupId = SetupId(r) /\ n.invalidated => r.invalidated
    BY DEF Table
  <2>3. \A r \in setups : SetupId(r) \in gone <=> r.invalidated
    BY <1>4, <2>1
  <2>4. TAKE m \in result, r \in setups
  <2>5. HAVE m.setupId = SetupId(r)
  <2>6. PICK n \in table : n.setupId = SetupId(r) /\ m.invalidated = Flag(n)
    BY <1>5, <2>5
  <2>7. Flag(n) <=> n.invalidated \/ SetupId(r) \in gone
    BY <2>6, Zenon DEF Flag
  <2>8. Flag(n) <=> r.invalidated
    BY <2>2, <2>3, <2>6, <2>7, Zenon
  <2>. QED  BY <2>6, <2>8, Zenon
<1>. QED  BY <1>1, <1>6, <1>7, <1>8, <1>9, <1>10 DEF Table, NoneOfInvalidated

\* What a visit does: the setup has a valid node afterwards, of the period that was
\* looked at if there is only one.
LEMMA VisitedTable ==
    ASSUME RowsInv, nodesHandled \in Nat, NEW table, Table(table, setups),
           NEW r \in Valid(setups), NEW period \in NodePeriods(r.setup)
    PROVE  LET result == WithNode(r, period, table)
           IN  /\ Table(result, setups)
               /\ table \subseteq result
               /\ NoneOfInvalidated(table) => NoneOfInvalidated(result)
               /\ \E n \in result : /\ ~n.invalidated /\ n.setupId = SetupId(r)
                                    /\ n.period \in NodePeriods(r.setup)
<1> DEFINE new == NewNode(r, period)
<1>1. /\ r \in setups /\ r \in Row /\ ~r.invalidated
      /\ r.setup.from \in Dates /\ r.setup.inUse \in SUBSET LogItem /\ Fits(r.setup)
      /\ SetupId(r).setup = r.setup
  BY ValidSetups
<1>2. CASE HasNode(r, table)
  <2>1. WithNode(r, period, table) = table
    BY <1>2 DEF WithNode
  <2>2. PICK n \in table : n.setupId = SetupId(r)
    BY <1>2 DEF HasNode
  <2>3. n \in NodeRow /\ (n.invalidated => r.invalidated) /\ n.period \in NodePeriods(n.setupId.setup)
    BY <1>1, <2>2 DEF Table
  <2>. QED  BY <1>1, <2>1, <2>2, <2>3
<1>3. CASE ~HasNode(r, table)
  <2>1. WithNode(r, period, table) = table \union {new}
    BY <1>3 DEF WithNode
  <2>2. period \in PeriodRecord
    BY <1>1, NodePeriodFits
  <2>3. /\ new.setupId = SetupId(r) /\ new.period = period /\ new.invalidated = FALSE
        /\ new \in NodeRow
    BY <1>1, <2>2 DEF NewNode, NodeRow, SetupId, Row
  <2> HIDE DEF new
  <2>4. \A n \in table : n.setupId # SetupId(r)
    BY <1>3 DEF HasNode
  <2>5. \A q \in setups : SetupId(q) = SetupId(r) => q = r
    BY <1>1 DEF RowsInv, OneRowPerId
  <2>6. Table(table \union {new}, setups)
    BY <1>1, <2>3, <2>4 DEF Table
  <2>7. NoneOfInvalidated(table) => NoneOfInvalidated(table \union {new})
    BY <1>1, <2>3, <2>5 DEF NoneOfInvalidated
  <2>. QED  BY <2>1, <2>3, <2>6, <2>7
<1>. QED  BY <1>2, <1>3

------------------------------------------------------------------------------
\* What the walk over the setups has achieved.

Clear == \A s \in Current : ~Ambiguous(s)

Covers(period, s) ==
    /\ period.from = NoDate \/ period.from <= s.from
    /\ period.to = NoDate \/ (s.to # NoDate /\ s.to <= period.to)

Reached(table, r) ==
    \E n \in table : /\ ~n.invalidated
                     /\ n.setupId = SetupId(r) \/ Precedes(r.setup.from, n.period.to)

Covered(table, r) ==
    \E n \in table : ~n.invalidated /\ Covers(n.period, r.setup)

\* The setups but those of rest have what they get.
Done(table, rest) ==
    /\ NoneOfInvalidated(table)
    /\ Clear => \A r \in Valid(setups) \ rest : IsComplete(r.setup) => Reached(table, r)
    /\ chronological /\ Clear /\ (\A s \in Current : ItemsWellFormed(s)) =>
          \A r \in Valid(setups) \ rest : IsComplete(r.setup) => Covered(table, r)

\* The period the handler keeps is that of a valid node, and of a setup that began
\* before those it has yet to visit.
LastNode ==
    Clear =>
        \A p \in nodePeriod : \E n \in saved, q \in Valid(setups) :
            /\ ~n.invalidated /\ n.setupId = SetupId(q) /\ n.period = p
            /\ chronological => \A u \in unvisited : q.setup.from <= u.setup.from

\* The period of the node of a valid setup.
LEMMA NodeOfValid ==
    ASSUME RowsInv, NEW table, Table(table, setups),
           NEW n \in table, NEW q \in Valid(setups), n.setupId = SetupId(q)
    PROVE  /\ n.period.from \in DateOrNull /\ n.period.to \in DateOrNull
           /\ n.period.from = NoDate \/ n.period.from <= q.setup.from
           /\ ItemsWellFormed(q.setup) => Covers(n.period, q.setup)
           /\ n.period.to # NoDate => \E i \in q.setup.inUse : i.to = n.period.to
<1>1. n.period \in NodePeriods(q.setup)
  BY ValidSetups DEF Table
<1>2. /\ n.period \in PeriodRecord
      /\ n.period.from = NoDate \/ n.period.from <= q.setup.from
      /\ n.period.to # NoDate => \E i \in q.setup.inUse : i.to = n.period.to
      /\ ItemsWellFormed(q.setup) /\ n.period.to # NoDate =>
            q.setup.to # NoDate /\ q.setup.to <= n.period.to
  BY <1>1, ValidSetups, NodePeriodFits
<1>. QED  BY <1>2 DEF PeriodRecord, Covers

\* "Later" by compareTo() is later.
LEMMA OneIsLater ==
    ASSUME NEW d \in Nat, NEW e \in Nat, CompareTo(d, e) = 1
    PROVE  e < d
<1>1. CASE d \div Second # e \div Second
  <2>1. ~(d < e)
    BY <1>1 DEF CompareTo
  <2>2. d # e
    BY <1>1
  <2>. QED  BY <2>1, <2>2
<1>2. CASE d \div Second = e \div Second
  BY <1>2 DEF CompareTo
<1>. QED  BY <1>1, <1>2

\* A setup that is passed over lies in the period of the last node.
LEMMA PassedOver ==
    ASSUME RowsInv, Table(saved, setups), LastNode, Clear, unvisited \subseteq Valid(setups),
           NEW r \in unvisited, IsPassedOver(r.setup)
    PROVE  /\ Reached(saved, r)
           /\ chronological => Covered(saved, r)
<1>1. PICK p \in nodePeriod : p.to # NoDate /\ CompareTo(p.to, r.setup.from) = 1
  BY DEF IsPassedOver
<1>2. PICK n \in saved, q \in Valid(setups) :
         /\ ~n.invalidated /\ n.setupId = SetupId(q) /\ n.period = p
         /\ chronological => \A u \in unvisited : q.setup.from <= u.setup.from
  BY <1>1 DEF LastNode
<1>3. /\ r \in Valid(setups) /\ r.setup \in Current
      /\ r.setup.from \in Nat /\ r.setup.from # NoDate
  BY ValidSetups
<1>4. /\ n.period.from \in DateOrNull /\ n.period.to \in DateOrNull
      /\ n.period.from = NoDate \/ n.period.from <= q.setup.from
      /\ n.period.to # NoDate => \E i \in q.setup.inUse : i.to = n.period.to
  BY <1>2, NodeOfValid
<1>5. n.period.to \in Nat /\ r.setup.from < n.period.to
  <2>1. n.period.to \in Nat
    BY <1>1, <1>2, <1>4, DatesAssumption DEF DateOrNull
  <2>. QED  BY <1>1, <1>2, <1>3, <2>1, OneIsLater
<1>6. Reached(saved, r)
  BY <1>2, <1>3, <1>5 DEF Reached, Precedes
<1>7. ASSUME chronological
      PROVE  Covers(n.period, r.setup)
  <2>1. q.setup \in Current /\ q.setup.from \in Nat /\ q.setup.from <= r.setup.from
    BY <1>2, <1>7, ValidSetups
  <2>2. n.period.from = NoDate \/ n.period.from <= r.setup.from
    <3>1. n.period.from # NoDate => n.period.from \in Nat
      BY <1>4, DatesAssumption DEF DateOrNull
    <3>. QED  BY <1>3, <1>4, <2>1, <3>1
  <2>3. r.setup.to # NoDate /\ r.setup.to <= n.period.to
    <3>1. PICK i \in q.setup.inUse : i.to = n.period.to
      BY <1>1, <1>2, <1>4
    <3>2. EndsMeet(Current)
      BY DEF RowsInv
    <3>. QED  BY <1>1, <1>2, <1>3, <1>5, <2>1, <3>1, <3>2 DEF EndsMeet
  <2>. QED  BY <2>2, <2>3 DEF Covers
<1>. QED  BY <1>2, <1>6, <1>7 DEF Covered

\* When the last node has no end, the setups that remain lie in its period too.
LEMMA OpenEnded ==
    ASSUME RowsInv, Table(saved, setups), LastNode, Clear, unvisited \subseteq Valid(setups),
           NEW r \in unvisited, IsOpenEnded
    PROVE  /\ Reached(saved, r)
           /\ chronological => Covered(saved, r)
<1>1. PICK p \in nodePeriod : p.to = NoDate
  BY DEF IsOpenEnded
<1>2. PICK n \in saved, q \in Valid(setups) :
         /\ ~n.invalidated /\ n.setupId = SetupId(q) /\ n.period = p
         /\ chronological => \A u \in unvisited : q.setup.from <= u.setup.from
  BY <1>1 DEF LastNode
<1>3. /\ n.period.from \in DateOrNull
      /\ n.period.from = NoDate \/ n.period.from <= q.setup.from
  BY <1>2, NodeOfValid
<1>4. q.setup.from \in Nat /\ r.setup.from \in Nat
  BY ValidSetups
<1>5. Reached(saved, r)
  BY <1>1, <1>2 DEF Reached, Precedes
<1>6. ASSUME chronological
      PROVE  Covers(n.period, r.setup)
  <2>1. n.period.from # NoDate => n.period.from \in Nat
    BY <1>3, DatesAssumption DEF DateOrNull
  <2>2. q.setup.from <= r.setup.from
    BY <1>2, <1>6
  <2>. QED  BY <1>1, <1>2, <1>3, <1>4, <2>1, <2>2 DEF Covers
<1>. QED  BY <1>2, <1>5, <1>6 DEF Covered

------------------------------------------------------------------------------
\* The inductive invariant.

NodesCounting ==
    /\ updated \in Nat /\ nodesHandled \in Nat
    /\ updated + nodesHandled + (IF walk = "walking" THEN 1 ELSE 0) <= handled

Idle == unvisited = {} /\ nodePeriod = {} /\ saved = {}

WalkInv ==
    /\ nodesRolledBack \in BOOLEAN
    /\ chronological \in BOOLEAN
    /\ walk \in {"idle", "walking"}
    /\ walk = "walking" => pc = "idle"
    /\ walk = "idle" => Idle
    /\ unvisited \subseteq Valid(setups)
    /\ nodePeriod \subseteq PeriodRecord

NodesInv ==
    /\ RowsInv
    /\ NodesCounting
    /\ WalkInv
    /\ Table(nodes, setups)
    /\ Table(saved, setups)
    /\ walk = "walking" => Done(saved, unvisited) /\ LastNode
    /\ NodesSettled => Done(nodes, {})

LEMMA EmptyTable == Table({}, setups)
BY DEF Table

LEMMA InitNodesInv == NodesInit => NodesInv
<1>. SUFFICES ASSUME NodesInit PROVE NodesInv
  OBVIOUS
<1>1. RowsInv
  BY InitRows DEF NodesInit
<1>2. NodesCounting
  BY DEF NodesInit, Init, NodesCounting
<1>3. WalkInv
  BY DEF NodesInit, Init, WalkInv, Idle, Valid
<1>4. Table(nodes, setups) /\ Table(saved, setups)
  BY EmptyTable DEF NodesInit
<1>5. Valid(setups) = {}
  BY DEF NodesInit, Init, Valid
<1>6. Done(nodes, {})
  BY <1>5 DEF NodesInit, Init, Done, NoneOfInvalidated
<1>. QED  BY <1>1, <1>2, <1>3, <1>4, <1>6 DEF NodesInv, NodesInit

\* Steps that leave the setups and the nodes alone.
LEMMA QuietKeepsNodesInv ==
    ASSUME NodesInv, RowsInv',
           UNCHANGED <<setups, handled, nodeVars>>,
           walk = "walking" => pc' = "idle"
    PROVE  NodesInv'
<1>1. /\ setups' = setups /\ handled' = handled /\ updated' = updated /\ walk' = walk
      /\ unvisited' = unvisited /\ nodePeriod' = nodePeriod /\ saved' = saved
      /\ nodes' = nodes /\ nodesHandled' = nodesHandled /\ nodesRolledBack' = nodesRolledBack
      /\ chronological' = chronological
  BY DEF nodeVars, walking
<1>2. NodesCounting'
  BY <1>1 DEF NodesInv, NodesCounting
<1>3. WalkInv'
  BY <1>1 DEF NodesInv, WalkInv, Idle, Valid
<1>4. Table(nodes, setups)' /\ Table(saved, setups)'
  BY <1>1 DEF NodesInv, Table, NodeRow
<1>5. Clear' <=> Clear
  BY <1>1 DEF Clear, Current, SetupsOf, Valid
<1>6. Current' = Current /\ Valid(setups)' = Valid(setups)
  BY <1>1 DEF Current, SetupsOf, Valid
<1>7. LastNode' <=> LastNode
  BY <1>1, <1>5, <1>6 DEF LastNode
<1>8. /\ Done(saved, unvisited)' <=> Done(saved, unvisited)
      /\ Done(nodes, {})' <=> Done(nodes, {})
  BY <1>1, <1>5, <1>6 DEF Done, NoneOfInvalidated, Reached, Covered
<1>9. NodesSettled' <=> NodesSettled
  BY <1>1 DEF NodesSettled
<1>. QED  BY <1>1, <1>2, <1>3, <1>4, <1>7, <1>8, <1>9 DEF NodesInv

\* CorsSiteService.handle() commits: there is an event to handle.
LEMMA CommitKeepsNodesInv ==
    ASSUME NodesInv, HandleCommit, updated' = updated + 1,
           UNCHANGED <<walking, nodes, nodesHandled, nodesRolledBack, chronological>>
    PROVE  NodesInv'
<1>1. RowsInv'
  BY StepRows DEF NodesInv, Next, CorsSiteService
<1>2. /\ walk' = walk /\ unvisited' = unvisited /\ nodePeriod' = nodePeriod /\ saved' = saved
      /\ nodes' = nodes /\ nodesHandled' = nodesHandled /\ nodesRolledBack' = nodesRolledBack
      /\ chronological' = chronological
  BY DEF walking
<1>3. walk = "idle" /\ Idle /\ handled' = handled + 1
  BY DEF NodesInv, WalkInv, HandleCommit
<1>4. handled \in Nat /\ updated \in Nat
  BY DEF NodesInv, NodesCounting, RowsInv, SetupsInv, TypeInv, Counting
<1>5. NodesCounting'
  BY <1>2, <1>3, <1>4 DEF NodesInv, NodesCounting
<1>6. WalkInv'
  <2>1. nodesRolledBack' \in BOOLEAN /\ chronological' \in BOOLEAN
    BY <1>2 DEF NodesInv, WalkInv
  <2>. QED  BY <1>2, <1>3, <2>1 DEF WalkInv, Idle
<1>7. Table(nodes, setups') /\ Table(saved, setups')
  BY CommitKeepsTables DEF NodesInv
<1>8. Table(nodes, setups)' /\ Table(saved, setups)'
  BY <1>2, <1>7 DEF Table
<1>9. ~NodesSettled'
  BY <1>4 DEF NodesSettled
<1>. QED  BY <1>1, <1>2, <1>3, <1>5, <1>6, <1>8, <1>9 DEF NodesInv

LEMMA BeginKeepsNodesInv ==
    ASSUME NodesInv, BeginNodes
    PROVE  NodesInv'
<1>1. /\ setups' = setups /\ handled' = handled /\ pc' = pc /\ pc = "idle" /\ walk = "idle"
      /\ nodes' = nodes /\ nodesHandled' = nodesHandled /\ nodesRolledBack' = nodesRolledBack
      /\ chronological' = chronological
      /\ updated > 0 /\ updated' = updated - 1 /\ walk' = "walking"
      /\ unvisited' = Valid(setups) /\ nodePeriod' = {} /\ saved' = NodesInvalidated(nodes)
  BY DEF BeginNodes, vars, uploading, reading
<1>2. RowsInv'
  BY StepRows DEF NodesInv, BeginNodes
<1>3. NodesCounting'
  BY <1>1 DEF NodesInv, NodesCounting
<1>4. WalkInv'
  <2>1. nodesRolledBack' \in BOOLEAN /\ chronological' \in BOOLEAN
    BY <1>1 DEF NodesInv, WalkInv
  <2>. QED  BY <1>1, <2>1 DEF WalkInv, Valid
<1>5. Table(saved', setups) /\ NoneOfInvalidated(saved')
  BY <1>1, InvalidatedTable DEF NodesInv
<1>6. Table(nodes, setups)' /\ Table(saved, setups)'
  BY <1>1, <1>5 DEF NodesInv, Table
<1>7. Valid(setups)' = unvisited'
  BY <1>1 DEF Valid
<1>8. Done(saved, unvisited)' /\ LastNode'
  BY <1>1, <1>5, <1>7 DEF Done, LastNode, NoneOfInvalidated
<1>9. ~NodesSettled'
  BY <1>1 DEF NodesSettled
<1>. QED  BY <1>1, <1>2, <1>3, <1>4, <1>6, <1>8, <1>9 DEF NodesInv

LEMMA StepOfWalk ==
    ASSUME NodesInv, UNCHANGED vars
    PROVE  /\ RowsInv'
           /\ setups' = setups /\ handled' = handled /\ pc' = pc
           /\ Valid(setups)' = Valid(setups) /\ Current' = Current /\ Clear' = Clear
<1>1. setups' = setups /\ handled' = handled /\ pc' = pc
  BY DEF vars, reading
<1>. QED  BY <1>1, StepRows DEF NodesInv, Valid, Current, SetupsOf, Clear

LEMMA PassOverKeepsNodesInv ==
    ASSUME NodesInv, NEW r \in unvisited, PassOver(r)
    PROVE  NodesInv'
<1>1. /\ updated' = updated /\ walk' = walk /\ nodePeriod' = nodePeriod /\ saved' = saved
      /\ nodes' = nodes /\ nodesHandled' = nodesHandled /\ nodesRolledBack' = nodesRolledBack
      /\ chronological' = chronological
      /\ unvisited' = unvisited \ {r} /\ walk = "walking"
      /\ UNCHANGED vars
      /\ IsPassedOver(r.setup) \/ ~IsComplete(r.setup)
  BY DEF PassOver, IsNext
<1>2. /\ RowsInv' /\ setups' = setups /\ handled' = handled /\ pc' = pc
      /\ Valid(setups)' = Valid(setups) /\ Current' = Current /\ Clear' = Clear
  BY <1>1, StepOfWalk
<1>3. NodesCounting'
  BY <1>1, <1>2 DEF NodesInv, NodesCounting
<1>4. WalkInv'
  BY <1>1, <1>2 DEF NodesInv, WalkInv
<1>5. Table(nodes, setups)' /\ Table(saved, setups)'
  BY <1>1, <1>2 DEF NodesInv, Table
<1>6. /\ RowsInv /\ Table(saved, setups) /\ unvisited \subseteq Valid(setups)
      /\ Done(saved, unvisited) /\ LastNode
  BY <1>1 DEF NodesInv, WalkInv
<1>7. LastNode'
  BY <1>1, <1>2, <1>6 DEF LastNode
<1>8. ASSUME Clear, IsComplete(r.setup)
      PROVE  Reached(saved, r) /\ (chronological => Covered(saved, r))
  BY <1>1, <1>6, <1>8, PassedOver
<1>9. Done(saved, unvisited)'
  <2>1. NoneOfInvalidated(saved)'
    BY <1>1, <1>2, <1>6 DEF Done, NoneOfInvalidated
  <2>2. \A q : q \in Valid(setups) \ unvisited' => q \in Valid(setups) \ unvisited \/ q = r
    BY <1>1
  <2>3. Clear => \A q \in Valid(setups) \ unvisited' : IsComplete(q.setup) => Reached(saved, q)
    BY <1>6, <1>8, <2>2 DEF Done
  <2>4. chronological /\ Clear /\ (\A s \in Current : ItemsWellFormed(s)) =>
           \A q \in Valid(setups) \ unvisited' : IsComplete(q.setup) => Covered(saved, q)
    BY <1>6, <1>8, <2>2 DEF Done
  <2>. QED  BY <1>1, <1>2, <2>1, <2>3, <2>4 DEF Done, Reached, Covered
<1>10. ~NodesSettled'
  BY <1>1 DEF NodesSettled
<1>. QED  BY <1>1, <1>2, <1>3, <1>4, <1>5, <1>7, <1>9, <1>10 DEF NodesInv

LEMMA VisitKeepsNodesInv ==
    ASSUME NodesInv, NEW r \in unvisited, VisitComplete(r)
    PROVE  NodesInv'
<1>1. PICK period \in NodePeriods(r.setup) :
         nodePeriod' = {period} /\ saved' = WithNode(r, period, saved)
  BY DEF VisitComplete
<1>2. /\ updated' = updated /\ walk' = walk
      /\ nodes' = nodes /\ nodesHandled' = nodesHandled /\ nodesRolledBack' = nodesRolledBack
      /\ chronological' = chronological
      /\ unvisited' = unvisited \ {r} /\ walk = "walking"
      /\ UNCHANGED vars
      /\ chronological => \A u \in unvisited : r.setup.from <= u.setup.from
  BY DEF VisitComplete, IsNext
<1>3. /\ RowsInv' /\ setups' = setups /\ handled' = handled /\ pc' = pc
      /\ Valid(setups)' = Valid(setups) /\ Current' = Current /\ Clear' = Clear
  BY <1>2, StepOfWalk
<1>4. /\ RowsInv /\ Table(saved, setups) /\ unvisited \subseteq Valid(setups)
      /\ Done(saved, unvisited) /\ LastNode /\ nodesHandled \in Nat
  BY <1>2 DEF NodesInv, WalkInv, NodesCounting
<1>5. /\ r \in Valid(setups) /\ r.setup \in Current
      /\ r.setup.from \in Dates /\ r.setup.inUse \in SUBSET LogItem /\ Fits(r.setup)
  BY <1>4, ValidSetups
<1>6. /\ Table(saved', setups)
      /\ saved \subseteq saved'
      /\ NoneOfInvalidated(saved) => NoneOfInvalidated(saved')
      /\ \E n \in saved' : /\ ~n.invalidated /\ n.setupId = SetupId(r)
                           /\ n.period \in NodePeriods(r.setup)
  BY <1>1, <1>4, <1>5, VisitedTable
<1>7. PICK n \in saved' : /\ ~n.invalidated /\ n.setupId = SetupId(r)
                          /\ n.period \in NodePeriods(r.setup)
  BY <1>6
<1>8. NodesCounting'
  BY <1>2, <1>3 DEF NodesInv, NodesCounting
<1>9. WalkInv'
  <2>1. period \in PeriodRecord
    BY <1>1, <1>5, NodePeriodFits
  <2>. QED  BY <1>1, <1>2, <1>3, <2>1 DEF NodesInv, WalkInv
<1>10. Table(nodes, setups)' /\ Table(saved, setups)'
  BY <1>2, <1>3, <1>6 DEF NodesInv, Table
<1>11. LastNode'
  <2>1. Clear => n.period = period
    BY <1>1, <1>5, <1>7, OnePeriod DEF Clear
  <2>. QED  BY <1>1, <1>2, <1>3, <1>5, <1>7, <2>1 DEF LastNode
<1>12. Done(saved, unvisited)'
  <2>1. NoneOfInvalidated(saved')
    BY <1>4, <1>6 DEF Done
  <2>2. Reached(saved', r)
    BY <1>7 DEF Reached
  <2>3. ItemsWellFormed(r.setup) => Covered(saved', r)
    BY <1>4, <1>5, <1>6, <1>7, NodeOfValid DEF Covered
  <2>4. \A q \in Valid(setups) : (Reached(saved, q) => Reached(saved', q))
                                 /\ (Covered(saved, q) => Covered(saved', q))
    BY <1>6 DEF Reached, Covered
  <2>5. \A q : q \in Valid(setups) \ unvisited' => q \in Valid(setups) \ unvisited \/ q = r
    BY <1>2
  <2>6. Clear => \A q \in Valid(setups) \ unvisited' : IsComplete(q.setup) => Reached(saved', q)
    BY <1>4, <2>2, <2>4, <2>5 DEF Done
  <2>7. chronological /\ Clear /\ (\A s \in Current : ItemsWellFormed(s)) =>
           \A q \in Valid(setups) \ unvisited' : IsComplete(q.setup) => Covered(saved', q)
    BY <1>4, <1>5, <2>3, <2>4, <2>5 DEF Done
  <2>. QED  BY <1>2, <1>3, <2>1, <2>6, <2>7 DEF Done, NoneOfInvalidated, Reached, Covered
<1>13. ~NodesSettled'
  BY <1>2 DEF NodesSettled
<1>. QED  BY <1>2, <1>3, <1>8, <1>9, <1>10, <1>11, <1>12, <1>13 DEF NodesInv

\* NodeService.handle() commits: the rest of the setups lies in the period of the
\* last node.
LEMMA NodesCommitKeepsNodesInv ==
    ASSUME NodesInv, NodesCommit
    PROVE  NodesInv'
<1>1. /\ walk = "walking" /\ UNCHANGED vars
      /\ updated' = updated /\ nodes' = saved /\ nodesHandled' = nodesHandled + 1
      /\ nodesRolledBack' = FALSE /\ chronological' = chronological
      /\ walk' = "idle" /\ unvisited' = {} /\ nodePeriod' = {} /\ saved' = {}
      /\ unvisited = {} \/ IsOpenEnded
  BY DEF NodesCommit, WalkEnds
<1>2. /\ RowsInv' /\ setups' = setups /\ handled' = handled /\ pc' = pc
      /\ Valid(setups)' = Valid(setups) /\ Current' = Current /\ Clear' = Clear
  BY <1>1, StepOfWalk
<1>3. NodesCounting'
  <2>1. updated + nodesHandled + 1 <= handled
    BY <1>1 DEF NodesInv, NodesCounting
  <2>2. handled \in Nat
    BY DEF NodesInv, RowsInv, SetupsInv, TypeInv, Counting
  <2>. QED  BY <1>1, <1>2, <2>1, <2>2 DEF NodesInv, NodesCounting
<1>4. WalkInv'
  <2>1. chronological' \in BOOLEAN
    BY <1>1 DEF NodesInv, WalkInv
  <2>. QED  BY <1>1, <2>1 DEF WalkInv, Idle
<1>5. Table(nodes, setups)' /\ Table(saved, setups)'
  <2>1. Table(saved, setups) /\ Table({}, setups)
    BY EmptyTable DEF NodesInv
  <2>. QED  BY <1>1, <1>2, <2>1 DEF Table
<1>6. /\ RowsInv /\ Table(saved, setups) /\ unvisited \subseteq Valid(setups)
      /\ Done(saved, unvisited) /\ LastNode
  BY <1>1 DEF NodesInv, WalkInv
<1>7. ASSUME Clear, NEW r \in unvisited
      PROVE  Reached(saved, r) /\ (chronological => Covered(saved, r))
  BY <1>1, <1>6, <1>7, OpenEnded
<1>8. Done(saved, {})
  BY <1>6, <1>7 DEF Done
<1>9. Done(nodes, {})'
  BY <1>1, <1>2, <1>8 DEF Done, NoneOfInvalidated, Reached, Covered
<1>. QED  BY <1>1, <1>2, <1>3, <1>4, <1>5, <1>9 DEF NodesInv

\* A fault during NodeService.handle() leaves the tables as they were.
LEMMA NodesFaultKeepsNodesInv ==
    ASSUME NodesInv, NodesFault
    PROVE  NodesInv'
<1>1. /\ walk = "walking" /\ nodesRolledBack' = TRUE /\ chronological' = chronological
      /\ updated' = updated /\ nodes' = nodes /\ nodesHandled' = nodesHandled
      /\ walk' = "idle" /\ unvisited' = {} /\ nodePeriod' = {} /\ saved' = {}
      /\ faults < MaxFaults /\ faults' = faults + 1
      /\ siteLog' = siteLog /\ uploads' = uploads /\ pending' = pending
      /\ pc' = pc /\ unread' = unread /\ view' = view /\ replaced' = replaced
      /\ setups' = setups /\ handled' = handled /\ rolledBack' = rolledBack
  BY DEF NodesFault, WalkEnds, uploading, reading
<1>2. Valid(setups)' = Valid(setups) /\ Current' = Current
  BY <1>1 DEF Valid, Current, SetupsOf
<1>3. RowsInv'
  <2>1. TypeInv'
    <3>1. faults' \in 0 .. MaxFaults
      BY <1>1, UpdatesAssumption DEF NodesInv, RowsInv, SetupsInv, TypeInv, TypeOK
    <3>2. TypeOK'
      BY <1>1, <3>1 DEF NodesInv, RowsInv, SetupsInv, TypeInv, TypeOK
    <3>3. Counting'
      BY <1>1 DEF NodesInv, RowsInv, SetupsInv, TypeInv, Counting
    <3>. QED  BY <1>1, <3>2, <3>3 DEF NodesInv, RowsInv, SetupsInv, TypeInv
  <2>2. OneRowEach' /\ Reading' /\ UpToDate' /\ ValidSetupsAreTimeline'
    BY <1>1, <1>2 DEF NodesInv, RowsInv, SetupsInv, OneRowEach, Reading, UpToDate, Settled,
                      ValidSetupsAreTimeline
  <2>3. OneRowPerId' /\ RowsFit' /\ EndsMeet(Current)'
    BY <1>1, <1>2 DEF NodesInv, RowsInv, OneRowPerId, SetupId, RowsFit, EndsMeet
  <2>. QED  BY <2>1, <2>2, <2>3 DEF RowsInv, SetupsInv
<1>4. NodesCounting'
  <2>1. updated + nodesHandled + 1 <= handled
    BY <1>1 DEF NodesInv, NodesCounting
  <2>2. handled \in Nat
    BY DEF NodesInv, RowsInv, SetupsInv, TypeInv, Counting
  <2>. QED  BY <1>1, <2>1, <2>2 DEF NodesInv, NodesCounting
<1>5. WalkInv'
  <2>1. chronological' \in BOOLEAN
    BY <1>1 DEF NodesInv, WalkInv
  <2>. QED  BY <1>1, <2>1 DEF WalkInv, Idle
<1>6. Table(nodes, setups)' /\ Table(saved, setups)'
  <2>1. Table(nodes, setups) /\ Table({}, setups)
    BY EmptyTable DEF NodesInv
  <2>. QED  BY <1>1, <2>1 DEF Table
<1>7. ~NodesSettled'
  BY <1>1 DEF NodesSettled
<1>. QED  BY <1>1, <1>3, <1>4, <1>5, <1>6, <1>7 DEF NodesInv

LEMMA StepNodesInv == NodesInv /\ [NodesNext]_<<vars, nodeVars>> => NodesInv'
<1>. SUFFICES ASSUME NodesInv, [NodesNext]_<<vars, nodeVars>> PROVE NodesInv'
  OBVIOUS
<1>1. walk = "walking" => pc = "idle"
  BY DEF NodesInv, WalkInv
<1>2. ASSUME [Next]_vars, UNCHANGED nodeVars, handled' = handled, walk = "walking" => pc' = "idle"
      PROVE  NodesInv'
  <2>1. ~HandleCommit
    <3>1. handled \in Nat
      BY DEF NodesInv, RowsInv, SetupsInv, TypeInv, Counting
    <3>. QED  BY <1>2, <3>1 DEF HandleCommit
  <2>2. RowsInv' /\ setups' = setups
    BY <1>2, <2>1, StepRows, OnlyCommitsSave DEF NodesInv
  <2>. QED  BY <1>2, <2>2, QuietKeepsNodesInv
<1>3. CASE Unrelated /\ UNCHANGED nodeVars
  <2>1. ASSUME NEW items \in Logs, Upload(items)
        PROVE  NodesInv'
    <3>1. pc' = pc /\ handled' = handled /\ Next
      BY <2>1 DEF Upload, reading, Next
    <3>. QED  BY <1>1, <1>2, <1>3, <3>1
  <2>2. CASE HandlerFault
    <3>1. pc' = "idle" /\ handled' = handled /\ Next
      BY <2>2 DEF HandlerFault, HandlerRollsBack, Next
    <3>. QED  BY <1>2, <1>3, <3>1
  <2>. QED  BY <1>3, <2>1, <2>2 DEF Unrelated
<1>4. CASE SiteServiceStep /\ UNCHANGED <<walking, nodes, nodesHandled, nodesRolledBack, chronological>>
  <2>1. CASE HandleCommit /\ updated' = updated + 1
    BY <1>4, <2>1, CommitKeepsNodesInv
  <2>2. ASSUME UNCHANGED updated, [Next]_vars, handled' = handled, walk = "walking" => pc' = "idle"
        PROVE  NodesInv'
    <3>1. UNCHANGED nodeVars
      BY <1>4, <2>2 DEF nodeVars
    <3>. QED  BY <1>2, <2>2, <3>1
  <2>3. CASE BeginHandle /\ walk = "idle" /\ UNCHANGED updated
    <3>1. Next /\ handled' = handled
      BY <2>3 DEF BeginHandle, Next, CorsSiteService
    <3>. QED  BY <2>2, <2>3, <3>1
  <2>4. CASE (\E type \in Types : ReadItems(type)) /\ UNCHANGED updated
    <3>1. Next /\ handled' = handled /\ pc' = pc
      BY <2>4 DEF ReadItems, Next, CorsSiteService
    <3>. QED  BY <1>1, <2>2, <2>4, <3>1
  <2>5. CASE HandleFail /\ UNCHANGED updated
    <3>1. Next /\ handled' = handled /\ pc' = "idle"
      BY <2>5 DEF HandleFail, HandlerRollsBack, Next, CorsSiteService
    <3>. QED  BY <2>2, <2>5, <3>1
  <2>. QED  BY <1>4, <2>1, <2>3, <2>4, <2>5 DEF SiteServiceStep
<1>5. CASE BeginNodes
  BY <1>5, BeginKeepsNodesInv
<1>6. ASSUME NEW r \in unvisited, PassOver(r) \/ VisitComplete(r)
      PROVE  NodesInv'
  BY <1>6, PassOverKeepsNodesInv, VisitKeepsNodesInv
<1>7. CASE NodesCommit
  BY <1>7, NodesCommitKeepsNodesInv
<1>8. CASE NodesFault
  BY <1>8, NodesFaultKeepsNodesInv
<1>9. CASE UNCHANGED <<vars, nodeVars>>
  <2>1. UNCHANGED vars /\ UNCHANGED nodeVars
    BY <1>9
  <2>2. pc' = pc /\ handled' = handled
    BY <2>1 DEF vars, reading
  <2>. QED  BY <1>1, <1>2, <2>1, <2>2
<1>. QED  BY <1>3, <1>4, <1>5, <1>6, <1>7, <1>8, <1>9 DEF NodesNext, EventLoopStep, NodeService

------------------------------------------------------------------------------
\* The invariant of the nodes of a site.
THEOREM NodesInvariant == NodesSpec => []NodesInv
BY InitNodesInv, StepNodesInv, PTL DEF NodesSpec

\* The variables keep their types: every node refers to a row of the setups, and no
\* more events are handled than CorsSiteService.handle() published.
THEOREM NodeTypesAreKept == NodesSpec => []NodesTypeOK
<1>1. NodesInv => NodesTypeOK
  <2>. SUFFICES ASSUME NodesInv PROVE NodesTypeOK
    OBVIOUS
  <2>1. NodeTable(nodes) /\ NodeTable(saved)
    BY DEF NodesInv, Table, NodeRow, NodeTable
  <2>2. handled \in Nat
    BY DEF NodesInv, RowsInv, SetupsInv, TypeInv, Counting
  <2>3. updated \in 0 .. handled /\ nodesHandled \in 0 .. handled
    <3>1. updated \in Nat /\ nodesHandled \in Nat /\ updated + nodesHandled <= handled
      BY <2>2 DEF NodesInv, NodesCounting
    <3>. QED  BY <2>2, <3>1
  <2>. QED  BY <2>1, <2>3 DEF NodesInv, WalkInv, NodesTypeOK
<1>. QED  BY <1>1, NodesInvariant, PTL

\* No setup has two nodes, so findBySetupId() finds at most one (NodeService.handle).
THEOREM SetupsHaveOneNode == NodesSpec => []OneNodePerSetup
<1>1. NodesInv => OneNodePerSetup
  BY DEF NodesInv, Table, OneNodePerSetup
<1>. QED  BY <1>1, NodesInvariant, PTL

\* Nodes are invalidated with their setups, neither before nor, when every event is
\* handled, after them (NodeService.handle).
THEOREM NodesEndWithSetups == NodesSpec => []NodesFollowSetups
<1>1. NodesInv => NodesFollowSetups
  BY DEF NodesInv, Table, Done, NoneOfInvalidated, NodesFollowSetups
<1>. QED  BY <1>1, NodesInvariant, PTL

\* The period of a node contains the period of its setup (NodeService.lcd).
THEOREM NodesContainSetups == NodesSpec => []NodeContainsItsSetup
<1>1. NodesInv => NodeContainsItsSetup
  <2>. SUFFICES ASSUME NodesInv, NEW n \in nodes, ItemsWellFormed(n.setupId.setup)
                PROVE  /\ n.period.from = NoDate \/ n.period.from <= n.setupId.setup.from
                       /\ \/ n.period.to = NoDate
                          \/ Precedes(n.setupId.setup.to, n.period.to)
                          \/ n.setupId.setup.to = n.period.to
    BY DEF NodeContainsItsSetup
  <2>1. PICK r \in setups : SetupId(r) = n.setupId
    BY DEF NodesInv, Table
  <2>2. r \in Row /\ Fits(r.setup) /\ n.setupId.setup = r.setup
    BY <2>1 DEF NodesInv, RowsInv, RowsFit, SetupsInv, TypeInv, SetupId
  <2>3. /\ r.setup.from \in Dates /\ r.setup.inUse \in SUBSET LogItem
        /\ r.setup.to \in DateOrNull
    BY <2>2 DEF Row, SetupRecord
  <2>4. n.period \in NodePeriods(r.setup)
    BY <2>2 DEF NodesInv, Table
  <2>5. /\ n.period \in PeriodRecord
        /\ n.period.from = NoDate \/ n.period.from <= r.setup.from
        /\ n.period.to # NoDate => r.setup.to # NoDate /\ r.setup.to <= n.period.to
    BY <2>2, <2>3, <2>4, NodePeriodFits
  <2>6. n.period.to # NoDate => r.setup.to \in Nat /\ n.period.to \in Nat
    BY <2>3, <2>5, DatesAssumption DEF PeriodRecord, DateOrNull
  <2>. QED  BY <2>2, <2>5, <2>6 DEF Precedes
<1>. QED  BY <1>1, NodesInvariant, PTL

\* In any order of the setups, only a setup that begins before the end of a node is
\* left without a node of its own (NodeService.handle).
THEOREM OthersWerePassedOver == NodesSpec => []NodelessSetupsWerePassedOver
<1>1. NodesInv => NodelessSetupsWerePassedOver
  <2>. SUFFICES ASSUME NodesInv, NodesSettled, \A s \in Current : ~Ambiguous(s),
                       NEW r \in Valid(setups), IsComplete(r.setup)
                PROVE  \/ HasNode(r, ValidNodes)
                       \/ \E n \in ValidNodes : Precedes(r.setup.from, n.period.to)
    BY DEF NodelessSetupsWerePassedOver
  <2>1. Reached(nodes, r)
    BY DEF NodesInv, Done, Clear
  <2>. QED  BY <2>1 DEF Reached, HasNode, ValidNodes
<1>. QED  BY <1>1, NodesInvariant, PTL

\* In the order of time, there is a node for every date at which a receiver and an
\* antenna are installed (NodeService.handle).
THEOREM NodesCoverSetups == NodesSpec => []NodesCoverCompleteSetups
<1>1. NodesInv => NodesCoverCompleteSetups
  <2>. SUFFICES ASSUME NodesInv, chronological, NodesSettled,
                       \A s \in Current : ~Ambiguous(s) /\ ItemsWellFormed(s),
                       NEW s \in Current, NEW d \in Dates,
                       IsComplete(s), s.from <= d, Precedes(d, s.to)
                PROVE  \E n \in ValidNodes : NodeInEffect(n, d)
    BY DEF NodesCoverCompleteSetups
  <2>1. PICK r \in Valid(setups) : s = r.setup
    BY DEF Current, SetupsOf
  <2>2. Covered(nodes, r)
    BY <2>1 DEF NodesInv, Done, Clear
  <2>3. PICK n \in nodes : ~n.invalidated /\ Covers(n.period, r.setup)
    BY <2>2 DEF Covered
  <2>4. n.period \in PeriodRecord
    BY DEF NodesInv, Table, NodeRow
  <2>5. d \in Nat /\ s.from \in Nat /\ s.to \in DateOrNull
    BY <2>1, ValidSetups, DatesAssumption DEF NodesInv
  <2>6. n.period.from = NoDate \/ n.period.from <= d
    <3>1. n.period.from # NoDate => n.period.from \in Nat
      BY <2>4, DatesAssumption DEF PeriodRecord, DateOrNull
    <3>. QED  BY <2>1, <2>3, <2>5, <3>1 DEF Covers
  <2>7. Precedes(d, n.period.to)
    <3>1. n.period.to # NoDate => n.period.to \in Nat
      BY <2>4, DatesAssumption DEF PeriodRecord, DateOrNull
    <3>2. s.to # NoDate => s.to \in Nat
      BY <2>5, DatesAssumption DEF DateOrNull
    <3>. QED  BY <2>1, <2>3, <2>5, <3>1, <3>2 DEF Covers, Precedes
  <2>. QED  BY <2>3, <2>6, <2>7 DEF ValidNodes, NodeInEffect
<1>. QED  BY <1>1, NodesInvariant, PTL

------------------------------------------------------------------------------
\* The steps of the composition that change the setups are steps of the setups alone:
\* NodeService.handle() reads the table and leaves it as it is.
LEMMA OthersLeaveSetups ==
    [NodesNext]_<<vars, nodeVars>> => [Next]_vars \/ UNCHANGED setups
<1>. SUFFICES ASSUME [NodesNext]_<<vars, nodeVars>> PROVE [Next]_vars \/ UNCHANGED setups
  OBVIOUS
<1>1. CASE Unrelated
  BY <1>1 DEF Unrelated, Next
<1>2. CASE SiteServiceStep
  BY <1>2 DEF SiteServiceStep, Next, CorsSiteService
<1>3. CASE NodeService \/ NodesFault
  BY <1>3 DEF NodeService, NodesFault, BeginNodes, PassOver, VisitComplete, NodesCommit, vars
<1>4. CASE UNCHANGED <<vars, nodeVars>>
  BY <1>4
<1>. QED  BY <1>1, <1>2, <1>3, <1>4 DEF NodesNext, EventLoopStep

\* A fault of either handler counts, so that the setups' own steps are those above.
LEMMA StepFailedForLogInAll ==
    ASSUME NodesInv, FailedForLog, [NodesNext]_<<vars, nodeVars>>
    PROVE  FailedForLog'
<1>1. CASE [Next]_vars
  BY <1>1, StepFailedForLog DEF NodesInv, RowsInv, SetupsInv
<1>2. CASE NodesFault
  <2>1. faults \in Nat /\ faults' = faults + 1
    BY <1>2 DEF NodesFault, NodesInv, RowsInv, SetupsInv, TypeInv, TypeOK
  <2>. QED  BY <2>1 DEF FailedForLog
<1>3. CASE NodeService
  <2>1. UNCHANGED vars
    BY <1>3 DEF NodeService, BeginNodes, PassOver, VisitComplete, NodesCommit
  <2>. QED  BY <1>1, <2>1
<1>. QED
  BY <1>1, <1>2, <1>3
  DEF NodesNext, EventLoopStep, Unrelated, SiteServiceStep, Next, CorsSiteService

\* What CorsSiteService.handle() promises of the setups it keeps in the program as a
\* whole, where NodeService.handle() takes turns with it and fails as it does.
THEOREM SetupsKeepTheirPromises ==
    NodesSpec => /\ [](ValidSetupsAreTimeline /\ SettledSetupsDescribeLog)
                 /\ [](CurrentSetupIsFound /\ PeriodsAreFound /\ FailuresCostOneUpdate)
                 /\ HistoryIsKept
<1>1. NodesInv => /\ ValidSetupsAreTimeline /\ SettledSetupsDescribeLog
                  /\ CurrentSetupIsFound /\ PeriodsAreFound
  BY SettledFromInv, CurrentFromInv, PeriodsFromInv DEF NodesInv, RowsInv, SetupsInv
<1>2. NodesInv /\ FailedForLog => FailuresCostOneUpdate
  BY FailuresFromInv DEF NodesInv, RowsInv
<1>3. NodesInit => FailedForLog
  BY InitFailedForLog DEF NodesInit
<1>4. NodesInv /\ FailedForLog /\ [NodesNext]_<<vars, nodeVars>> => FailedForLog'
  BY StepFailedForLogInAll
<1>5. NodesInv /\ [NodesNext]_<<vars, nodeVars>> => [RowsStay]_vars
  <2>1. UNCHANGED setups => RowsStay
    BY DEF RowsStay
  <2>. QED  BY <2>1, OthersLeaveSetups, StepKeepsRows
<1>. QED
  BY <1>1, <1>2, <1>3, <1>4, <1>5, NodesInvariant, PTL DEF NodesSpec, HistoryIsKept, RowsStay

==============================================================================
