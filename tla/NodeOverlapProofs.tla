-------------------------- MODULE NodeOverlapProofs --------------------------
(***************************************************************************)
(* When two nodes of a site overlap, and that the nodes describe the site  *)
(* log: NodesOverlapOnlyInSecond and SettledNodesDescribeLog, on top of    *)
(* NodesInv.                                                               *)
(*                                                                         *)
(* Two nodes with the same receiver, antenna and clock have the same       *)
(* period, and two with different ones have periods that do not meet; so   *)
(* what matters is that the equipment of a node belongs to no earlier      *)
(* valid setup (Begins).  The walk over the setups gets there because the  *)
(* last node lasts at least as long as the equipment of every setup that   *)
(* was visited (Kept), and later uploads leave it so, as every row keeps   *)
(* its setup and the handler never recognises equipment without dates.     *)
(***************************************************************************)
EXTENDS NodeUpdatesProofs

SignificantInUse(s) == {i \in s.inUse : i.type \in Significant}

\* The period of the equipment of a setup that is not ambiguous
PeriodOf(s) == CommonPeriod(SignificantInUse(s))

HasAll(s) == IsComplete(s) /\ HasType(s, Clock)

\* The end d is not before the end e.
NoEarlier(d, e) == d = NoDate \/ (e # NoDate /\ e <= d)

------------------------------------------------------------------------------
\* What the setups record of the equipment.

\* Equipment of one setup is in use at every setup at whose beginning it is in
\* effect, and with each of its dates a setup begins.
Recorded(group) ==
    /\ \A s, t \in group : \A i \in s.inUse :
          /\ i.from = NoDate \/ i.from <= t.from
          /\ i.to # NoDate => i.from <= i.to /\ t.from < i.to
          => i \in t.inUse
    /\ \A s \in group : \A i \in s.inUse : \A d \in {i.from, i.to} \ {NoDate} :
          \E t \in group : t.from = d

LEMMA DerivedIsRecorded ==
    ASSUME NEW log \in SUBSET LogItem, ~GetSetupsFails(log)
    PROVE  Recorded(GetSetups(log))
<1> DEFINE changes == DatesOfChange(log)
           SetupAt(c) == [from |-> c, to |-> SetupEnd(changes, c),
                          inUse |-> {i \in CurrentItems(log) : c \in Spanned(i, changes)}]
<1>1. changes \in SUBSET Dates /\ changes \subseteq Nat
  BY DatesOfChangeAreDates, DatesAssumption
<1>2. \A s \in GetSetups(log) : s.from \in changes /\ s = SetupAt(s.from)
  BY DEF GetSetups
<1>3. \A c \in changes : SetupAt(c) \in GetSetups(log)
  BY DEF GetSetups
<1>4. \A c \in changes : /\ SetupAt(c).from = c
                         /\ SetupAt(c).inUse = {i \in CurrentItems(log) : c \in Spanned(i, changes)}
  OBVIOUS
<1>5. \A i \in CurrentItems(log) : /\ i \in LogItem /\ i.from \in DateOrNull /\ i.to \in DateOrNull
                                   /\ i.from # NoDate => i.from \in changes
                                   /\ i.to # NoDate => i.to \in changes
                                   /\ i.from = NoDate => i.to = NoDate
  BY DatesOfChangeAreDates DEF CurrentItems, LogItem, GetSetupsFails, Unplaceable
<1> HIDE DEF SetupAt
<1>6. \A s \in GetSetups(log) :
         s.inUse = {i \in CurrentItems(log) : s.from \in Spanned(i, changes)}
  BY <1>2, <1>4
<1> HIDE DEF changes
<1>7. ASSUME NEW s \in GetSetups(log), NEW t \in GetSetups(log), NEW i \in s.inUse,
             i.from = NoDate \/ i.from <= t.from,
             i.to # NoDate => i.from <= i.to /\ t.from < i.to
      PROVE  i \in t.inUse
  <2>1. i \in CurrentItems(log) /\ s.from \in Spanned(i, changes) /\ t.from \in changes
    BY <1>2, <1>6, <1>7
  <2>2. CASE i.from = NoDate
    <3>1. t.from \in Spanned(i, changes)
      BY <2>1, <2>2 DEF Spanned
    <3>. QED  BY <1>6, <2>1, <3>1
  <2>3. CASE i.from # NoDate
    <3>1. /\ i \in LogItem /\ i.from \in changes /\ i.to \in changes \union {NoDate}
          /\ i.to = NoDate \/ i.from <= i.to
      BY <1>5, <1>7, <2>1, <2>3
    <3>2. t.from \in Dates /\ t.from \in Nat /\ t.from <= t.from
      <4>1. t.from \in Dates /\ t.from \in Nat
        BY <1>1, <2>1
      <4>. QED  BY <4>1
    <3>3. Precedes(t.from, SetupEnd(changes, t.from))
      <4>1. \/ SetupEnd(changes, t.from) = NoDate
            \/ t.from < SetupEnd(changes, t.from)
        BY <1>1, <2>1, SetupEndIsNext
      <4>2. t.from # NoDate
        BY <3>2, DatesAssumption
      <4>. QED  BY <4>1, <4>2 DEF Precedes
    <3>4. t.from \in Spanned(i, changes) <=> InEffect(i, t.from)
      BY <1>1, <2>1, <3>1, <3>2, <3>3, SpannedIsInEffect
    <3>5. InEffect(i, t.from)
      <4>1. i.from <= t.from /\ t.from # NoDate
        BY <1>7, <2>3, <3>2, DatesAssumption
      <4>. QED  BY <1>7, <4>1 DEF InEffect, Precedes
    <3>. QED  BY <1>6, <2>1, <3>4, <3>5
  <2>. QED  BY <2>2, <2>3
<1>8. ASSUME NEW s \in GetSetups(log), NEW i \in s.inUse, NEW d \in {i.from, i.to} \ {NoDate}
      PROVE  \E t \in GetSetups(log) : t.from = d
  <2>1. d \in changes
    BY <1>5, <1>6, <1>8
  <2>. QED  BY <1>3, <1>4, <2>1
<1>. QED  BY <1>7, <1>8 DEF Recorded

------------------------------------------------------------------------------
\* The period of the equipment of a setup.

LEMMA PeriodBounds ==
    ASSUME NEW items \in SUBSET LogItem, NEW c \in Dates,
           \A i \in items : i.from # NoDate => i.from <= c
    PROVE  LET p == CommonPeriod(items)
           IN  /\ p.from \in DateOrNull /\ p.to \in DateOrNull
               /\ p.from # NoDate => p.from <= c /\ \E i \in items : i.from = p.from
               /\ p.to # NoDate => \E i \in items : i.to = p.to
               /\ \A i \in items : i.from # NoDate => p.from # NoDate /\ i.from <= p.from
               /\ \A i \in items : i.to # NoDate => p.to # NoDate /\ p.to <= i.to
<1> DEFINE froms == {i.from : i \in items} \ {NoDate}
           tos == {i.to : i \in items} \ {NoDate}
<1>1. CommonPeriod(items).from = LatestFrom(items) /\ CommonPeriod(items).to = EarliestTo(items)
  BY DEF CommonPeriod
<1>2. \/ LatestFrom(items) = NoDate
      \/ LatestFrom(items) \in Dates /\ LatestFrom(items) <= c
  BY LatestFromIsFrom
<1>3. \/ EarliestTo(items) = NoDate
      \/ EarliestTo(items) \in Dates /\ \E i \in items : i.to = EarliestTo(items)
  BY EarliestToIsTo
<1>4. /\ froms \in SUBSET Nat /\ froms \subseteq Dates /\ tos \in SUBSET Nat /\ tos \subseteq Dates
      /\ c \in Nat /\ \A d \in froms : d <= c
  BY DatesAssumption DEF LogItem, DateOrNull
<1>5. /\ \A i \in items : i.from # NoDate => i.from \in froms
      /\ \A i \in items : i.to # NoDate => i.to \in tos
      /\ \A d \in froms : \E i \in items : i.from = d
  OBVIOUS
<1>6. /\ froms # {} => LatestFrom(items) = CHOOSE d \in froms : \A e \in froms : e <= d
      /\ tos # {} => EarliestTo(items) = CHOOSE d \in tos : \A e \in tos : d <= e
      /\ froms = {} => LatestFrom(items) = NoDate
  BY DEF LatestFrom, EarliestTo
<1> HIDE DEF froms, tos
<1>7. ASSUME froms # {}
      PROVE  LatestFrom(items) \in froms /\ \A e \in froms : e <= LatestFrom(items)
  <2>1. PICK x \in froms : x \in Nat /\ x <= c
    BY <1>4, <1>7
  <2>2. \A n \in Nat : \A y \in froms : y <= n =>
           \E d \in froms : d <= n /\ \A e \in froms : e <= n => e <= d
    BY ONLY <1>4, LastUpTo, Zenon
  <2>3. PICK d \in froms : d <= c /\ \A e \in froms : e <= c => e <= d
    BY ONLY <1>4, <2>1, <2>2
  <2>4. \E m \in froms : \A e \in froms : e <= m
    BY <1>4, <2>3
  <2>. QED  BY <1>6, <1>7, <2>4
<1>8. ASSUME tos # {}
      PROVE  EarliestTo(items) \in tos /\ \A e \in tos : EarliestTo(items) <= e
  <2>1. \E d \in tos : \A e \in tos : d <= e
    BY <1>4, <1>8, LeastNumber
  <2>. QED  BY <1>6, <1>8, <2>1
<1>9. \A i \in items : i.from # NoDate => LatestFrom(items) # NoDate /\ i.from <= LatestFrom(items)
  <2>1. \A d \in froms : d # NoDate
    BY <1>4, DatesAssumption
  <2>. QED  BY <1>5, <1>7, <2>1
<1>10. \A i \in items : i.to # NoDate => EarliestTo(items) # NoDate /\ EarliestTo(items) <= i.to
  <2>1. \A d \in tos : d # NoDate
    BY <1>4, DatesAssumption
  <2>. QED  BY <1>5, <1>8, <2>1
<1>11. LatestFrom(items) # NoDate => \E i \in items : i.from = LatestFrom(items)
  BY <1>5, <1>6, <1>7
<1>. QED  BY <1>1, <1>2, <1>3, <1>9, <1>10, <1>11 DEF DateOrNull

\* The one choice of a setup that is not ambiguous
LEMMA OneChoice ==
    ASSUME NEW s, ~Ambiguous(s), NEW p \in NodePeriods(s)
    PROVE  p = PeriodOf(s)
<1>1. \A picked \in OneOfEachInUse(s) : picked = SignificantInUse(s)
  BY DEF OneOfEachInUse, Ambiguous, HasType, SignificantInUse
<1>. QED  BY <1>1 DEF NodePeriods, PeriodOf

\* The period of a valid setup contains the beginning of the setup.
LEMMA PeriodOfValid ==
    ASSUME RowsInv, NEW r \in Valid(setups)
    PROVE  LET p == PeriodOf(r.setup)
           IN  /\ p.from \in DateOrNull /\ p.to \in DateOrNull
               /\ p.from # NoDate =>
                     p.from <= r.setup.from /\ \E i \in SignificantInUse(r.setup) : i.from = p.from
               /\ p.to # NoDate => \E i \in SignificantInUse(r.setup) : i.to = p.to
               /\ \A i \in SignificantInUse(r.setup) :
                     /\ i.from # NoDate => p.from # NoDate /\ i.from <= p.from
                     /\ i.to # NoDate => p.to # NoDate /\ p.to <= i.to
<1>1. /\ r.setup.from \in Dates /\ SignificantInUse(r.setup) \in SUBSET LogItem
      /\ \A i \in SignificantInUse(r.setup) : i.from # NoDate => i.from <= r.setup.from
  BY ValidSetups DEF Fits, SignificantInUse
<1>. QED  BY <1>1, PeriodBounds DEF PeriodOf

LEMMA ValidBeginOnce ==
    ASSUME RowsInv, NEW q \in Valid(setups), NEW r \in Valid(setups), q.setup # r.setup
    PROVE  q.setup.from # r.setup.from
<1>1. /\ q.setup \in Current /\ q.setup.from \in Nat /\ q.setup.to \in DateOrNull
      /\ r.setup \in Current /\ r.setup.from \in Nat /\ r.setup.to \in DateOrNull
      /\ q.setup.from # NoDate /\ r.setup.from # NoDate
  BY ValidSetups
<1>2. /\ q.setup.to # NoDate => q.setup.to \in Nat /\ q.setup.from < q.setup.to
      /\ r.setup.to # NoDate => r.setup.to \in Nat /\ r.setup.from < r.setup.to
  BY <1>1, DatesAssumption
  DEF RowsInv, SetupsInv, ValidSetupsAreTimeline, IsTimeline, DateOrNull, Precedes
<1>3. \/ Precedes(q.setup.to, r.setup.from) \/ Precedes(r.setup.to, q.setup.from)
      \/ q.setup.to = r.setup.from \/ r.setup.to = q.setup.from
  BY <1>1 DEF RowsInv, SetupsInv, ValidSetupsAreTimeline, IsTimeline
<1>. QED  BY <1>1, <1>2, <1>3 DEF Precedes

LEMMA BeginsBeforeEnd ==
    ASSUME RowsInv, NEW r \in Valid(setups), ItemsWellFormed(r.setup)
    PROVE  Precedes(r.setup.from, PeriodOf(r.setup).to)
<1>1. /\ r.setup \in Current /\ r.setup.from \in Nat /\ r.setup.from # NoDate
      /\ r.setup.to \in DateOrNull /\ Fits(r.setup)
  BY ValidSetups
<1>2. Precedes(r.setup.from, r.setup.to)
  BY <1>1 DEF RowsInv, SetupsInv, ValidSetupsAreTimeline, IsTimeline
<1>3. ASSUME PeriodOf(r.setup).to # NoDate
      PROVE  r.setup.from < PeriodOf(r.setup).to
  <2>1. PICK i \in SignificantInUse(r.setup) : i.to = PeriodOf(r.setup).to
    BY <1>3, PeriodOfValid
  <2>2. /\ i.from # NoDate /\ i.from <= i.to
        /\ r.setup.to # NoDate /\ r.setup.to <= i.to
    BY <1>1, <1>3, <2>1 DEF SignificantInUse, Fits, ItemsWellFormed
  <2>3. i.to \in Nat /\ r.setup.to \in Nat
    BY <1>1, <1>3, <2>1, <2>2, PeriodOfValid, DatesAssumption DEF DateOrNull
  <2>4. r.setup.from < r.setup.to
    BY <1>2, <2>2 DEF Precedes
  <2>. QED  BY <1>1, <2>1, <2>2, <2>3, <2>4
<1>. QED  BY <1>1, <1>3 DEF Precedes

\* While all of its equipment is in effect, the setups have no other.
LEMMA SameEquipment ==
    ASSUME RowsInv, Recorded(Current), HistoryIsClear,
           NEW r \in Valid(setups), NEW q \in Valid(setups), HasAll(r.setup),
           PeriodOf(r.setup).from = NoDate \/ PeriodOf(r.setup).from <= q.setup.from,
           Precedes(q.setup.from, PeriodOf(r.setup).to)
    PROVE  HasAll(q.setup) /\ PeriodOf(q.setup) = PeriodOf(r.setup)
<1> DEFINE s == r.setup
           t == q.setup
           p == PeriodOf(s)
<1>1. /\ s \in Current /\ t \in Current /\ r \in setups /\ q \in setups
      /\ t.from \in Nat /\ Fits(s) /\ s.inUse \in SUBSET LogItem
  BY ValidSetups
<1>2. ~Ambiguous(t) /\ ItemsWellFormed(s)
  BY <1>1 DEF HistoryIsClear
<1>3. /\ p.from \in DateOrNull /\ p.to \in DateOrNull
      /\ \A i \in SignificantInUse(s) :
            /\ i.from # NoDate => p.from # NoDate /\ i.from <= p.from
            /\ i.to # NoDate => p.to # NoDate /\ p.to <= i.to
  BY PeriodOfValid
<1>4. \A i \in SignificantInUse(s) : /\ i \in s.inUse
                                     /\ i.from # NoDate => i.from \in Nat
                                     /\ i.to # NoDate => i.to \in Nat
                                     /\ i.to # NoDate => i.from # NoDate /\ i.from <= i.to
  BY <1>1, <1>2, DatesAssumption DEF SignificantInUse, LogItem, DateOrNull, Fits, ItemsWellFormed
<1>5. /\ p.from # NoDate => p.from \in Nat /\ p.from <= t.from
      /\ p.to # NoDate => p.to \in Nat /\ t.from < p.to
  BY <1>3, DatesAssumption DEF DateOrNull, Precedes
<1> HIDE DEF s, t, p
<1>6. ASSUME NEW i \in SignificantInUse(s)
      PROVE  i \in SignificantInUse(t)
  <2>1. i.from = NoDate \/ i.from <= t.from
    BY <1>1, <1>3, <1>4, <1>5, <1>6
  <2>2. i.to # NoDate => i.from <= i.to /\ t.from < i.to
    BY <1>1, <1>3, <1>4, <1>5, <1>6
  <2>3. i \in t.inUse
    BY <1>1, <1>4, <1>6, <2>1, <2>2 DEF Recorded
  <2>. QED  BY <1>6, <2>3 DEF SignificantInUse
<1>7. ASSUME NEW type \in Significant
      PROVE  \E i \in SignificantInUse(s) : i.type = type
  BY <1>7 DEF HasAll, IsComplete, HasType, Significant, SignificantInUse, s
<1>8. ASSUME NEW j \in SignificantInUse(t)
      PROVE  j \in SignificantInUse(s)
  <2>1. PICK i \in SignificantInUse(s) : i.type = j.type
    BY <1>7, <1>8 DEF SignificantInUse
  <2>2. i = j
    BY <1>2, <1>6, <1>8, <2>1 DEF Ambiguous, SignificantInUse
  <2>. QED  BY <2>2
<1>9. SignificantInUse(t) = SignificantInUse(s)
  BY <1>6, <1>8
<1>10. HasAll(t)
  BY <1>7, <1>9 DEF HasAll, IsComplete, HasType, Significant, SignificantInUse
<1>. QED  BY <1>9, <1>10 DEF PeriodOf, s, t

\* A period that lasts beyond the beginning of a later setup lasts as long as the
\* equipment of that setup.
LEMMA LastsLonger ==
    ASSUME RowsInv, Recorded(Current), HistoryIsClear,
           NEW q \in Valid(setups), NEW r \in Valid(setups),
           q.setup.from <= r.setup.from, Precedes(r.setup.from, PeriodOf(q.setup).to)
    PROVE  NoEarlier(PeriodOf(q.setup).to, PeriodOf(r.setup).to)
<1> DEFINE s == q.setup
           t == r.setup
<1>1. /\ s \in Current /\ t \in Current /\ q \in setups
      /\ s.from \in Nat /\ t.from \in Nat /\ Fits(s) /\ s.inUse \in SUBSET LogItem
  BY ValidSetups
<1>2. ItemsWellFormed(s)
  BY <1>1 DEF HistoryIsClear
<1>3. SUFFICES ASSUME PeriodOf(s).to # NoDate
               PROVE  PeriodOf(t).to # NoDate /\ PeriodOf(t).to <= PeriodOf(s).to
  BY DEF NoEarlier
<1>4. PICK i \in SignificantInUse(s) : i.to = PeriodOf(s).to
  BY <1>3, PeriodOfValid
<1>5. i \in s.inUse /\ i.to # NoDate /\ i.from # NoDate /\ i.from <= i.to /\ i.from <= s.from
      /\ i.from \in Nat
  BY <1>1, <1>2, <1>3, <1>4, DatesAssumption
  DEF SignificantInUse, LogItem, DateOrNull, Fits, ItemsWellFormed
<1>6. t.from < i.to
  BY <1>3, <1>4 DEF Precedes
<1>7. i.from <= t.from
  BY <1>1, <1>5
<1>8. i \in t.inUse
  BY <1>1, <1>5, <1>6, <1>7 DEF Recorded
<1>9. i \in SignificantInUse(t)
  BY <1>4, <1>8 DEF SignificantInUse
<1>. QED  BY <1>4, <1>5, <1>9, PeriodOfValid

\* An instant between two of one second is of that second.
LEMMA BetweenIsSameSecond ==
    ASSUME NEW d \in Nat, NEW e \in Nat, NEW f \in Nat, d <= e, e <= f, SameSecond(f, d)
    PROVE  SameSecond(e, d)
<1>1. Second \in Nat /\ Second > 0
  BY NodesAssumption
<1>2. /\ d \div Second \in Int /\ e \div Second \in Int /\ f \div Second \in Int
      /\ d \div Second <= e \div Second
      /\ e \div Second <= f \div Second
  BY <1>1
<1>. QED  BY <1>2 DEF SameSecond

\* What compareTo() says of later instants.
LEMMA LaterIsOne ==
    ASSUME NEW d \in Nat, NEW e \in Nat, e < d, CompareTo(d, e) # 1
    PROVE  SameSecond(d, e)
BY DEF CompareTo, SameSecond

------------------------------------------------------------------------------
\* The inductive invariant.

\* The equipment of the setup is not that of an earlier valid setup, or is gone
\* within the second.
Begins(r) ==
    LET p == PeriodOf(r.setup)
    IN  \/ p.from = r.setup.from
        \/ p.to # NoDate /\ SameSecond(p.to, r.setup.from)
        \/ p.from = NoDate /\ \A s \in Current : r.setup.from <= s.from

NodesBegin(table) ==
    \A n \in table, r \in Valid(setups) :
        n.setupId = SetupId(r) /\ HasAll(r.setup) => Begins(r)

NodesAreComplete(table) == \A n \in table : IsComplete(n.setupId.setup)

\* The setups that were visited come before the others.
InOrder ==
    \A r \in Valid(setups) \ unvisited, q \in unvisited : r.setup.from <= q.setup.from

\* While the equipment of a setup that was visited is in effect, the last node lasts
\* as long.
Kept ==
    \A r \in Valid(setups) \ unvisited, q \in unvisited :
        HasAll(r.setup) /\ Precedes(q.setup.from, PeriodOf(r.setup).to) =>
            \E p \in nodePeriod : NoEarlier(p.to, PeriodOf(r.setup).to)

ClearInOrder == chronological /\ HistoryIsClear

OverlapInv ==
    /\ Recorded(Current)
    /\ NodesAreComplete(nodes) /\ NodesAreComplete(saved)
    /\ ClearInOrder => NodesBegin(nodes) /\ NodesBegin(saved)
    /\ walk = "walking" /\ ClearInOrder => InOrder /\ Kept

LEMMA InitOverlapInv == NodesInit => OverlapInv
<1>1. NodesInit => setups = {} /\ nodes = {} /\ saved = {} /\ walk = "idle"
  BY DEF NodesInit, Init
<1>. QED
  BY <1>1 DEF OverlapInv, Recorded, Current, SetupsOf, Valid, NodesBegin, NodesAreComplete

\* Steps that leave the setups and the tables of nodes alone.
LEMMA QuietKeepsOverlapInv ==
    ASSUME OverlapInv, UNCHANGED <<setups, nodes, chronological, walk, saved, unvisited, nodePeriod>>
    PROVE  OverlapInv'
<1>1. Valid(setups)' = Valid(setups) /\ Current' = Current /\ (HistoryIsClear' <=> HistoryIsClear)
  BY DEF Valid, Current, SetupsOf, HistoryIsClear
<1>2. \A r : Begins(r)' <=> Begins(r)
  BY <1>1 DEF Begins
<1>3. Recorded(Current)'
  BY <1>1 DEF OverlapInv, Recorded
<1>4. (NodesBegin(nodes)' <=> NodesBegin(nodes)) /\ (NodesBegin(saved)' <=> NodesBegin(saved))
  BY <1>1, <1>2 DEF NodesBegin
<1>5. (InOrder' <=> InOrder) /\ (Kept' <=> Kept)
  BY <1>1 DEF InOrder, Kept
<1>6. ClearInOrder' <=> ClearInOrder
  BY <1>1 DEF ClearInOrder
<1>7. NodesAreComplete(nodes)' /\ NodesAreComplete(saved)'
  BY DEF OverlapInv, NodesAreComplete
<1>. QED  BY <1>7, <1>3, <1>4, <1>5, <1>6 DEF OverlapInv

\* What CorsSiteService.handle() keeps it has recognised, by the dates of equipment
\* that has some; no node refers to what it adds.
LEMMA KeptRowsAreDated ==
    ASSUME NodesInv, HandleCommit, NEW n \in nodes, NEW r \in Valid(setups'), n.setupId = SetupId(r)
    PROVE  r \in Valid(setups) /\ \A i \in r.setup.inUse : i.from # NoDate
<1>1. PICK unequal : setups' = Saved(GetSetups(view), unequal)
  BY DEF HandleCommit
<1> DEFINE common == Common(GetSetups(view), unequal)
           gone == Valid(setups) \ common
           added == Inserted(GetSetups(view) \ SetupsOf(common))
<1>2. setups' = ((setups \ gone) \union Invalidated(gone)) \union added
  BY <1>1 DEF Saved
<1>3. r \in setups' /\ ~r.invalidated
  BY DEF Valid
<1>4. r \notin added
  <2>1. \A q \in added : q.created = handled
    BY DEF Inserted
  <2>2. PICK q \in setups : SetupId(q) = n.setupId
    BY DEF NodesInv, Table
  <2>3. q.created \in Nat /\ q.created < handled /\ handled \in Nat
    BY DEF NodesInv, RowsInv, SetupsInv, TypeInv, TypeOK, Row, Counting
  <2>4. q.created = r.created
    BY <2>2 DEF SetupId
  <2>. QED  BY <2>1, <2>3, <2>4
<1>5. r \notin Invalidated(gone)
  <2>1. \A q \in gone : [q EXCEPT !.invalidated = TRUE].invalidated = TRUE
    BY InvalidatedRow DEF NodesInv, RowsInv, SetupsInv, TypeInv, Valid
  <2>. QED  BY <1>3, <2>1 DEF Invalidated
<1>6. r \in setups /\ r \in common
  BY <1>2, <1>3, <1>4, <1>5 DEF Valid
<1>. QED  BY <1>3, <1>6 DEF Common, NewConfiguration, Valid

LEMMA CommitKeepsOverlapInv ==
    ASSUME NodesInv, OverlapInv, HandleCommit, UNCHANGED <<walking, nodes, chronological>>
    PROVE  OverlapInv'
<1>1. Recorded(Current)'
  <2>1. Current' = GetSetups(view)
    BY CommitSaves DEF NodesInv, RowsInv, SetupsInv
  <2>2. view \in SUBSET LogItem /\ ~GetSetupsFails(view)
    BY ViewsAreItems DEF HandleCommit, NodesInv, RowsInv, SetupsInv, TypeInv
  <2>3. Recorded(GetSetups(view))
    BY <2>2, DerivedIsRecorded
  <2>. QED  BY <2>1, <2>3 DEF Recorded
<1>2. walk' = "idle" /\ saved' = {} /\ nodes' = nodes /\ chronological' = chronological
  BY DEF walking, HandleCommit, NodesInv, WalkInv, Idle
<1>3. ClearInOrder' => ClearInOrder
  <2>1. \A r \in setups : \E q \in setups' : q.setup = r.setup
    BY CommitKeepsIds DEF NodesInv, SetupId
  <2>. QED  BY <1>2, <2>1 DEF ClearInOrder, HistoryIsClear
<1>4. ASSUME ClearInOrder', NEW n \in nodes, NEW r \in Valid(setups'),
             n.setupId = SetupId(r), HasAll(r.setup)
      PROVE  Begins(r)'
  <2>1. r \in Valid(setups) /\ \A i \in r.setup.inUse : i.from # NoDate
    BY <1>4, KeptRowsAreDated
  <2>2. Begins(r)
    BY <1>3, <1>4, <2>1 DEF OverlapInv, NodesBegin
  <2>3. PeriodOf(r.setup).from # NoDate
    <3>1. PICK i \in SignificantInUse(r.setup) : i.from # NoDate
      BY <1>4, <2>1 DEF HasAll, HasType, SignificantInUse, Significant
    <3>. QED  BY <2>1, <3>1, PeriodOfValid DEF NodesInv
  <2>. QED  BY <2>2, <2>3 DEF Begins
<1>5. ClearInOrder' => NodesBegin(nodes)' /\ NodesBegin(saved)'
  BY <1>2, <1>4 DEF NodesBegin
<1>6. NodesAreComplete(nodes)' /\ NodesAreComplete(saved)'
  BY <1>2 DEF OverlapInv, NodesAreComplete
<1>. QED  BY <1>1, <1>2, <1>5, <1>6 DEF OverlapInv

LEMMA BeginKeepsOverlapInv ==
    ASSUME NodesInv, OverlapInv, BeginNodes
    PROVE  OverlapInv'
<1>1. /\ setups' = setups /\ nodes' = nodes /\ chronological' = chronological
      /\ unvisited' = Valid(setups) /\ saved' = NodesInvalidated(nodes)
  BY DEF BeginNodes, vars
<1>2. Valid(setups)' = Valid(setups) /\ Current' = Current /\ (HistoryIsClear' <=> HistoryIsClear)
  BY <1>1 DEF Valid, Current, SetupsOf, HistoryIsClear
<1>3. \A r : Begins(r)' <=> Begins(r)
  BY <1>2 DEF Begins
<1>4. Recorded(Current)'
  BY <1>2 DEF OverlapInv, Recorded
<1>5. \A m \in saved' : \E n \in nodes : m.setupId = n.setupId
  <2>1. \A n \in nodes, flag \in BOOLEAN : [n EXCEPT !.invalidated = flag].setupId = n.setupId
    BY NodeWithFlag DEF NodesInv, Table
  <2>2. \A n \in nodes : n.invalidated \in BOOLEAN
    BY DEF NodesInv, Table, NodeRow
  <2>. QED  BY <1>1, <2>1, <2>2 DEF NodesInvalidated
<1>6. ClearInOrder' => NodesBegin(nodes)' /\ NodesBegin(saved)'
  BY <1>1, <1>2, <1>3, <1>5 DEF OverlapInv, ClearInOrder, NodesBegin
<1>7. InOrder' /\ Kept'
  BY <1>1, <1>2 DEF InOrder, Kept
<1>8. NodesAreComplete(nodes)' /\ NodesAreComplete(saved)'
  BY <1>1, <1>5 DEF OverlapInv, NodesAreComplete
<1>. HIDE DEF InOrder, Kept, NodesBegin, NodesAreComplete, Recorded
<1>. QED  BY <1>4, <1>6, <1>7, <1>8 DEF OverlapInv

LEMMA PassOverKeepsOverlapInv ==
    ASSUME NodesInv, OverlapInv, NEW r \in unvisited, PassOver(r)
    PROVE  OverlapInv'
<1>1. /\ setups' = setups /\ nodes' = nodes /\ chronological' = chronological
      /\ walk = "walking" /\ nodePeriod' = nodePeriod /\ saved' = saved
      /\ unvisited' = unvisited \ {r}
      /\ chronological => \A u \in unvisited : r.setup.from <= u.setup.from
      /\ IsPassedOver(r.setup) \/ ~IsComplete(r.setup)
  BY DEF PassOver, IsNext, vars
<1>2. Valid(setups)' = Valid(setups) /\ Current' = Current /\ (HistoryIsClear' <=> HistoryIsClear)
  BY <1>1 DEF Valid, Current, SetupsOf, HistoryIsClear
<1>3. \A q : Begins(q)' <=> Begins(q)
  BY <1>2 DEF Begins
<1>4. Recorded(Current)'
  BY <1>2 DEF OverlapInv, Recorded
<1>5. ClearInOrder' => NodesBegin(nodes)' /\ NodesBegin(saved)'
  BY <1>1, <1>2, <1>3 DEF OverlapInv, ClearInOrder, NodesBegin
<1>6. ASSUME ClearInOrder, HasAll(r.setup)
      PROVE  \E p \in nodePeriod : NoEarlier(p.to, PeriodOf(r.setup).to)
  <2>1. PICK p \in nodePeriod : p.to # NoDate /\ CompareTo(p.to, r.setup.from) = 1
    BY <1>1, <1>6 DEF HasAll, IsPassedOver
  <2>2. RowsInv /\ Table(saved, setups) /\ LastNode /\ r \in Valid(setups)
    BY <1>1 DEF NodesInv, WalkInv
  <2>3. Clear
    BY <1>6 DEF ClearInOrder, HistoryIsClear, Clear, Current, SetupsOf, Valid
  <2>4. PICK n \in saved, q \in Valid(setups) :
           /\ n.setupId = SetupId(q) /\ n.period = p /\ q.setup.from <= r.setup.from
    BY <1>6, <2>1, <2>2, <2>3 DEF LastNode, ClearInOrder
  <2>5. p = PeriodOf(q.setup)
    <3>1. p \in NodePeriods(q.setup)
      BY <2>2, <2>4, ValidSetups DEF Table
    <3>2. ~Ambiguous(q.setup)
      BY <2>2, <2>3, ValidSetups DEF Clear
    <3>. QED  BY <3>1, <3>2, OneChoice
  <2>6. Precedes(r.setup.from, p.to)
    <3>1. p.to \in Nat
      BY <2>1, <2>2, <2>5, PeriodOfValid, DatesAssumption DEF DateOrNull
    <3>2. r.setup.from \in Nat /\ r.setup.from # NoDate
      BY <2>2, ValidSetups
    <3>. QED  BY <2>1, <3>1, <3>2, OneIsLater DEF Precedes
  <2>7. NoEarlier(p.to, PeriodOf(r.setup).to)
    BY <1>6, <2>2, <2>4, <2>5, <2>6, LastsLonger DEF OverlapInv, ClearInOrder
  <2>. QED  BY <2>7
<1>7. ClearInOrder => InOrder' /\ Kept'
  <2>. SUFFICES ASSUME ClearInOrder PROVE InOrder' /\ Kept'
    OBVIOUS
  <2>1. InOrder /\ Kept
    BY <1>1 DEF OverlapInv
  <2>2. \A q : q \in Valid(setups) \ unvisited' => q \in Valid(setups) \ unvisited \/ q = r
    BY <1>1
  <2>3. InOrder'
    BY <1>1, <1>2, <2>1, <2>2 DEF InOrder, ClearInOrder
  <2>4. Kept'
    BY <1>1, <1>2, <1>6, <2>1, <2>2 DEF Kept
  <2>. QED  BY <2>3, <2>4
<1>8. ClearInOrder' => ClearInOrder
  BY <1>1, <1>2 DEF ClearInOrder
<1>9. NodesAreComplete(nodes)' /\ NodesAreComplete(saved)'
  BY <1>1 DEF OverlapInv, NodesAreComplete
<1>. QED  BY <1>4, <1>5, <1>7, <1>8, <1>9 DEF OverlapInv

\* A setup that is neither passed over nor the end of the walk shares its equipment
\* with no earlier setup, unless that is gone within the second.
LEMMA VisitedBegins ==
    ASSUME NodesInv, OverlapInv, ClearInOrder, NEW r \in unvisited, walk = "walking",
           HasAll(r.setup), ~IsOpenEnded, ~IsPassedOver(r.setup),
           \A u \in unvisited : r.setup.from <= u.setup.from
    PROVE  Begins(r)
<1> DEFINE s == r.setup
           p == PeriodOf(r.setup)
<1>1. /\ RowsInv /\ Recorded(Current) /\ HistoryIsClear /\ r \in Valid(setups) /\ Kept
      /\ chronological
  BY DEF NodesInv, WalkInv, OverlapInv, ClearInOrder
<1>2. s.from \in Nat /\ s.from # NoDate /\ s \in Current /\ ItemsWellFormed(s)
  BY <1>1, ValidSetups DEF HistoryIsClear
<1>3. /\ p.from # NoDate => p.from \in Nat /\ p.from <= s.from
                            /\ \E i \in SignificantInUse(s) : i.from = p.from
      /\ p.to # NoDate => p.to \in Nat
  BY <1>1, PeriodOfValid, DatesAssumption DEF DateOrNull
<1>4. p.to # NoDate => s.from < p.to
  BY <1>1, <1>2, BeginsBeforeEnd DEF Precedes
<1>5. ASSUME NEW t \in Current, t.from < s.from, p.from = NoDate \/ p.from <= t.from
      PROVE  p.to # NoDate /\ SameSecond(p.to, s.from)
  <2>1. PICK q \in Valid(setups) : q.setup = t
    BY DEF Current, SetupsOf
  <2>2. t.from \in Nat /\ t.from # NoDate
    BY <1>1, <2>1, ValidSetups
  <2>3. q \notin unvisited
    BY <1>2, <1>5, <2>1, <2>2
  <2>4. Precedes(q.setup.from, p.to)
    BY <1>2, <1>3, <1>4, <1>5, <2>1, <2>2 DEF Precedes
  <2>5. HasAll(q.setup) /\ PeriodOf(q.setup) = p
    <3>1. p.from = NoDate \/ p.from <= q.setup.from
      BY <1>5, <2>1
    <3>. QED  BY <1>1, <2>4, <3>1, SameEquipment
  <2>6. Precedes(s.from, PeriodOf(q.setup).to)
    BY <1>2, <1>4, <2>5 DEF Precedes
  <2>7. PICK last \in nodePeriod : NoEarlier(last.to, p.to)
    BY <1>1, <2>3, <2>5, <2>6 DEF Kept
  <2>8. last.to # NoDate /\ p.to # NoDate /\ p.to <= last.to
    BY <2>7 DEF IsOpenEnded, NoEarlier
  <2>9. last.to \in Nat
    BY <2>8, DatesAssumption DEF NodesInv, WalkInv, PeriodRecord, DateOrNull
  <2>10. CompareTo(last.to, s.from) # 1
    BY <2>8 DEF IsPassedOver
  <2>11. s.from < last.to
    BY <1>2, <1>3, <1>4, <2>8, <2>9
  <2>12. SameSecond(last.to, s.from)
    BY <1>2, <2>9, <2>10, <2>11, LaterIsOne
  <2>13. s.from <= p.to /\ p.to \in Nat
    BY <1>2, <1>3, <1>4, <2>8
  <2>. QED  BY <1>2, <2>8, <2>9, <2>12, <2>13, BetweenIsSameSecond
<1>6. CASE p.from # NoDate /\ p.from # s.from
  <2>1. PICK i \in s.inUse : i.from = p.from
    BY <1>3, <1>6 DEF SignificantInUse
  <2>2. PICK t \in Current : t.from = p.from
    BY <1>1, <1>2, <1>6, <2>1 DEF Recorded
  <2>3. t.from < s.from /\ p.from <= t.from
    BY <1>2, <1>3, <1>6, <2>2
  <2>. QED  BY <1>5, <2>3 DEF Begins
<1>7. CASE p.from = NoDate
  <2>1. CASE \E t \in Current : t.from < s.from
    BY <1>5, <1>7, <2>1 DEF Begins
  <2>2. CASE ~ \E t \in Current : t.from < s.from
    <3>1. \A t \in Current : t.from \in Nat
      BY <1>1, ValidSetups DEF Current, SetupsOf
    <3>2. \A t \in Current : s.from <= t.from
      BY <1>2, <2>2, <3>1
    <3>. QED  BY <1>7, <3>2 DEF Begins
  <2>. QED  BY <2>1, <2>2
<1>. QED  BY <1>6, <1>7 DEF Begins

LEMMA VisitKeepsOverlapInv ==
    ASSUME NodesInv, OverlapInv, NEW r \in unvisited, VisitComplete(r)
    PROVE  OverlapInv'
<1>1. PICK period \in NodePeriods(r.setup) :
         nodePeriod' = {period} /\ saved' = WithNode(r, period, saved)
  BY DEF VisitComplete
<1>2. /\ setups' = setups /\ nodes' = nodes /\ chronological' = chronological
      /\ walk = "walking" /\ unvisited' = unvisited \ {r}
      /\ ~IsOpenEnded /\ ~IsPassedOver(r.setup) /\ IsComplete(r.setup)
      /\ chronological => \A u \in unvisited : r.setup.from <= u.setup.from
  BY DEF VisitComplete, IsNext, vars
<1>3. Valid(setups)' = Valid(setups) /\ Current' = Current /\ (HistoryIsClear' <=> HistoryIsClear)
  BY <1>2 DEF Valid, Current, SetupsOf, HistoryIsClear
<1>4. \A q : Begins(q)' <=> Begins(q)
  BY <1>3 DEF Begins
<1>5. Recorded(Current)'
  BY <1>3 DEF OverlapInv, Recorded
<1>6. /\ RowsInv /\ Recorded(Current) /\ r \in Valid(setups) /\ r \in setups
      /\ unvisited \subseteq Valid(setups)
  BY DEF NodesInv, WalkInv, OverlapInv, Valid
<1>7. ASSUME ClearInOrder, NEW n \in saved', NEW q \in Valid(setups),
             n.setupId = SetupId(q), HasAll(q.setup)
      PROVE  Begins(q)
  <2>1. n \in saved \/ n = NewNode(r, period)
    BY <1>1 DEF WithNode
  <2>2. CASE n \in saved
    BY <1>7, <2>2 DEF OverlapInv, NodesBegin
  <2>3. CASE n = NewNode(r, period)
    <3>1. SetupId(q) = SetupId(r)
      BY <1>7, <2>3 DEF NewNode
    <3>2. q = r
      BY <1>6, <3>1 DEF RowsInv, OneRowPerId, Valid
    <3>. QED  BY <1>2, <1>7, <3>2, VisitedBegins DEF ClearInOrder
  <2>. QED  BY <2>1, <2>2, <2>3
<1>8. ClearInOrder' => ClearInOrder
  BY <1>2, <1>3 DEF ClearInOrder
<1>9. ClearInOrder' => NodesBegin(nodes)' /\ NodesBegin(saved)'
  <2>1. ClearInOrder' => NodesBegin(nodes)'
    BY <1>2, <1>3, <1>4, <1>8 DEF OverlapInv, NodesBegin
  <2>2. ClearInOrder' => NodesBegin(saved)'
    BY <1>3, <1>4, <1>7, <1>8 DEF NodesBegin
  <2>. QED  BY <2>1, <2>2
<1>10. ASSUME ClearInOrder
       PROVE  InOrder' /\ Kept'
  <2>1. InOrder /\ Kept /\ HistoryIsClear /\ chronological
    BY <1>2, <1>10 DEF OverlapInv, ClearInOrder
  <2>2. \A q : q \in Valid(setups) \ unvisited' => q \in Valid(setups) \ unvisited \/ q = r
    BY <1>2
  <2>3. InOrder'
    BY <1>2, <1>3, <2>1, <2>2 DEF InOrder
  <2>4. period = PeriodOf(r.setup)
    BY <1>1, <1>6, <2>1, OneChoice DEF HistoryIsClear
  <2>5. ASSUME NEW v \in Valid(setups) \ unvisited, NEW q \in unvisited, HasAll(v.setup),
               Precedes(q.setup.from, PeriodOf(v.setup).to)
        PROVE  PeriodOf(r.setup) = PeriodOf(v.setup)
    <3>1. /\ v.setup.from <= r.setup.from /\ r.setup.from <= q.setup.from
          /\ v.setup.from \in Nat /\ r.setup.from \in Nat /\ q.setup.from \in Nat
          /\ r.setup.from # NoDate
      BY <1>2, <1>6, <2>1, <2>5, ValidSetups DEF InOrder
    <3>2. /\ PeriodOf(v.setup).from # NoDate =>
                PeriodOf(v.setup).from \in Nat /\ PeriodOf(v.setup).from <= v.setup.from
          /\ PeriodOf(v.setup).to # NoDate => PeriodOf(v.setup).to \in Nat
      BY <1>6, <2>5, PeriodOfValid, DatesAssumption DEF DateOrNull
    <3>3. PeriodOf(v.setup).from = NoDate \/ PeriodOf(v.setup).from <= r.setup.from
      BY <3>1, <3>2
    <3>4. Precedes(r.setup.from, PeriodOf(v.setup).to)
      BY <2>5, <3>1, <3>2 DEF Precedes
    <3>. QED  BY <1>6, <2>1, <2>5, <3>3, <3>4, SameEquipment
  <2>6. \A d \in DateOrNull : NoEarlier(d, d)
    BY DatesAssumption DEF NoEarlier, DateOrNull
  <2>7. NoEarlier(PeriodOf(r.setup).to, PeriodOf(r.setup).to)
    BY <1>6, <2>6, PeriodOfValid
  <2>8. Kept'
    <3>. SUFFICES ASSUME NEW v \in Valid(setups) \ unvisited', NEW q \in unvisited',
                         HasAll(v.setup), Precedes(q.setup.from, PeriodOf(v.setup).to)
                  PROVE  NoEarlier(period.to, PeriodOf(v.setup).to)
      BY <1>1, <1>3 DEF Kept
    <3>1. CASE v = r
      BY <2>4, <2>7, <3>1
    <3>2. CASE v \in Valid(setups) \ unvisited
      <4>1. q \in unvisited
        BY <1>2
      <4>2. PeriodOf(r.setup) = PeriodOf(v.setup)
        BY <2>5, <3>2, <4>1
      <4>. QED  BY <2>4, <2>7, <4>2
    <3>. QED  BY <2>2, <3>1, <3>2
  <2>. QED  BY <2>3, <2>8
<1>11. NodesAreComplete(nodes)' /\ NodesAreComplete(saved)'
  <2>1. \A n \in saved' : n \in saved \/ n.setupId.setup = r.setup
    BY <1>1 DEF WithNode, NewNode, SetupId
  <2>. QED  BY <1>2, <2>1 DEF OverlapInv, NodesAreComplete
<1>. QED  BY <1>5, <1>8, <1>9, <1>10, <1>11 DEF OverlapInv

\* The end of NodeService.handle(), by a commit or a fault
LEMMA EndKeepsOverlapInv ==
    ASSUME OverlapInv, NodesCommit \/ NodesFault
    PROVE  OverlapInv'
<1>1. /\ setups' = setups /\ chronological' = chronological
      /\ walk' = "idle" /\ saved' = {} /\ nodes' \in {nodes, saved}
  BY DEF NodesCommit, NodesFault, WalkEnds, vars
<1>2. Valid(setups)' = Valid(setups) /\ Current' = Current /\ (HistoryIsClear' <=> HistoryIsClear)
  BY <1>1 DEF Valid, Current, SetupsOf, HistoryIsClear
<1>3. \A q : Begins(q)' <=> Begins(q)
  BY <1>2 DEF Begins
<1>4. Recorded(Current)'
  BY <1>2 DEF OverlapInv, Recorded
<1>5. ClearInOrder' => NodesBegin(nodes)' /\ NodesBegin(saved)'
  BY <1>1, <1>2, <1>3 DEF OverlapInv, ClearInOrder, NodesBegin
<1>6. NodesAreComplete(nodes)' /\ NodesAreComplete(saved)'
  BY <1>1 DEF OverlapInv, NodesAreComplete
<1>. QED  BY <1>1, <1>4, <1>5, <1>6 DEF OverlapInv

LEMMA StepOverlapInv ==
    NodesInv /\ OverlapInv /\ [NodesNext]_<<vars, nodeVars>> => OverlapInv'
<1>. SUFFICES ASSUME NodesInv, OverlapInv, [NodesNext]_<<vars, nodeVars>> PROVE OverlapInv'
  OBVIOUS
<1>1. ASSUME UNCHANGED setups, UNCHANGED <<walking, nodes, chronological>>
      PROVE  OverlapInv'
  BY <1>1, QuietKeepsOverlapInv DEF walking
<1>2. CASE Unrelated /\ UNCHANGED nodeVars
  BY <1>1, <1>2 DEF Unrelated, Upload, HandlerFault, HandlerRollsBack, nodeVars
<1>3. CASE SiteServiceStep /\ UNCHANGED <<walking, nodes, nodesHandled, nodesRolledBack, chronological>>
  <2>1. CASE HandleCommit
    BY <1>3, <2>1, CommitKeepsOverlapInv
  <2>2. CASE ~HandleCommit
    <3>1. UNCHANGED setups
      BY <1>3, <2>2 DEF SiteServiceStep, BeginHandle, ReadItems, HandleFail, HandlerRollsBack
    <3>. QED  BY <1>1, <1>3, <3>1
  <2>. QED  BY <2>1, <2>2
<1>4. CASE BeginNodes
  BY <1>4, BeginKeepsOverlapInv
<1>5. ASSUME NEW r \in unvisited, PassOver(r) \/ VisitComplete(r)
      PROVE  OverlapInv'
  BY <1>5, PassOverKeepsOverlapInv, VisitKeepsOverlapInv
<1>6. CASE NodesCommit \/ NodesFault
  BY <1>6, EndKeepsOverlapInv
<1>7. CASE UNCHANGED <<vars, nodeVars>>
  BY <1>1, <1>7 DEF vars, nodeVars
<1>. QED  BY <1>2, <1>3, <1>4, <1>5, <1>6, <1>7 DEF NodesNext, EventLoopStep, NodeService

------------------------------------------------------------------------------
THEOREM OverlapInvariant == NodesSpec => []OverlapInv
BY InitOverlapInv, StepOverlapInv, NodesInvariant, PTL DEF NodesSpec

\* When every event is handled, a valid node is that of a valid setup.
LEMMA ValidNodesHaveSetups ==
    ASSUME NodesInv, NodesSettled, NEW n \in nodes, ~n.invalidated
    PROVE  \E r \in Valid(setups) : n.setupId = SetupId(r)
<1>1. PICK r \in setups : n.setupId = SetupId(r)
  BY DEF NodesInv, Table
<1>2. NoneOfInvalidated(nodes)
  BY DEF NodesInv, Done
<1>3. ~r.invalidated
  BY <1>1, <1>2 DEF NoneOfInvalidated
<1>. QED  BY <1>1, <1>3 DEF Valid

\* Of two setups with receiver, antenna and clock either the periods are the same or
\* they do not meet: where they would meet, a setup begins that has the equipment of both.
LEMMA PeriodsMeetOnlyIfSame ==
    ASSUME NodesInv, OverlapInv, HistoryIsClear,
           NEW q \in Valid(setups), NEW r \in Valid(setups), q.setup.from < r.setup.from,
           HasAll(q.setup), HasAll(r.setup), NEW d \in Dates,
           PeriodOf(q.setup).from = NoDate \/ PeriodOf(q.setup).from <= d,
           PeriodOf(r.setup).from = NoDate \/ PeriodOf(r.setup).from <= d,
           Precedes(d, PeriodOf(q.setup).to)
    PROVE  PeriodOf(r.setup) = PeriodOf(q.setup)
<1> DEFINE p == PeriodOf(q.setup)
           o == PeriodOf(r.setup)
<1>1. /\ RowsInv /\ Recorded(Current)
      /\ q.setup.from \in Nat /\ q.setup.from # NoDate
      /\ r.setup \in Current /\ r.setup.from \in Nat /\ r.setup.from # NoDate
      /\ d \in Nat /\ d # NoDate
  BY ValidSetups, DatesAssumption DEF NodesInv, OverlapInv
<1>2. /\ p.from # NoDate => p.from \in Nat /\ p.from <= q.setup.from
      /\ p.to # NoDate => p.to \in Nat
      /\ o.from # NoDate => /\ o.from \in Nat /\ o.from <= r.setup.from
                            /\ \E i \in SignificantInUse(r.setup) : i.from = o.from
      /\ o.to # NoDate => o.to \in Nat
  BY <1>1, PeriodOfValid, DatesAssumption DEF DateOrNull
<1>3. Precedes(r.setup.from, o.to)
  BY <1>1, BeginsBeforeEnd DEF HistoryIsClear, Valid
<1>4. /\ p.from = NoDate \/ p.from <= d
      /\ o.from = NoDate \/ o.from <= d
      /\ Precedes(d, p.to)
  OBVIOUS
<1>5. ASSUME NEW t \in Valid(setups), p.from = NoDate \/ p.from <= t.setup.from,
             Precedes(t.setup.from, p.to)
      PROVE  PeriodOf(t.setup) = p
  BY <1>1, <1>5, SameEquipment
<1>6. ASSUME NEW t \in Valid(setups), o.from = NoDate \/ o.from <= t.setup.from,
             Precedes(t.setup.from, o.to)
      PROVE  PeriodOf(t.setup) = o
  BY <1>1, <1>6, SameEquipment
<1>7. SUFFICES p = o
  OBVIOUS
<1>8. o = PeriodOf(r.setup) /\ p = PeriodOf(q.setup)
  OBVIOUS
<1> HIDE DEF p, o
<1>9. CASE Precedes(r.setup.from, p.to)
  <2>1. p.from = NoDate \/ p.from <= r.setup.from
    BY <1>1, <1>2
  <2>. QED  BY <1>5, <1>8, <1>9, <2>1
<1>10. CASE o.from = NoDate \/ o.from <= q.setup.from
  <2>1. Precedes(q.setup.from, o.to)
    BY <1>1, <1>2, <1>3 DEF Precedes
  <2>. QED  BY <1>6, <1>8, <1>10, <2>1
<1>11. CASE o.from # NoDate /\ q.setup.from < o.from
  <2>1. PICK t \in Valid(setups) : t.setup.from = o.from
    BY <1>1, <1>2, <1>11 DEF Recorded, SignificantInUse, Current, SetupsOf
  <2>2. p.from = NoDate \/ p.from <= t.setup.from
    BY <1>1, <1>2, <1>11, <2>1
  <2>3. Precedes(t.setup.from, p.to)
    BY <1>1, <1>2, <1>4, <1>11, <2>1 DEF Precedes
  <2>4. o.from <= t.setup.from
    BY <1>2, <1>11, <2>1
  <2>5. Precedes(t.setup.from, o.to)
    BY <1>1, <1>2, <1>3, <1>11, <2>1 DEF Precedes
  <2>. QED  BY <1>5, <1>6, <2>1, <2>2, <2>3, <2>4, <2>5
<1>. QED  BY <1>1, <1>2, <1>9, <1>10, <1>11

\* In the order of time the later of the two has a node only because it begins in the
\* second in which their period ends.
LEMMA LaterBeginsInSecond ==
    ASSUME NodesInv, OverlapInv, ClearInOrder,
           NEW q \in Valid(setups), NEW r \in Valid(setups), q.setup.from < r.setup.from,
           HasAll(r.setup), PeriodOf(r.setup) = PeriodOf(q.setup),
           NEW m \in nodes, m.setupId = SetupId(r)
    PROVE  PeriodOf(r.setup).to # NoDate /\ SameSecond(PeriodOf(r.setup).to, r.setup.from)
<1>1. Begins(r)
  BY DEF OverlapInv, NodesBegin
<1>2. q.setup \in Current /\ q.setup.from \in Nat /\ r.setup.from \in Nat
  BY ValidSetups DEF NodesInv
<1>3. ~(r.setup.from <= q.setup.from)
  BY <1>2
<1>4. PeriodOf(r.setup).from # r.setup.from
  <2>1. PeriodOf(q.setup).from # NoDate => PeriodOf(q.setup).from <= q.setup.from
    BY PeriodOfValid DEF NodesInv
  <2>2. r.setup.from # NoDate
    BY ValidSetups DEF NodesInv
  <2>. QED  BY <1>3, <2>1, <2>2
<1>. QED  BY <1>1, <1>2, <1>3, <1>4 DEF Begins

\* Nodes with clocks overlap only if they are of one period, and in the order of time only
\* if the later setup begins in the second in which it ends (NodeService.handle).
THEOREM OverlapsAreOfOnePeriod == NodesSpec => []NodesOverlapOnlyInSecond
<1> DEFINE Overlap(n, m, d) ==
               /\ n \in ValidNodes /\ m \in ValidNodes /\ n # m
               /\ NodeInEffect(n, d) /\ NodeInEffect(m, d)
               /\ HasType(n.setupId.setup, Clock) /\ HasType(m.setupId.setup, Clock)
           Agree(n, m) ==
               /\ n.period = m.period
               /\ chronological => /\ n.period.to # NoDate
                                   /\ \E s \in {n.setupId.setup, m.setupId.setup} :
                                         SameSecond(n.period.to, s.from)
<1>1. NodesInv /\ OverlapInv => NodesOverlapOnlyInSecond
  <2>. SUFFICES ASSUME NodesInv, OverlapInv, NodesSettled, HistoryIsClear,
                       NEW n, NEW m, NEW d \in Dates, Overlap(n, m, d)
                PROVE  Agree(n, m)
    BY DEF NodesOverlapOnlyInSecond
  <2>1. n \in nodes /\ m \in nodes /\ ~n.invalidated /\ ~m.invalidated
    BY DEF ValidNodes
  <2>2. PICK q \in Valid(setups) : n.setupId = SetupId(q)
    BY <2>1, ValidNodesHaveSetups
  <2>3. PICK r \in Valid(setups) : m.setupId = SetupId(r)
    BY <2>1, ValidNodesHaveSetups
  <2>4. n.setupId.setup = q.setup /\ m.setupId.setup = r.setup
    BY <2>2, <2>3 DEF SetupId
  <2>5. HasAll(q.setup) /\ HasAll(r.setup)
    BY <2>1, <2>4 DEF HasAll, OverlapInv, NodesAreComplete
  <2>6. n.period = PeriodOf(q.setup) /\ m.period = PeriodOf(r.setup)
    <3>1. n.period \in NodePeriods(q.setup) /\ m.period \in NodePeriods(r.setup)
      BY <2>1, <2>4 DEF NodesInv, Table
    <3>2. ~Ambiguous(q.setup) /\ ~Ambiguous(r.setup)
      BY DEF HistoryIsClear, Valid
    <3>. QED  BY <3>1, <3>2, OneChoice
  <2>7. /\ n.period.from = NoDate \/ n.period.from <= d
        /\ m.period.from = NoDate \/ m.period.from <= d
        /\ Precedes(d, n.period.to) /\ Precedes(d, m.period.to)
    BY DEF NodeInEffect
  <2>8. q.setup.from # r.setup.from
    <3>1. q # r
      BY <2>1, <2>2, <2>3 DEF NodesInv, Table
    <3>2. q.setup # r.setup
      BY <3>1 DEF NodesInv, RowsInv, SetupsInv, OneRowEach
    <3>. QED  BY <3>2, ValidBeginOnce DEF NodesInv
  <2> HIDE DEF Overlap
  <2>9. CASE q.setup.from < r.setup.from
    <3>1. m.period = n.period
      BY <2>5, <2>6, <2>7, <2>9, PeriodsMeetOnlyIfSame
    <3>2. chronological => m.period.to # NoDate /\ SameSecond(m.period.to, r.setup.from)
      BY <2>1, <2>3, <2>5, <2>6, <2>9, <3>1, LaterBeginsInSecond DEF ClearInOrder
    <3>. QED  BY <2>4, <3>1, <3>2
  <2>10. CASE r.setup.from < q.setup.from
    <3>1. m.period = n.period
      BY <2>5, <2>6, <2>7, <2>10, PeriodsMeetOnlyIfSame
    <3>2. chronological => n.period.to # NoDate /\ SameSecond(n.period.to, q.setup.from)
      BY <2>1, <2>2, <2>5, <2>6, <2>10, <3>1, LaterBeginsInSecond DEF ClearInOrder
    <3>. QED  BY <2>4, <3>1, <3>2
  <2>11. q.setup.from \in Nat /\ r.setup.from \in Nat
    BY ValidSetups DEF NodesInv
  <2>. QED  BY <2>8, <2>9, <2>10, <2>11
<1>. QED  BY <1>1, NodesInvariant, OverlapInvariant, PTL

------------------------------------------------------------------------------
\* The equipment of a setup that is in effect at d is what the log has at d.
LEMMA InstalledAreInUse ==
    ASSUME SetupsInv, Settled, WellFormed(siteLog), NEW d \in Dates,
           {Receiver, Antenna} \subseteq {i.type : i \in EquipmentAt(siteLog, d)}
    PROVE  \E s \in Current : IsComplete(s) /\ s.from <= d /\ Precedes(d, s.to)
<1>1. Describes(Current, siteLog)
  BY SettledFromInv DEF SettledSetupsDescribeLog
<1>2. \A i \in EquipmentAt(siteLog, d) :
         \E s \in Current : i \in s.inUse /\ s.from <= d /\ Precedes(d, s.to)
  BY <1>1 DEF Describes
<1>3. PICK i \in EquipmentAt(siteLog, d), s \in Current :
         i.type = Receiver /\ i \in s.inUse /\ s.from <= d /\ Precedes(d, s.to)
  BY <1>2
<1>4. PICK j \in EquipmentAt(siteLog, d), t \in Current :
         j.type = Antenna /\ j \in t.inUse /\ t.from <= d /\ Precedes(d, t.to)
  BY <1>2
<1>5. s = t
  <2>1. \A u \in Current : u.from \in Dates /\ u.to \in DateOrNull
    BY DEF SetupsInv, TypeInv, TypeOK, Current, SetupsOf, Valid
  <2>2. /\ d \in Nat /\ d # NoDate /\ s.from \in Nat /\ s.from # NoDate
        /\ t.from \in Nat /\ t.from # NoDate
        /\ s.to # NoDate => s.to \in Nat
        /\ t.to # NoDate => t.to \in Nat
    BY <2>1, DatesAssumption DEF DateOrNull
  <2>3. ~(Precedes(s.to, t.from) \/ s.to = t.from) /\ ~(Precedes(t.to, s.from) \/ t.to = s.from)
    BY <1>3, <1>4, <2>2 DEF Precedes
  <2>. QED  BY <1>1, <2>3 DEF Describes, IsTimeline
<1>. QED  BY <1>3, <1>4, <1>5 DEF IsComplete, HasType

\* While a node is in effect, so is the equipment of its setup.
LEMMA EquipmentOutlastsNode ==
    ASSUME RowsInv, NEW r \in Valid(setups), NEW d \in Dates,
           PeriodOf(r.setup).from = NoDate \/ PeriodOf(r.setup).from <= d,
           Precedes(d, PeriodOf(r.setup).to),
           NEW i \in SignificantInUse(r.setup), i.from # NoDate
    PROVE  InEffect(i, d)
<1>1. /\ PeriodOf(r.setup).from # NoDate /\ i.from <= PeriodOf(r.setup).from
      /\ i.to # NoDate => PeriodOf(r.setup).to # NoDate /\ PeriodOf(r.setup).to <= i.to
      /\ PeriodOf(r.setup).from \in DateOrNull /\ PeriodOf(r.setup).to \in DateOrNull
  BY PeriodOfValid
<1>2. i.from \in DateOrNull /\ i.to \in DateOrNull
  BY ValidSetups DEF SignificantInUse, LogItem
<1>3. /\ d \in Nat /\ d # NoDate /\ i.from \in Nat /\ PeriodOf(r.setup).from \in Nat
      /\ i.to # NoDate => i.to \in Nat /\ PeriodOf(r.setup).to \in Nat
  BY <1>1, <1>2, DatesAssumption DEF DateOrNull
<1>4. i.from <= d
  BY <1>1, <1>3
<1>5. i.to # NoDate => d < i.to
  BY <1>1, <1>3 DEF Precedes
<1>. QED  BY <1>3, <1>4, <1>5 DEF InEffect, Precedes

\* In any order of the setups, there is a node from the last date of change on if the
\* last setup is complete: a setup that the walk has passed over, or not come to, begins
\* before the end of a node, and beyond the beginning of the last setup nothing ends.
LEMMA LastSetupHasNode ==
    ASSUME NodesInv, NodesSettled, Clear, \A s \in Current : ItemsWellFormed(s),
           NEW s \in Current, IsComplete(s), NEW d \in Dates, Precedes(d, s.to),
           \A t \in Current : t.from <= d
    PROVE  NodeAt(d)
<1>1. RowsInv /\ EndsMeet(Current) /\ d \in Nat /\ d # NoDate
  BY DatesAssumption DEF NodesInv, RowsInv
<1>2. PICK r \in Valid(setups) : s = r.setup
  BY DEF Current, SetupsOf
<1>3. s.to = NoDate
  <2>1. ASSUME s.to # NoDate
        PROVE  FALSE
    <3>1. PICK t \in Current : t.from = s.to
      BY <2>1 DEF NodesInv, RowsInv, SetupsInv, ValidSetupsAreTimeline, IsTimeline
    <3>2. s.to <= d /\ d < s.to /\ s.to \in Nat
      BY <1>1, <1>2, <2>1, <3>1, ValidSetups, DatesAssumption DEF Precedes, DateOrNull
    <3>. QED  BY <1>1, <3>2
  <2>. QED  BY <2>1
<1>4. Reached(nodes, r)
  BY <1>2 DEF NodesInv, Done
<1>5. PICK n \in nodes : /\ n \in ValidNodes
                        /\ (n.setupId = SetupId(r) \/ Precedes(s.from, n.period.to))
  BY <1>2, <1>4 DEF Reached, ValidNodes
<1>5a. ~n.invalidated
  BY <1>5 DEF ValidNodes
<1>6. PICK q \in Valid(setups) : n.setupId = SetupId(q)
  BY <1>5a, ValidNodesHaveSetups
<1>7. q.setup \in Current /\ n.setupId.setup = q.setup /\ q.setup.from \in Nat
  BY <1>1, <1>6, ValidSetups DEF SetupId
<1>8. n.period = PeriodOf(q.setup)
  <2>1. n.period \in NodePeriods(q.setup)
    BY <1>5, <1>7 DEF NodesInv, Table
  <2>. QED  BY <1>7, <2>1, OneChoice DEF Clear
<1>9. Precedes(s.from, n.period.to)
  <2>1. CASE n.setupId = SetupId(r)
    <3>1. q.setup = s
      BY <1>2, <1>7, <2>1 DEF SetupId
    <3>. QED  BY <1>1, <1>6, <1>7, <1>8, <3>1, BeginsBeforeEnd
  <2>. QED  BY <1>5, <2>1
<1>10. n.period.to = NoDate
  <2>1. ASSUME n.period.to # NoDate
        PROVE  FALSE
    <3>1. PICK i \in SignificantInUse(q.setup) : i.to = n.period.to
      BY <1>1, <1>6, <1>8, <2>1, PeriodOfValid
    <3>2. s.from < i.to /\ i.to # NoDate /\ i \in q.setup.inUse
      BY <1>9, <2>1, <3>1 DEF Precedes, SignificantInUse
    <3>. QED  BY <1>1, <1>3, <1>7, <3>2 DEF EndsMeet
  <2>. QED  BY <2>1
<1>11. n.period.from = NoDate \/ n.period.from <= d
  <2>1. n.period.from # NoDate => n.period.from \in Nat /\ n.period.from <= q.setup.from
    BY <1>1, <1>6, <1>8, PeriodOfValid, DatesAssumption DEF DateOrNull
  <2>2. q.setup.from <= d
    BY <1>7
  <2>. QED  BY <1>1, <1>7, <2>1, <2>2
<1>12. NodeInEffect(n, d)
  BY <1>10, <1>11 DEF NodeInEffect, Precedes
<1>. QED  BY <1>5, <1>12 DEF NodeAt

\* When every event is handled, no node is in effect where the site log has no receiver or
\* no antenna; where it has both there is one at every date, if the setups came in the
\* order of time, and since the last change in any order (NodeService.handle).
THEOREM NodesDescribeSiteLog == NodesSpec => []SettledNodesDescribeLog
<1>1. NodesInv /\ OverlapInv /\ NodesCoverCompleteSetups => SettledNodesDescribeLog
  <2>. SUFFICES ASSUME NodesInv, OverlapInv, NodesCoverCompleteSetups, Settled, NodesSettled,
                       WellFormed(siteLog), \A s \in Current : ~Ambiguous(s),
                       NEW d \in Dates
                PROVE  /\ NodeAt(d) => StationAt(d)
                       /\ chronological /\ StationAt(d) => NodeAt(d)
                       /\ (\A c \in DatesOfChange(siteLog) : c <= d) /\ StationAt(d) => NodeAt(d)
    BY DEF SettledNodesDescribeLog, NodesDescribeLog
  <2>1. SetupsInv /\ RowsInv /\ Current = GetSetups(siteLog)
    BY DEF NodesInv, RowsInv, SetupsInv, UpToDate
  <2>2. /\ \A s \in Current : s.inUse \subseteq CurrentItems(siteLog)
        /\ \A s \in Current : s.from \in DatesOfChange(siteLog)
    BY <2>1 DEF GetSetups
  <2>3. \A s \in Current : ItemsWellFormed(s) /\ \A i \in s.inUse : i.from # NoDate
    BY <2>2 DEF WellFormed, ItemsWellFormed
  <2>4. StationAt(d) => \E s \in Current : IsComplete(s) /\ s.from <= d /\ Precedes(d, s.to)
    BY <2>1, InstalledAreInUse DEF StationAt
  <2>5. chronological /\ StationAt(d) => NodeAt(d)
    BY <2>3, <2>4 DEF NodesCoverCompleteSetups, NodeAt
  <2>6. (\A c \in DatesOfChange(siteLog) : c <= d) /\ StationAt(d) => NodeAt(d)
    <3>1. (\A c \in DatesOfChange(siteLog) : c <= d) => \A t \in Current : t.from <= d
      BY <2>2
    <3>. QED  BY <2>3, <2>4, <3>1, LastSetupHasNode DEF Clear
  <2>7. ASSUME NEW n \in ValidNodes, NodeInEffect(n, d), NEW type \in {Receiver, Antenna}
        PROVE  \E i \in EquipmentAt(siteLog, d) : i.type = type
    <3>1. n \in nodes /\ ~n.invalidated
      BY DEF ValidNodes
    <3>2. PICK r \in Valid(setups) : n.setupId = SetupId(r)
      BY <3>1, ValidNodesHaveSetups
    <3>3. r.setup \in Current /\ n.setupId.setup = r.setup
      BY <2>1, <3>2, ValidSetups
    <3>4. IsComplete(r.setup)
      BY <3>1, <3>3 DEF OverlapInv, NodesAreComplete
    <3>5. n.period = PeriodOf(r.setup)
      <4>1. n.period \in NodePeriods(r.setup)
        BY <3>1, <3>3 DEF NodesInv, Table
      <4>. QED  BY <3>3, <4>1, OneChoice
    <3>6. PICK i \in SignificantInUse(r.setup) : i.type = type
      BY <3>4 DEF IsComplete, HasType, SignificantInUse, Significant
    <3>7. i \in CurrentItems(siteLog) /\ i.from # NoDate
      BY <2>2, <2>3, <3>3, <3>6 DEF SignificantInUse
    <3>8. InEffect(i, d)
      BY <2>1, <2>7, <3>5, <3>7, EquipmentOutlastsNode DEF NodeInEffect
    <3>. QED  BY <3>6, <3>7, <3>8 DEF EquipmentAt, CurrentItems
  <2>8. NodeAt(d) => StationAt(d)
    BY <2>7 DEF NodeAt, StationAt
  <2>. QED  BY <2>5, <2>6, <2>8
<1>. QED  BY <1>1, NodesInvariant, OverlapInvariant, NodesCoverSetups, PTL

==============================================================================
