------------------------ MODULE SetupDerivationProofs ------------------------
(***************************************************************************)
(* The derivation of setups is right for every site log: whatever the      *)
(* items, the setups are one timeline, and for a well-formed log they say  *)
(* of every date what the log says.  The walks of the code over its list   *)
(* of setups become, for the proof, the next date of change after a date   *)
(* and the last one before it.                                             *)
(***************************************************************************)
EXTENDS SetupDerivation, WellFoundedInduction, TLAPS

\* A nonempty set of numbers has a least member.
LEMMA LeastNumber ==
    ASSUME NEW T \in SUBSET Nat, T # {}
    PROVE  \E x \in T : \A y \in T : x <= y
<1>1. PICK x \in T : \A y \in T : ~(<<y, x>> \in OpToRel(<, Nat))
  BY WFMin, NatLessThanWellFounded, Zenon
<1>2. \A y \in T : ~(y < x)
  BY <1>1 DEF OpToRel
<1>. QED  BY <1>2

\* A set of numbers with a member up to n has a greatest such member.
LEMMA LastUpTo ==
    ASSUME NEW S \in SUBSET Nat, NEW n \in Nat, NEW x \in S, x <= n
    PROVE  \E m \in S : m <= n /\ \A y \in S : y <= n => y <= m
<1> DEFINE Distances == {n - y : y \in {z \in S : z <= n}}
<1>1. Distances \in SUBSET Nat
  OBVIOUS
<1>2. n - x \in Distances
  OBVIOUS
<1>3. PICK k \in Distances : \A j \in Distances : k <= j
  BY <1>1, <1>2, LeastNumber
<1>4. PICK m \in S : m <= n /\ k = n - m
  BY <1>3
<1>5. ASSUME NEW y \in S, y <= n
      PROVE  y <= m
  <2>1. n - y \in Distances
    BY <1>5
  <2>2. n - m <= n - y
    BY <2>1, <1>3, <1>4
  <2>. QED  BY <2>2
<1>. QED  BY <1>4, <1>5

\* The end of a setup is the next date of change, and null after the last one.
LEMMA SetupEndIsNext ==
    ASSUME NEW changes \in SUBSET Dates, NEW d \in changes
    PROVE  \/ /\ SetupEnd(changes, d) = NoDate
              /\ \A e \in changes : e <= d
           \/ /\ SetupEnd(changes, d) \in changes
              /\ d < SetupEnd(changes, d)
              /\ \A e \in changes : d < e => SetupEnd(changes, d) <= e
<1> DEFINE later == {e \in changes : e > d}
<1>1. changes \subseteq Nat /\ d \in Nat /\ later \in SUBSET Nat
  BY DatesAssumption
<1>2. CASE later = {}
  BY <1>1, <1>2 DEF SetupEnd
<1>3. CASE later # {}
  <2>1. \E e \in later : \A x \in later : e <= x
    BY <1>1, <1>3, LeastNumber
  <2>2. SetupEnd(changes, d) = CHOOSE e \in later : \A x \in later : e <= x
    BY <1>3 DEF SetupEnd
  <2>3. /\ SetupEnd(changes, d) \in later
        /\ \A x \in later : SetupEnd(changes, d) <= x
    BY <2>1, <2>2
  <2>. QED  BY <2>3, <1>1
<1>. QED  BY <1>2, <1>3

\* The dates of change are dates, and the dates of every item are among them.
LEMMA DatesOfChangeAreDates ==
    ASSUME NEW log \in SUBSET LogItem
    PROVE  /\ DatesOfChange(log) \in SUBSET Dates
           /\ \A i \in CurrentItems(log) :
                 /\ i.from # NoDate => i.from \in DatesOfChange(log)
                 /\ i.to # NoDate => i.to \in DatesOfChange(log)
<1>1. \A i \in CurrentItems(log) : i.from \in Dates \union {NoDate} /\ i.to \in Dates \union {NoDate}
  BY DEF CurrentItems, LogItem, DateOrNull
<1>2. ASSUME NEW d \in DatesOfChange(log)
      PROVE  d \in Dates
  <2>1. d # NoDate /\ \E i \in CurrentItems(log) : d \in {i.from, i.to}
    BY <1>2 DEF DatesOfChange
  <2>. QED  BY <2>1, <1>1
<1>3. ASSUME NEW i \in CurrentItems(log), NEW d \in {i.from, i.to}, d # NoDate
      PROVE  d \in DatesOfChange(log)
  BY <1>3 DEF DatesOfChange
<1>. QED  BY <1>2, <1>3

\* Whatever the site log, the setups follow each other without gap or overlap
\* (CorsSiteService.getSetups).
THEOREM SetupsAreTimeline ==
    ASSUME NEW log \in SUBSET LogItem
    PROVE  IsTimeline(GetSetups(log))
<1> DEFINE changes == DatesOfChange(log)
<1>1. changes \in SUBSET Dates /\ changes \subseteq Nat
  BY DatesOfChangeAreDates, DatesAssumption
<1>2. \A s \in GetSetups(log) : s.from \in changes /\ s.to = SetupEnd(changes, s.from)
  BY DEF GetSetups
<1> HIDE DEF changes
<1>6. \A d \in changes :
         \/ SetupEnd(changes, d) = NoDate /\ \A e \in changes : e <= d
         \/ /\ SetupEnd(changes, d) \in changes
            /\ d < SetupEnd(changes, d)
            /\ \A e \in changes : d < e => SetupEnd(changes, d) <= e
  BY ONLY <1>1, SetupEndIsNext
<1>3. ASSUME NEW s \in GetSetups(log)
      PROVE  Precedes(s.from, s.to)
  BY <1>1, <1>2, <1>3, <1>6, DatesAssumption DEF Precedes
<1>4. ASSUME NEW s \in GetSetups(log), s.to # NoDate
      PROVE  \E t \in GetSetups(log) : t.from = s.to
  <2>1. s.to \in changes
    BY <1>1, <1>2, <1>4, <1>6
  <2>2. PICK t \in GetSetups(log) : t.from = s.to
    <3> DEFINE t == [from |-> s.to, to |-> SetupEnd(changes, s.to),
                     inUse |-> {i \in CurrentItems(log) : s.to \in Spanned(i, changes)}]
    <3>1. t \in GetSetups(log) /\ t.from = s.to
      BY <2>1 DEF GetSetups, changes
    <3>. QED  BY <3>1
  <2>. QED  BY <2>2
<1>5. ASSUME NEW s \in GetSetups(log), NEW t \in GetSetups(log), s # t
      PROVE  \/ Precedes(s.to, t.from) \/ Precedes(t.to, s.from)
             \/ s.to = t.from \/ t.to = s.from
  <2>1. s.from # t.from
    BY <1>5 DEF GetSetups
  <2>2. /\ s.from \in changes /\ s.from \in Nat /\ s.to = SetupEnd(changes, s.from)
        /\ t.from \in changes /\ t.from \in Nat /\ t.to = SetupEnd(changes, t.from)
        /\ s.from # NoDate /\ t.from # NoDate
    BY <1>1, <1>2, DatesAssumption
  <2>3. CASE s.from < t.from
    <3>1. s.to \in changes /\ s.to <= t.from
      BY <2>2, <2>3, <1>1, <1>6
    <3>2. s.to \in Nat /\ s.to # NoDate
      BY <3>1, <1>1, DatesAssumption
    <3>3. s.to < t.from \/ s.to = t.from
      BY <3>1, <3>2, <2>2
    <3>. QED  BY <3>2, <3>3 DEF Precedes
  <2>4. CASE t.from < s.from
    <3>1. t.to \in changes /\ t.to <= s.from
      BY <2>2, <2>4, <1>1, <1>6
    <3>2. t.to \in Nat /\ t.to # NoDate
      BY <3>1, <1>1, DatesAssumption
    <3>3. t.to < s.from \/ t.to = s.from
      BY <3>1, <3>2, <2>2
    <3>. QED  BY <3>2, <3>3 DEF Precedes
  <2>. QED  BY <2>1, <2>2, <2>3, <2>4
<1>. QED  BY <1>3, <1>4, <1>5 DEF IsTimeline

\* From the first date of change on, every date is in some setup.
LEMMA SomeSetupCovers ==
    ASSUME NEW changes \in SUBSET Dates, NEW d \in Dates, NEW x \in changes, x <= d
    PROVE  \E c \in changes : c <= d /\ Precedes(d, SetupEnd(changes, c))
<1>1. changes \in SUBSET Nat /\ d \in Nat /\ d # NoDate
  BY DatesAssumption
<1>2. PICK c \in changes : c <= d /\ \A y \in changes : y <= d => y <= c
  <2>1. \A n \in Nat : \A y \in changes : y <= n =>
           \E m \in changes : m <= n /\ \A z \in changes : z <= n => z <= m
    BY ONLY <1>1, LastUpTo, Zenon
  <2>. QED  BY <2>1, <1>1
<1>3. Precedes(d, SetupEnd(changes, c))
  <2>1. CASE SetupEnd(changes, c) = NoDate
    BY <2>1 DEF Precedes
  <2>2. CASE SetupEnd(changes, c) \in changes /\ c < SetupEnd(changes, c)
    <3> DEFINE end == SetupEnd(changes, c)
    <3>1. end \in changes /\ end \in Nat /\ c \in Nat /\ c < end
      BY <2>2, <1>1
    <3> HIDE DEF end
    <3>2. d < end
      BY <3>1, <1>1, <1>2
    <3>. QED  BY <3>2, <1>1 DEF Precedes, end
  <2>. QED  BY <2>1, <2>2, SetupEndIsNext
<1>. QED  BY <1>2, <1>3

\* The item is added to the setup of a date exactly if it is in effect at that
\* date: addEquipment() starts and stops at the right setups.
LEMMA SpannedIsInEffect ==
    ASSUME NEW changes \in SUBSET Dates, NEW i \in LogItem,
           i.from \in changes, i.to \in changes \union {NoDate},
           i.to = NoDate \/ i.from <= i.to,
           NEW c \in changes, NEW d \in Dates,
           c <= d, Precedes(d, SetupEnd(changes, c))
    PROVE  c \in Spanned(i, changes) <=> InEffect(i, d)
<1>1. /\ changes \in SUBSET Nat /\ d \in Nat /\ d # NoDate /\ c \in Nat
      /\ i.from \in Nat /\ i.from # NoDate
      /\ i.to # NoDate => i.to \in Nat
  BY DatesAssumption
\* No date of change lies between the start of the setup and the date.
<1>2. \A e \in changes : e <= d => e <= c
  <2>1. SUFFICES ASSUME NEW e \in changes, e <= d, c < e
                 PROVE  FALSE
    BY <1>1
  <2>2. SetupEnd(changes, c) \in changes /\ SetupEnd(changes, c) <= e
    BY <2>1, <1>1, SetupEndIsNext
  <2> DEFINE end == SetupEnd(changes, c)
  <2>3. end \in Nat /\ end <= e /\ e \in Nat /\ end # NoDate
    BY <2>2, <1>1, DatesAssumption
  <2>4. d < end
    BY <2>3 DEF Precedes
  <2> HIDE DEF end
  <2>. QED  BY <2>1, <2>3, <2>4, <1>1
<1>3. ASSUME c \in Spanned(i, changes)
      PROVE  InEffect(i, d)
  <2>1. /\ i.from <= c
        /\ i.from # i.to
        /\ i.to # NoDate =>
              \A e \in changes : i.from <= e /\ e < c => SetupEnd(changes, e) # i.to
    BY <1>1, <1>3 DEF Spanned, IsCorrection
  <2>2. ASSUME i.to # NoDate, i.to <= d
        PROVE  FALSE
    <3>1. i.to \in changes /\ i.to \in Nat /\ i.from < i.to /\ i.to <= c
      BY <2>1, <2>2, <1>1, <1>2
    <3>2. i.to - 1 \in Nat /\ i.from <= i.to - 1
      BY <3>1, <1>1
    <3>3. PICK p \in changes : p <= i.to - 1 /\ \A y \in changes : y <= i.to - 1 => y <= p
      <4>1. changes \in SUBSET Nat /\ i.from \in changes
        BY <1>1
      <4>2. \A n \in Nat : \A x \in changes : x <= n =>
               \E m \in changes : m <= n /\ \A y \in changes : y <= n => y <= m
        BY ONLY <4>1, LastUpTo, Zenon
      <4>. QED  BY ONLY <4>1, <3>2, <4>2
    <3>4. i.from <= p /\ p < i.to /\ p \in Nat
      BY <3>1, <3>2, <3>3, <1>1
    <3>5. /\ SetupEnd(changes, p) \in changes
          /\ p < SetupEnd(changes, p)
          /\ SetupEnd(changes, p) <= i.to
      BY <3>1, <3>4, <1>1, SetupEndIsNext
    <3>6. SetupEnd(changes, p) = i.to
      <4> DEFINE end == SetupEnd(changes, p)
      <4>1. end \in changes /\ end \in Nat /\ p < end /\ end <= i.to
        BY <3>5, <1>1
      <4> HIDE DEF end
      <4>2. ~(end <= i.to - 1)
        BY <3>3, <3>4, <4>1
      <4>3. end = i.to
        BY <3>1, <4>1, <4>2
      <4>. QED  BY <4>3 DEF end
    <3>. QED  BY <3>1, <3>4, <3>6, <2>1, <2>2, <1>1
  <2>. QED  BY <2>1, <2>2, <1>1 DEF InEffect, Precedes
<1>4. ASSUME InEffect(i, d)
      PROVE  c \in Spanned(i, changes)
  <2>1. i.from <= d /\ (i.to = NoDate \/ d < i.to)
    BY <1>4 DEF InEffect, Precedes
  <2>2. i.from <= c /\ i.from # i.to
    BY <2>1, <1>1, <1>2
  <2>3. ASSUME i.to # NoDate, NEW e \in changes, e < c, SetupEnd(changes, e) = i.to
        PROVE  FALSE
    <3>1. i.to <= c
      BY <2>3, <1>1, SetupEndIsNext
    <3>. QED  BY <3>1, <2>1, <2>3, <1>1
  <2>. QED  BY <2>2, <2>3, <1>1 DEF Spanned, IsCorrection
<1>. QED  BY <1>3, <1>4

\* The setups derived from a well-formed log say of every date which equipment
\* was installed, as the log says it (CorsSiteService.getSetups).
THEOREM SetupsDescribeLog ==
    ASSUME NEW log \in SUBSET LogItem, WellFormed(log)
    PROVE  Describes(GetSetups(log), log)
<1> DEFINE changes == DatesOfChange(log)
           inUse(c) == {i \in CurrentItems(log) : c \in Spanned(i, changes)}
<1>1. changes \in SUBSET Dates /\ changes \subseteq Nat
  BY DatesOfChangeAreDates, DatesAssumption
<1>2. \A i \in CurrentItems(log) :
         /\ i \in LogItem
         /\ i.from \in changes /\ i.to \in changes \union {NoDate}
         /\ i.to = NoDate \/ i.from <= i.to
  BY DatesOfChangeAreDates DEF WellFormed, CurrentItems
<1>3. ASSUME NEW d \in Dates
      PROVE  UNION {s.inUse : s \in {r \in GetSetups(log) : r.from <= d /\ Precedes(d, r.to)}}
                = EquipmentAt(log, d)
  <2> DEFINE here == {r \in GetSetups(log) : r.from <= d /\ Precedes(d, r.to)}
  <2>1. ASSUME NEW s \in here, NEW i \in s.inUse
        PROVE  i \in EquipmentAt(log, d)
    <3>1. PICK c \in changes : s = [from |-> c, to |-> SetupEnd(changes, c), inUse |-> inUse(c)]
      BY DEF GetSetups
    <3>2. c <= d /\ Precedes(d, SetupEnd(changes, c)) /\ i \in inUse(c)
      BY <3>1
    <3>3. i \in CurrentItems(log) /\ c \in Spanned(i, changes)
      BY <3>2
    <3>4. InEffect(i, d)
      BY <3>2, <3>3, <1>1, <1>2, SpannedIsInEffect
    <3>. QED  BY <3>3, <3>4 DEF EquipmentAt, CurrentItems
  <2>2. ASSUME NEW i \in EquipmentAt(log, d)
        PROVE  \E s \in here : i \in s.inUse
    <3>1. i \in CurrentItems(log) /\ InEffect(i, d)
      BY DEF EquipmentAt, CurrentItems
    <3>2. i.from \in changes /\ i.from <= d
      BY <3>1, <1>2 DEF InEffect
    <3>3. PICK c \in changes : c <= d /\ Precedes(d, SetupEnd(changes, c))
      BY <3>2, <1>1, SomeSetupCovers
    <3>4. c \in Spanned(i, changes)
      BY <3>1, <3>3, <1>1, <1>2, SpannedIsInEffect
    <3> DEFINE s == [from |-> c, to |-> SetupEnd(changes, c), inUse |-> inUse(c)]
    <3>5. s \in GetSetups(log)
      BY DEF GetSetups
    <3>6. s \in here /\ i \in s.inUse
      BY <3>1, <3>3, <3>4, <3>5
    <3>. QED  BY <3>6
  <2> HIDE DEF here
  <2>3. UNION {s.inUse : s \in here} = EquipmentAt(log, d)
    BY <2>1, <2>2
  <2>. QED  BY <2>3 DEF here
<1>. QED  BY <1>3, SetupsAreTimeline DEF Describes

==============================================================================
