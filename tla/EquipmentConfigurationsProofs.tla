------------------- MODULE EquipmentConfigurationsProofs -------------------
(***************************************************************************)
(* The properties of EquipmentConfigurations, for any sites, site logs and *)
(* number of uploads.                                                      *)
(*                                                                         *)
(* Each is about what is committed, and what is committed was built up by  *)
(* a handler one item at a time.  The invariant says of the handler's view *)
(* what the properties say of the database: that its rows are unique and   *)
(* go on from the committed ones, and that what it has placed and what it  *)
(* has yet to place are together what the site log asks for.               *)
(***************************************************************************)
EXTENDS EquipmentConfigurations, TLAPS

Unique(rows) ==
    \A c, d \in rows :
        /\ c.id = d.id => c = d
        /\ c.equipment = d.equipment /\ c.time = d.time /\ c.time # NoDate => c = d

RowsAreUnique == Unique(configurations) /\ Unique(table)

\* The row is that of the item; so are its settings, but for a reason.
HasRow(u, rows, excused) ==
    \E d \in rows :
        /\ d.id = u.configuration
        /\ d.equipment = EquipmentOf(u.item) /\ d.time = u.item.from
        /\ d.setting = u.item.setting \/ excused

\* Another item of this handler has the same configuration.
IsReused(u) == \E v \in using : v.item # u.item /\ v.configuration = u.configuration

UsedHaveRows == \A u \in using : HasRow(u, table, IsReused(u))

InUseHaveRows ==
    \A s \in Sites : \A u \in inUse[s] :
        /\ u.configuration \in everUsed[s]
        /\ HasRow(u, configurations, IsShared(s, u))

\* The handler goes on from the committed rows.
TableGoesOn ==
    at # NoSite =>
        \A c \in configurations : \E d \in table :
            /\ d.id = c.id /\ d.equipment = c.equipment /\ d.time = c.time
            /\ d.setting # c.setting =>
                  \E u \in using : u.configuration = c.id /\ u.item.setting = d.setting

Placed(uses) == {<<u.item, u.setup>> : u \in uses}

HandlerPlaces ==
    /\ at # NoSite /\ pending[at] = 0 => placing \union Placed(using) = Placements(siteLog[at])
    /\ \A s \in Sites : Settled(s) => Placed(inUse[s]) = Placements(siteLog[s])

ConfigInv ==
    /\ TypeOK
    /\ RowsAreUnique
    /\ UsedHaveRows
    /\ InUseHaveRows
    /\ TableGoesOn
    /\ HandlerPlaces

------------------------------------------------------------------------------
\* Items are placed in setups that start at dates.
LEMMA PlacementsType ==
    ASSUME NEW log, log \subseteq ConfiguredItem
    PROVE  Placements(log) \subseteq ConfiguredItem \X Dates
<1>1. CurrentItems(log) \subseteq ConfiguredItem
  BY DEF CurrentItems
<1>2. DatesOfChange(log) \subseteq Dates
  BY <1>1 DEF DatesOfChange, ConfiguredItem, DateOrNull
<1>3. QED
  BY <1>1, <1>2, Zenon DEF Placements

\* A site without a site log has no equipment to place.
LEMMA NothingPlaced == Placements({}) = {}
BY DEF Placements, CurrentItems

------------------------------------------------------------------------------
\* At first there is nothing.
LEMMA ConfigInit == Init => ConfigInv
<1>1. SUFFICES ASSUME Init PROVE ConfigInv
  OBVIOUS
<1>2. TypeOK
  BY <1>1, ConfigurationsAssumption DEF Init, TypeOK
<1>3. RowsAreUnique /\ UsedHaveRows /\ InUseHaveRows /\ TableGoesOn
  BY <1>1 DEF Init, RowsAreUnique, Unique, UsedHaveRows, InUseHaveRows, TableGoesOn
<1>4. HandlerPlaces
  BY <1>1, NothingPlaced DEF Init, HandlerPlaces, Placed, Settled
<1>5. QED
  BY <1>2, <1>3, <1>4 DEF ConfigInv


------------------------------------------------------------------------------
\* What is unchanged keeps what is said of it.

LEMMA SameRows ==
    ASSUME ConfigInv, UNCHANGED <<table, using, configurations, inUse, everUsed, at>>
    PROVE  RowsAreUnique' /\ UsedHaveRows' /\ InUseHaveRows' /\ TableGoesOn'
BY DEF ConfigInv, RowsAreUnique, Unique, UsedHaveRows, IsReused, InUseHaveRows, HasRow, IsShared,
       TableGoesOn

LEMMA SameCommitted ==
    ASSUME ConfigInv, UNCHANGED <<configurations, inUse, everUsed>>
    PROVE  InUseHaveRows' /\ Unique(configurations')
BY DEF ConfigInv, RowsAreUnique, Unique, InUseHaveRows, HasRow, IsShared

\* An upload: its event is pending.
LEMMA UploadStep ==
    ASSUME ConfigInv, NEW s \in Sites, NEW log \in Logs, Upload(s, log)
    PROVE  ConfigInv'
<1>1. TypeOK'
  <2>1. uploads' \in 0 .. MaxUploads
    BY ConfigurationsAssumption DEF ConfigInv, TypeOK, Upload
  <2>2. siteLog' \in [Sites -> SUBSET ConfiguredItem]
    BY ConfigurationsAssumption DEF ConfigInv, TypeOK, Upload
  <2>3. pending' \in [Sites -> Nat]
    BY DEF ConfigInv, TypeOK, Upload
  <2>4. QED
    BY <2>1, <2>2, <2>3 DEF ConfigInv, TypeOK, Upload, transaction, committed
<1>2. RowsAreUnique' /\ UsedHaveRows' /\ InUseHaveRows' /\ TableGoesOn'
  BY SameRows DEF Upload, transaction, committed
<1>3. pending[s] \in Nat /\ pending' = [pending EXCEPT ![s] = @ + 1] /\ pending'[s] # 0
      /\ \A t \in Sites \ {s} : pending'[t] = pending[t] /\ siteLog'[t] = siteLog[t]
  BY DEF ConfigInv, TypeOK, Upload
<1>4. UNCHANGED <<at, placing, using, inUse, rolledBack>>
  BY DEF Upload, transaction, committed
<1>5. at # NoSite => at \in Sites
  BY DEF ConfigInv, TypeOK
<1>6. HandlerPlaces'
  <2>1. ASSUME at' # NoSite, pending'[at'] = 0
        PROVE  placing' \union Placed(using') = Placements(siteLog'[at'])
    <3>1. at \in Sites \ {s}
      BY <1>3, <1>4, <1>5, <2>1
    <3>2. QED
      BY <1>3, <1>4, <2>1, <3>1 DEF ConfigInv, HandlerPlaces, Placed
  <2>2. ASSUME NEW t \in Sites, Settled(t)'
        PROVE  Placed(inUse'[t]) = Placements(siteLog'[t])
    <3>1. t # s
      BY <1>3, <2>2 DEF Settled
    <3>2. Settled(t)
      BY <1>3, <1>4, <2>2, <3>1 DEF Settled
    <3>3. QED
      BY <1>3, <1>4, <3>1, <3>2 DEF ConfigInv, HandlerPlaces, Placed
  <2>3. QED
    BY <2>1, <2>2 DEF HandlerPlaces, Placed
<1>7. QED
  BY <1>1, <1>2, <1>6 DEF ConfigInv

\* The handler reads the site log and has nothing placed.
LEMMA BeginStep ==
    ASSUME ConfigInv, NEW s \in Sites, BeginHandle(s)
    PROVE  ConfigInv'
<1>0. s # NoSite
  BY ConfigurationsAssumption
<1>1. TypeOK'
  <2>1. pending' \in [Sites -> Nat]
    <3>1. pending[s] \in Nat /\ pending[s] > 0
      BY DEF ConfigInv, TypeOK, BeginHandle
    <3>2. pending[s] - 1 \in Nat
      BY <3>1
    <3>3. QED
      BY <3>2 DEF ConfigInv, TypeOK, BeginHandle
  <2>2. placing' \subseteq ConfiguredItem \X Dates
    <3>1. siteLog[s] \subseteq ConfiguredItem
      BY DEF ConfigInv, TypeOK
    <3>2. QED
      BY <3>1, PlacementsType DEF BeginHandle
  <2>3. \A c \in table' \union configurations' : c \in Configuration /\ c.id < nextId'
    BY DEF ConfigInv, TypeOK, BeginHandle, committed
  <2>4. using' \subseteq Use /\ at' \in Sites \union {NoSite}
    BY DEF BeginHandle
  <2>5. UNCHANGED <<siteLog, uploads, configurations, inUse, everUsed, nextId, rolledBack, faults>>
    BY DEF BeginHandle, committed
  <2>6. QED
    BY <2>1, <2>2, <2>3, <2>4, <2>5 DEF ConfigInv, TypeOK
<1>2. UNCHANGED <<configurations, inUse, everUsed>> /\ table' = configurations
  BY DEF BeginHandle, committed
<1>3. RowsAreUnique' /\ InUseHaveRows'
  BY <1>2, SameCommitted DEF RowsAreUnique
<1>4. UsedHaveRows' /\ TableGoesOn'
  BY <1>2 DEF BeginHandle, UsedHaveRows, TableGoesOn
<1>5. HandlerPlaces'
  <2>1. placing' \union Placed(using') = Placements(siteLog'[at'])
    BY DEF BeginHandle, Placed
  <2>2. ASSUME NEW t \in Sites, Settled(t)'
        PROVE  Placed(inUse'[t]) = Placements(siteLog'[t])
    <3>1. t # s
      BY <2>2 DEF BeginHandle, Settled
    <3>2. pending'[t] = pending[t] /\ at # t /\ rolledBack' = rolledBack
          /\ siteLog' = siteLog
      BY <3>1, ConfigurationsAssumption DEF BeginHandle, ConfigInv, TypeOK
    <3>3. QED
      BY <1>2, <2>2, <3>2 DEF ConfigInv, HandlerPlaces, Settled, Placed
  <2>3. QED
    BY <2>1, <2>2 DEF HandlerPlaces, Placed
<1>6. QED
  BY <1>1, <1>3, <1>4, <1>5 DEF ConfigInv

\* getSetups() throws: the site is not settled.
LEMMA FailStep ==
    ASSUME ConfigInv, NEW s \in Sites, HandleFail(s)
    PROVE  ConfigInv'
<1>1. TypeOK'
  <2>1. pending' \in [Sites -> Nat]
    <3>1. pending[s] \in Nat /\ pending[s] > 0
      BY DEF ConfigInv, TypeOK, HandleFail
    <3>2. pending[s] - 1 \in Nat
      BY <3>1
    <3>3. QED
      BY <3>2 DEF ConfigInv, TypeOK, HandleFail
  <2>2. rolledBack' \in [Sites -> BOOLEAN]
    BY DEF ConfigInv, TypeOK, HandleFail
  <2>3. QED
    BY <2>1, <2>2 DEF ConfigInv, TypeOK, HandleFail, transaction, committed
<1>2. RowsAreUnique' /\ UsedHaveRows' /\ InUseHaveRows' /\ TableGoesOn'
  BY SameRows DEF HandleFail, transaction, committed
<1>3. at' = NoSite
  BY DEF HandleFail, transaction
<1>4. ASSUME NEW t \in Sites, Settled(t)'
      PROVE  Placed(inUse'[t]) = Placements(siteLog'[t])
  <2>1. t # s
    BY <1>4 DEF HandleFail, ConfigInv, TypeOK, Settled
  <2>2. pending'[t] = pending[t] /\ rolledBack'[t] = rolledBack[t] /\ at' = at
        /\ siteLog' = siteLog /\ inUse' = inUse
    BY <2>1 DEF HandleFail, ConfigInv, TypeOK, transaction, committed
  <2>3. QED
    BY <1>4, <2>2 DEF ConfigInv, HandlerPlaces, Settled, Placed
<1>5. HandlerPlaces'
  BY <1>3, <1>4 DEF HandlerPlaces, Placed
<1>6. QED
  BY <1>1, <1>2, <1>5 DEF ConfigInv

------------------------------------------------------------------------------
\* One item is added to one setup.

\* Whatever row it gets, the placing goes on.
LEMMA AddedPlaces ==
    ASSUME ConfigInv, NEW p \in placing, NEW id \in Nat, Added(p, id)
    PROVE  /\ HandlerPlaces'
           /\ using' \subseteq Use /\ placing' \subseteq ConfiguredItem \X Dates
           /\ p[1] \in ConfiguredItem
<1> DEFINE u == [setup |-> p[2], item |-> p[1], configuration |-> id]
<1>1. p \in ConfiguredItem \X Dates
  BY DEF ConfigInv, TypeOK
<1>2. p = <<p[1], p[2]>> /\ p[1] \in ConfiguredItem /\ p[2] \in Dates
  BY <1>1
<1>3. u \in Use
  BY <1>2 DEF Use
<1>4. using' = using \union {u} /\ placing' = placing \ {p}
  BY DEF Added
<1>5. using' \subseteq Use /\ placing' \subseteq ConfiguredItem \X Dates
  BY <1>3, <1>4 DEF ConfigInv, TypeOK
<1>6. Placed(using') = Placed(using) \union {p}
  <2>1. u.item = p[1] /\ u.setup = p[2]
    OBVIOUS
  <2>2. QED
    BY <1>2, <1>4, <2>1 DEF Placed
<1>7. placing' \union Placed(using') = placing \union Placed(using)
  BY <1>4, <1>6
<1>8. UNCHANGED <<siteLog, pending, at, inUse, rolledBack>>
  BY DEF Added, committed
<1>9. /\ at' # NoSite /\ pending'[at'] = 0
             => placing' \union Placed(using') = Placements(siteLog'[at'])
  BY <1>7, <1>8 DEF ConfigInv, HandlerPlaces
<1>10. ASSUME NEW t \in Sites, Settled(t)'
       PROVE  Placed(inUse'[t]) = Placements(siteLog'[t])
  BY <1>8, <1>10 DEF ConfigInv, HandlerPlaces, Settled
<1>11. HandlerPlaces'
  BY <1>9, <1>10 DEF HandlerPlaces, Placed
<1>12. QED
  BY <1>2, <1>5, <1>11

\* Nothing that is committed changes.
LEMMA AddedTypes ==
    ASSUME ConfigInv, NEW p \in placing, NEW id \in Nat, Added(p, id),
           nextId' \in Nat, nextId <= nextId',
           \A c \in table' : c \in Configuration /\ c.id < nextId'
    PROVE  TypeOK'
<1>1. \A c \in configurations' : c \in Configuration /\ c.id < nextId'
  <2>1. ASSUME NEW c \in configurations
        PROVE  c \in Configuration /\ c.id < nextId'
    <3>1. c \in Configuration /\ c.id < nextId /\ nextId \in Nat
      BY DEF ConfigInv, TypeOK
    <3>2. c.id \in Nat
      BY <3>1 DEF Configuration
    <3>3. QED
      BY <3>1, <3>2
  <2>2. QED
    BY <2>1 DEF Added, committed
<1>2. UNCHANGED <<siteLog, uploads, pending, at, inUse, everUsed, rolledBack, faults>>
  BY DEF Added, committed
<1>3. using' \subseteq Use /\ placing' \subseteq ConfiguredItem \X Dates
  BY AddedPlaces
<1>4. QED
  BY <1>1, <1>2, <1>3 DEF ConfigInv, TypeOK

LEMMA AddFoundStep ==
    ASSUME ConfigInv, NEW p \in placing, AddFound(p)
    PROVE  ConfigInv'
<1> DEFINE i == p[1]
           u(c) == [setup |-> p[2], item |-> i, configuration |-> c.id]
<1>1. PICK c \in FindConfiguration(i) :
          /\ table' = (table \ {c}) \union {Configured(c, i)}
          /\ Added(p, c.id)
          /\ UNCHANGED nextId
  BY DEF AddFound
<1>2. c \in table /\ c.equipment = EquipmentOf(i) /\ c.time = i.from
  BY DEF FindConfiguration
<1>3. c \in Configuration /\ c.id < nextId /\ c.id \in Nat /\ nextId \in Nat
  BY <1>2 DEF ConfigInv, TypeOK, Configuration
<1>4. i \in ConfiguredItem
  BY <1>1, <1>3, AddedPlaces
<1> DEFINE d == Configured(c, i)
<1>5. /\ d \in Configuration
      /\ d.id = c.id /\ d.equipment = c.equipment /\ d.time = c.time /\ d.setting = i.setting
  BY <1>3, <1>4 DEF Configured, Configuration, ConfiguredItem
<1> HIDE DEF d
<1>6. table' = (table \ {c}) \union {d}
  BY <1>1 DEF d
<1>7. using' = using \union {u(c)} /\ UNCHANGED <<configurations, inUse, everUsed, at>>
  BY <1>1 DEF Added, committed
<1>8. TypeOK'
  <2>1. \A e \in table' : e \in Configuration /\ e.id < nextId'
    BY <1>1, <1>3, <1>5, <1>6 DEF ConfigInv, TypeOK
  <2>2. QED
    BY <1>1, <1>3, <2>1, AddedTypes
<1>9. RowsAreUnique'
  <2>1. Unique(table)
    BY DEF ConfigInv, RowsAreUnique
  <2>2. Unique(table')
    BY <1>2, <1>5, <1>6, <2>1 DEF Unique
  <2>3. QED
    BY <1>7, <2>2, SameCommitted DEF RowsAreUnique
<1>10. UsedHaveRows'
  <2>1. ASSUME NEW v \in using'
        PROVE  HasRow(v, table', IsReused(v)')
    <3>1. CASE v.configuration = c.id
      <4>1. v.item # i => IsReused(v)'
        <5>1. u(c) \in using' /\ u(c).item = i /\ u(c).configuration = c.id
          BY <1>7
        <5>2. QED
          BY <3>1, <5>1 DEF IsReused
      <4>2. c.equipment = EquipmentOf(v.item) /\ c.time = v.item.from
        <5>1. CASE v \in using
          <6>1. PICK e \in table : /\ e.id = v.configuration
                                   /\ e.equipment = EquipmentOf(v.item) /\ e.time = v.item.from
            BY <5>1 DEF ConfigInv, UsedHaveRows, HasRow
          <6>2. e = c
            BY <1>2, <3>1, <6>1 DEF ConfigInv, RowsAreUnique, Unique
          <6>3. QED
            BY <6>1, <6>2
        <5>2. CASE v = u(c)
          BY <1>2, <5>2
        <5>3. QED
          BY <1>7, <5>1, <5>2
      <4>3. d.setting = v.item.setting \/ IsReused(v)'
        BY <1>5, <4>1
      <4>4. d \in table'
        BY <1>6
      <4>5. QED
        BY <1>5, <3>1, <4>2, <4>3, <4>4 DEF HasRow
    <3>2. CASE v.configuration # c.id
      <4>1. v \in using
        BY <1>7, <3>2
      <4>2. PICK e \in table :
                /\ e.id = v.configuration
                /\ e.equipment = EquipmentOf(v.item) /\ e.time = v.item.from
                /\ e.setting = v.item.setting \/ IsReused(v)
        BY <4>1 DEF ConfigInv, UsedHaveRows, HasRow
      <4>3. e \in table'
        BY <1>6, <3>2, <4>2
      <4>4. IsReused(v) => IsReused(v)'
        BY <1>7 DEF IsReused
      <4>5. QED
        BY <4>2, <4>3, <4>4 DEF HasRow
    <3>3. QED
      BY <3>1, <3>2
  <2>2. QED
    BY <2>1 DEF UsedHaveRows, HasRow, IsReused
<1>11. TableGoesOn'
  <2>1. ASSUME at # NoSite, NEW e \in configurations
        PROVE  \E f \in table' :
                  /\ f.id = e.id /\ f.equipment = e.equipment /\ f.time = e.time
                  /\ f.setting # e.setting =>
                        \E v \in using' : v.configuration = e.id /\ v.item.setting = f.setting
    <3>1. PICK f \in table :
              /\ f.id = e.id /\ f.equipment = e.equipment /\ f.time = e.time
              /\ f.setting # e.setting =>
                    \E v \in using : v.configuration = e.id /\ v.item.setting = f.setting
      BY <2>1 DEF ConfigInv, TableGoesOn
    <3>2. CASE f = c
      <4>1. u(c) \in using' /\ u(c).configuration = e.id /\ u(c).item.setting = d.setting
        BY <1>5, <1>7, <3>1, <3>2
      <4>2. QED
        BY <1>5, <1>6, <3>1, <3>2, <4>1
    <3>3. CASE f # c
      BY <1>6, <1>7, <3>1, <3>3
    <3>4. QED
      BY <3>2, <3>3
  <2>2. QED
    BY <1>7, <2>1 DEF TableGoesOn
<1>12. InUseHaveRows'
  BY <1>7, SameCommitted
<1>13. HandlerPlaces'
  BY <1>1, <1>3, AddedPlaces
<1>14. QED
  BY <1>8, <1>9, <1>10, <1>11, <1>12, <1>13 DEF ConfigInv

LEMMA AddNewStep ==
    ASSUME ConfigInv, NEW p \in placing, AddNew(p)
    PROVE  ConfigInv'
<1> DEFINE i == p[1]
           u == [setup |-> p[2], item |-> i, configuration |-> nextId]
           d == [id |-> nextId, equipment |-> EquipmentOf(i), time |-> i.from,
                 setting |-> i.setting]
<1>1. /\ FindConfiguration(i) = {} /\ table' = table \union {d}
      /\ Added(p, nextId) /\ nextId' = nextId + 1
  BY DEF AddNew
<1>2. nextId \in Nat
  BY DEF ConfigInv, TypeOK
<1>3. i \in ConfiguredItem
  BY <1>1, <1>2, AddedPlaces
<1>4. d \in Configuration
  BY <1>2, <1>3 DEF Configuration, ConfiguredItem, EquipmentOf
<1>5. /\ d.id = nextId /\ d.equipment = EquipmentOf(i) /\ d.time = i.from
      /\ d.setting = i.setting
  OBVIOUS
<1>6. u.item = i /\ u.configuration = nextId
  OBVIOUS
<1>7. using' = using \union {u} /\ UNCHANGED <<configurations, inUse, everUsed, at>>
  BY <1>1 DEF Added, committed
<1> HIDE DEF d, u
<1>8. \A e \in table : e \in Configuration /\ e.id \in Nat /\ e.id < nextId /\ e.id # nextId
  <2>1. ASSUME NEW e \in table
        PROVE  e \in Configuration /\ e.id \in Nat /\ e.id < nextId /\ e.id # nextId
    <3>1. e \in Configuration /\ e.id < nextId
      BY DEF ConfigInv, TypeOK
    <3>2. e.id \in Nat
      BY <3>1 DEF Configuration
    <3>3. QED
      BY <1>2, <3>1, <3>2
  <2>2. QED
    BY <2>1
<1>9. TypeOK'
  <2>1. ASSUME NEW e \in table'
        PROVE  e \in Configuration /\ e.id < nextId'
    BY <1>1, <1>2, <1>4, <1>5, <1>8
  <2>2. nextId' \in Nat /\ nextId <= nextId'
    BY <1>1, <1>2
  <2>3. QED
    BY <1>1, <1>2, <2>1, <2>2, AddedTypes
<1>10. RowsAreUnique'
  <2>1. \A e \in table : ~(i.from # NoDate /\ e.equipment = EquipmentOf(i) /\ e.time = i.from)
    BY <1>1 DEF FindConfiguration
  <2>2. Unique(table')
    BY <1>1, <1>5, <1>8, <2>1 DEF ConfigInv, RowsAreUnique, Unique
  <2>3. QED
    BY <1>7, <2>2, SameCommitted DEF RowsAreUnique
<1>11. UsedHaveRows'
  <2>1. ASSUME NEW v \in using'
        PROVE  HasRow(v, table', IsReused(v)')
    <3>1. CASE v = u
      BY <1>1, <1>5, <1>6, <3>1 DEF HasRow
    <3>2. CASE v \in using
      <4>1. HasRow(v, table, IsReused(v))
        BY <3>2 DEF ConfigInv, UsedHaveRows
      <4>2. IsReused(v) => IsReused(v)'
        BY <1>7 DEF IsReused
      <4>3. QED
        BY <1>1, <4>1, <4>2 DEF HasRow
    <3>3. QED
      BY <1>7, <3>1, <3>2
  <2>2. QED
    BY <2>1 DEF UsedHaveRows, HasRow, IsReused
<1>12. TableGoesOn'
  BY <1>1, <1>7 DEF ConfigInv, TableGoesOn
<1>13. InUseHaveRows'
  BY <1>7, SameCommitted
<1>14. HandlerPlaces'
  BY <1>1, <1>2, AddedPlaces
<1>15. QED
  BY <1>9, <1>10, <1>11, <1>12, <1>13, <1>14 DEF ConfigInv

------------------------------------------------------------------------------
\* The handler ends.

\* What is committed goes on from what was, whether the setups use it or not.
LEMMA CommitKeeps ==
    ASSUME ConfigInv, HandleCommit, NEW c \in configurations
    PROVE  \E d \in configurations' :
              /\ d.id = c.id /\ d.equipment = c.equipment /\ d.time = c.time
              /\ d.setting # c.setting =>
                    \E u \in inUse'[at] : u.configuration = c.id /\ u.item.setting = d.setting
<1>1. configurations' = table /\ inUse'[at] = using /\ at # NoSite
  BY DEF HandleCommit, ConfigInv, TypeOK
<1>2. QED
  BY <1>1 DEF ConfigInv, TableGoesOn

LEMMA CommitStep == ASSUME ConfigInv, HandleCommit PROVE ConfigInv'
<1>1. at \in Sites /\ at # NoSite /\ placing = {}
  BY DEF HandleCommit, ConfigInv, TypeOK
<1>2. /\ at' = NoSite /\ table' = {} /\ using' = {} /\ placing' = {}
      /\ UNCHANGED <<siteLog, uploads, pending, nextId, faults>>
  BY DEF HandleCommit, TransactionEnds
<1>3. /\ configurations' = table
      /\ inUse' = [inUse EXCEPT ![at] = using]
      /\ everUsed' = [everUsed EXCEPT ![at] = @ \union {u.configuration : u \in using}]
      /\ rolledBack' = [rolledBack EXCEPT ![at] = FALSE]
  BY DEF HandleCommit
<1>4. /\ inUse'[at] = using
      /\ everUsed'[at] = everUsed[at] \union {u.configuration : u \in using}
      /\ \A t \in Sites \ {at} : inUse'[t] = inUse[t] /\ everUsed'[t] = everUsed[t]
                                /\ rolledBack'[t] = rolledBack[t]
  BY <1>1, <1>3 DEF ConfigInv, TypeOK
<1>5. TypeOK'
  <2>1. inUse' \in [Sites -> SUBSET Use]
    BY <1>3 DEF ConfigInv, TypeOK
  <2>2. everUsed' \in [Sites -> SUBSET Nat]
    <3>1. {u.configuration : u \in using} \subseteq Nat
      BY DEF ConfigInv, TypeOK, Use
    <3>2. QED
      BY <1>1, <1>3, <3>1 DEF ConfigInv, TypeOK
  <2>3. rolledBack' \in [Sites -> BOOLEAN]
    BY <1>3 DEF ConfigInv, TypeOK
  <2>4. \A c \in table' \union configurations' : c \in Configuration /\ c.id < nextId'
    BY <1>2, <1>3 DEF ConfigInv, TypeOK
  <2>5. QED
    BY <1>2, <2>1, <2>2, <2>3, <2>4 DEF ConfigInv, TypeOK
<1>6. RowsAreUnique' /\ UsedHaveRows' /\ TableGoesOn'
  BY <1>2, <1>3 DEF ConfigInv, RowsAreUnique, Unique, UsedHaveRows, TableGoesOn
<1>7. InUseHaveRows'
  <2>0. PICK h \in Sites : h = at
    BY <1>1
  <2>1. ASSUME NEW u \in using
        PROVE  u.configuration \in everUsed'[h] /\ HasRow(u, configurations', IsShared(h, u)')
    <3>1. IsReused(u) => IsShared(h, u)'
      BY <1>4, <2>0 DEF IsReused, IsShared
    <3>2. HasRow(u, table, IsReused(u))
      BY DEF ConfigInv, UsedHaveRows
    <3>3. QED
      BY <1>3, <1>4, <2>0, <3>1, <3>2 DEF HasRow
  <2>2. ASSUME NEW t \in Sites \ {at}, NEW u \in inUse[t]
        PROVE  u.configuration \in everUsed'[t] /\ HasRow(u, configurations', IsShared(t, u)')
    <3>1. u.configuration \in everUsed[t]
      BY DEF ConfigInv, InUseHaveRows
    <3>2. PICK c \in configurations :
              /\ c.id = u.configuration
              /\ c.equipment = EquipmentOf(u.item) /\ c.time = u.item.from
              /\ c.setting = u.item.setting \/ IsShared(t, u)
      BY DEF ConfigInv, InUseHaveRows, HasRow
    <3>3. PICK d \in configurations' :
              /\ d.id = c.id /\ d.equipment = c.equipment /\ d.time = c.time
              /\ d.setting # c.setting =>
                    \E v \in inUse'[at] : v.configuration = c.id /\ v.item.setting = d.setting
      BY CommitKeeps
    <3>4. IsShared(t, u) => IsShared(t, u)'
      BY <1>1, <1>4 DEF IsShared
    <3>5. d.setting # c.setting => IsShared(t, u)'
      BY <1>1, <1>4, <3>2, <3>3 DEF IsShared
    <3>6. QED
      BY <1>4, <3>1, <3>2, <3>3, <3>4, <3>5 DEF HasRow
  <2>3. QED
    <3>1. ASSUME NEW t \in Sites, NEW u \in inUse'[t]
          PROVE  u.configuration \in everUsed'[t] /\ HasRow(u, configurations', IsShared(t, u)')
      <4>1. CASE t = h
        BY <1>4, <2>0, <2>1, <3>1, <4>1
      <4>2. CASE t # h
        BY <1>4, <2>0, <2>2, <3>1, <4>2
      <4>3. QED
        BY <4>1, <4>2
    <3>2. QED
      BY <3>1 DEF InUseHaveRows, HasRow
<1>8. HandlerPlaces'
  <2>1. ASSUME NEW t \in Sites, Settled(t)'
        PROVE  Placed(inUse'[t]) = Placements(siteLog'[t])
    <3>1. CASE t = at
      BY <1>1, <1>2, <1>4, <2>1, <3>1 DEF ConfigInv, HandlerPlaces, Settled, Placed
    <3>2. CASE t # at
      BY <1>2, <1>4, <2>1, <3>2 DEF ConfigInv, HandlerPlaces, Settled, Placed
    <3>3. QED
      BY <3>1, <3>2
  <2>2. QED
    BY <1>2, <2>1 DEF HandlerPlaces, Placed
<1>9. QED
  BY <1>5, <1>6, <1>7, <1>8 DEF ConfigInv

LEMMA FaultStep == ASSUME ConfigInv, HandlerFault PROVE ConfigInv'
<1>1. at \in Sites /\ at # NoSite
  BY DEF HandlerFault, ConfigInv, TypeOK
<1>2. /\ at' = NoSite /\ table' = {} /\ using' = {} /\ placing' = {}
      /\ UNCHANGED <<siteLog, uploads, pending, configurations, inUse, everUsed, nextId>>
  BY DEF HandlerFault, TransactionEnds, committed
<1>3. rolledBack' = [rolledBack EXCEPT ![at] = TRUE]
  BY DEF HandlerFault
<1>4. TypeOK'
  <2>1. faults' \in 0 .. MaxFaults
    BY ConfigurationsAssumption DEF HandlerFault, ConfigInv, TypeOK
  <2>2. rolledBack' \in [Sites -> BOOLEAN]
    BY <1>3 DEF ConfigInv, TypeOK
  <2>3. QED
    BY <1>2, <2>1, <2>2 DEF ConfigInv, TypeOK
<1>5. RowsAreUnique' /\ UsedHaveRows' /\ TableGoesOn'
  BY <1>2 DEF ConfigInv, RowsAreUnique, Unique, UsedHaveRows, TableGoesOn
<1>6. InUseHaveRows'
  BY <1>2, SameCommitted
<1>7. ASSUME NEW t \in Sites, Settled(t)'
      PROVE  Placed(inUse'[t]) = Placements(siteLog'[t])
  <2>1. t # at
    BY <1>1, <1>3, <1>7 DEF ConfigInv, TypeOK, Settled
  <2>2. rolledBack'[t] = rolledBack[t]
    BY <1>3, <2>1 DEF ConfigInv, TypeOK
  <2>3. QED
    BY <1>2, <1>7, <2>1, <2>2 DEF ConfigInv, HandlerPlaces, Settled, Placed
<1>8. HandlerPlaces'
  BY <1>2, <1>7 DEF HandlerPlaces, Placed
<1>9. QED
  BY <1>4, <1>5, <1>6, <1>8 DEF ConfigInv

LEMMA ConfigStep == ConfigInv /\ [Next]_vars => ConfigInv'
<1> SUFFICES ASSUME ConfigInv, [Next]_vars PROVE ConfigInv'
  OBVIOUS
<1>1. ASSUME NEW s \in Sites, NEW log \in Logs, Upload(s, log) PROVE ConfigInv'
  BY <1>1, UploadStep
<1>2. ASSUME NEW s \in Sites, BeginHandle(s) PROVE ConfigInv'
  BY <1>2, BeginStep
<1>3. ASSUME NEW s \in Sites, HandleFail(s) PROVE ConfigInv'
  BY <1>3, FailStep
<1>4. ASSUME NEW p \in placing, AddFound(p) PROVE ConfigInv'
  BY <1>4, AddFoundStep
<1>5. ASSUME NEW p \in placing, AddNew(p) PROVE ConfigInv'
  BY <1>5, AddNewStep
<1>6. CASE HandleCommit
  BY <1>6, CommitStep
<1>7. CASE HandlerFault
  BY <1>7, FaultStep
<1>8. CASE UNCHANGED vars
  <2>1. RowsAreUnique' /\ UsedHaveRows' /\ InUseHaveRows' /\ TableGoesOn'
    BY <1>8, SameRows DEF vars, transaction, committed
  <2>2. TypeOK'
    BY <1>8 DEF vars, transaction, committed, ConfigInv, TypeOK
  <2>3. HandlerPlaces'
    BY <1>8 DEF vars, transaction, committed, ConfigInv, HandlerPlaces, Settled, Placed
  <2>4. QED
    BY <2>1, <2>2, <2>3 DEF ConfigInv
<1>9. QED
  BY <1>1, <1>2, <1>3, <1>4, <1>5, <1>6, <1>7, <1>8 DEF Next

\* The invariant holds in every reachable state.
THEOREM ConfigurationsInvariant == Spec => []ConfigInv
BY ConfigInit, ConfigStep, PTL DEF Spec

------------------------------------------------------------------------------
\* The variables keep their types, and ids come from the sequence
\* (EquipmentConfigurationRepository.saveAndFlush()).
THEOREM ConfigurationTypes == Spec => []TypeOK
<1>1. ConfigInv => TypeOK
  BY DEF ConfigInv
<1>2. QED
  BY <1>1, ConfigurationsInvariant, PTL

\* EquipmentFactory.getConfiguration() never leaves two configurations of one piece
\* of equipment for one date.
THEOREM ConfigurationsAreUnique == Spec => []OneConfigurationPerDate
<1>1. ConfigInv => OneConfigurationPerDate
  BY DEF ConfigInv, RowsAreUnique, Unique, OneConfigurationPerDate
<1>2. QED
  BY <1>1, ConfigurationsInvariant, PTL

\* When the events of a site are handled, its setups have the equipment that
\* addEquipment() is to put there, and the configurations say of it what the site log
\* says, unless another item or site has the same one.
THEOREM ConfigurationsSayLog == Spec => []SettledConfigurationsSayLog
<1>1. ConfigInv => SettledConfigurationsSayLog
  <2> SUFFICES ASSUME ConfigInv, NEW s \in Sites, Settled(s)
               PROVE  /\ Placed(inUse[s]) = Placements(siteLog[s])
                      /\ \A u \in inUse[s] : SaysItem(u) \/ IsShared(s, u)
    BY DEF SettledConfigurationsSayLog, Placed
  <2>1. Placed(inUse[s]) = Placements(siteLog[s])
    BY DEF ConfigInv, HandlerPlaces
  <2>2. \A u \in inUse[s] : SaysItem(u) \/ IsShared(s, u)
    BY DEF ConfigInv, InUseHaveRows, HasRow, SaysItem
  <2>3. QED
    BY <2>1, <2>2
<1>2. QED
  BY <1>1, ConfigurationsInvariant, PTL

\* No handler takes a configuration away or makes it another's, and its settings
\* change only with setups that are committed and use it (EquipmentFactory.create()).
THEOREM ConfigurationsStay == Spec => ConfigurationsAreKept
<1> DEFINE Kept ==
        \A c \in configurations :
          \E d \in configurations' :
              /\ d.id = c.id /\ d.equipment = c.equipment /\ d.time = c.time
              /\ d.setting # c.setting =>
                    \E s \in Sites : \E u \in inUse'[s] :
                        u.configuration = c.id /\ u.item.setting = d.setting
<1>1. ConfigInv /\ [Next]_vars => [Kept]_vars
  <2> SUFFICES ASSUME ConfigInv, Next, NEW c \in configurations
               PROVE  \E d \in configurations' :
                        /\ d.id = c.id /\ d.equipment = c.equipment /\ d.time = c.time
                        /\ d.setting # c.setting =>
                              \E s \in Sites : \E u \in inUse'[s] :
                                  u.configuration = c.id /\ u.item.setting = d.setting
    OBVIOUS
  <2>1. CASE HandleCommit
    <3>1. at \in Sites
      BY <2>1 DEF HandleCommit, ConfigInv, TypeOK
    <3>2. QED
      BY <2>1, <3>1, CommitKeeps
  <2>2. CASE configurations' = configurations
    BY <2>2
  <2>3. HandleCommit \/ configurations' = configurations
    BY DEF Next, Upload, BeginHandle, HandleFail, AddFound, AddNew, Added, HandlerFault, committed
  <2>4. QED
    BY <2>1, <2>2, <2>3
<1>2. QED
  BY <1>1, ConfigurationsInvariant, PTL DEF Spec, ConfigurationsAreKept

==============================================================================
