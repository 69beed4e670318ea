------------------------ MODULE NetworkTenanciesProofs ------------------------
(***************************************************************************)
(* The invariants of NetworkTenancies, for any number of requests and      *)
(* updates.  A copy with the version of the site is the site: every change *)
(* of the tenancies takes a new version (CopiesAreVersions).               *)
(***************************************************************************)
EXTENDS NetworkTenancies, FiniteSetTheorems, TLAPS

\* A loaded copy is not newer than the site, and equal to it if it is as new.
CopiesAreVersions ==
    \A r \in Requests : state[r] \in {"loaded", "adding", "keeping"} =>
        /\ copy[r].version <= version
        /\ IsFresh(r) => copy[r].tenancies = tenancies

\* What Change() has found out about the copy.
ChangesAreKnown ==
    \A r \in Requests :
        /\ state[r] = "adding" => ~ContainsTenancy(copy[r].tenancies, r)
        /\ state[r] = "keeping" => ContainsTenancy(copy[r].tenancies, r)

\* An update that is about to be given up has a tenancy to blame.
UpdatesAreCounted ==
    /\ IsFiniteSet(tenancies)
    /\ handler.version <= version
    /\ lost <= updates
    /\ handler.step = "read" => lost < updates
    /\ lost <= Cardinality(tenancies)
    /\ handler.step = "read" /\ handler.version # version =>
           lost < Cardinality(tenancies)

Inv ==
    /\ TenanciesTypeOK
    /\ CopiesAreVersions
    /\ ChangesAreKnown
    /\ TenanciesAreTheAccepted
    /\ NoTenancyTwice
    /\ TenanciesHaveNetworks
    /\ UpdatesAreCounted

USE DEF State, Copy, Handler

LEMMA InitInv == Init => Inv
<1>1. IsFiniteSet({}) /\ Cardinality({}) = 0
  BY FS_EmptySet
<1>2. SUFFICES ASSUME Init PROVE Inv
  OBVIOUS
<1>3. TenanciesTypeOK
  BY <1>2, TenanciesAssumption DEF Init, TenanciesTypeOK
<1>4. CopiesAreVersions /\ ChangesAreKnown /\ NoTenancyTwice /\ TenanciesHaveNetworks
  BY <1>2 DEF Init, CopiesAreVersions, ChangesAreKnown, NoTenancyTwice, TenanciesHaveNetworks
<1>5. TenanciesAreTheAccepted
  BY <1>2 DEF Init, TenanciesAreTheAccepted
<1>6. UpdatesAreCounted
  BY <1>1, <1>2 DEF Init, UpdatesAreCounted
<1>7. QED
  BY <1>3, <1>4, <1>5, <1>6 DEF Inv

LEMMA TypesStep == Inv /\ [Next]_vars => TenanciesTypeOK'
<1> SUFFICES ASSUME Inv, [Next]_vars PROVE TenanciesTypeOK'
  OBVIOUS
<1> USE TenanciesAssumption DEF Inv, TenanciesTypeOK
<1>1. ASSUME NEW r \in Requests, AddToNetwork(r) PROVE TenanciesTypeOK'
  <2>1. CASE Load(r)
    BY <2>1 DEF Load, site, service
  <2>2. CASE Refuse(r) \/ Change(r) \/ Keep(r) \/ SaveFails(r)
    BY <2>2 DEF Refuse, Change, Keep, SaveFails, site, service
  <2>3. CASE Save(r)
    BY <2>3 DEF Save, site, service
  <2>4. CASE RequestFault(r)
    BY <2>4 DEF RequestFault, site, service
  <2>5. QED
    BY <1>1, <2>1, <2>2, <2>3, <2>4 DEF AddToNetwork
<1>2. ASSUME NEW n \in Networks, DeleteNetwork(n) PROVE TenanciesTypeOK'
  BY <1>2 DEF DeleteNetwork, site, service
<1>3. CASE BeginUpdate
  BY <1>3 DEF BeginUpdate, site
<1>4. CASE FlushUpdate \/ CommitUpdate \/ UpdateFault
  BY <1>4 DEF FlushUpdate, CommitUpdate, UpdateFault, site
<1>5. CASE LoseUpdate
  BY <1>5 DEF LoseUpdate, UpdatesAreCounted, site
<1>6. CASE UNCHANGED vars
  BY <1>6 DEF vars
<1>7. QED
  BY <1>1, <1>2, <1>3, <1>4, <1>5, <1>6 DEF Next, Update

LEMMA CopiesStep == Inv /\ [Next]_vars => (CopiesAreVersions /\ ChangesAreKnown)'
<1> SUFFICES ASSUME Inv, [Next]_vars PROVE (CopiesAreVersions /\ ChangesAreKnown)'
  OBVIOUS
<1> USE DEF Inv, TenanciesTypeOK, CopiesAreVersions, ChangesAreKnown, ContainsTenancy, IsFresh
<1>1. ASSUME NEW r \in Requests, AddToNetwork(r)
      PROVE  (CopiesAreVersions /\ ChangesAreKnown)'
  <2>1. CASE Load(r)
    BY <2>1 DEF Load, site, service
  <2>2. CASE Change(r)
    BY <2>2 DEF Change, site, service
  <2>3. CASE Refuse(r) \/ Keep(r) \/ SaveFails(r) \/ RequestFault(r)
    BY <2>3 DEF Refuse, Keep, SaveFails, RequestFault, site, service
  <2>4. CASE Save(r)
    BY <2>4 DEF Save, site, service
  <2>5. QED
    BY <1>1, <2>1, <2>2, <2>3, <2>4 DEF AddToNetwork
<1>2. ASSUME NEW n \in Networks, DeleteNetwork(n)
      PROVE  (CopiesAreVersions /\ ChangesAreKnown)'
  BY <1>2 DEF DeleteNetwork, site, service
<1>3. CASE Update
  BY <1>3 DEF Update, BeginUpdate, FlushUpdate, LoseUpdate, CommitUpdate, UpdateFault, site
<1>4. CASE UNCHANGED vars
  BY <1>4 DEF vars
<1>5. QED
  BY <1>1, <1>2, <1>3, <1>4 DEF Next

\* Only Save() changes the tenancies, and adds one that the site does not have.
LEMMA SaveAdds ==
    ASSUME Inv, NEW r \in Requests, Save(r)
    PROVE  /\ tenancies' = tenancies \union {r}
           /\ ~ContainsTenancy(tenancies, r)
BY DEF Inv, Save, CopiesAreVersions, ChangesAreKnown

\* Keep() finds the tenancy stored.
LEMMA KeepFinds ==
    ASSUME Inv, NEW r \in Requests, Keep(r)
    PROVE  ContainsTenancy(tenancies, r)
BY DEF Inv, Keep, CopiesAreVersions, ChangesAreKnown

LEMMA AcceptedStep == Inv /\ [Next]_vars => TenanciesAreTheAccepted'
<1> SUFFICES ASSUME Inv, [Next]_vars PROVE TenanciesAreTheAccepted'
  OBVIOUS
<1> DEFINE Accepted == {q \in Requests : state[q] = "ok"}
<1>1. /\ tenancies \subseteq Requests
      /\ state \in [Requests -> State]
      /\ {Asked[q] : q \in tenancies} = {Asked[q] : q \in Accepted}
  BY DEF Inv, TenanciesTypeOK, TenanciesAreTheAccepted
<1>2. ASSUME NEW r \in Requests, AddToNetwork(r) PROVE TenanciesAreTheAccepted'
  <2>1. CASE Load(r) \/ Refuse(r) \/ Change(r) \/ SaveFails(r) \/ RequestFault(r)
    <3>1. tenancies' = tenancies /\ Accepted' = Accepted
      BY <1>1, <2>1 DEF Load, Refuse, Change, SaveFails, RequestFault, site
    <3>2. QED
      BY <1>1, <3>1 DEF TenanciesAreTheAccepted
  <2>2. CASE Save(r)
    <3>1. tenancies' = tenancies \union {r}
      BY <2>2, SaveAdds
    <3>2. Accepted' = Accepted \union {r}
      BY <1>1, <2>2 DEF Save
    <3>3. QED
      BY <1>1, <3>1, <3>2 DEF TenanciesAreTheAccepted
  <2>3. CASE Keep(r)
    <3>1. tenancies' = tenancies /\ Accepted' = Accepted \union {r}
      BY <1>1, <2>3 DEF Keep, site
    <3>2. \E q \in tenancies : Asked[q] = Asked[r]
      BY <2>3, KeepFinds DEF ContainsTenancy
    <3>3. QED
      BY <1>1, <3>1, <3>2 DEF TenanciesAreTheAccepted
  <2>4. QED
    BY <1>2, <2>1, <2>2, <2>3 DEF AddToNetwork
<1>3. ASSUME UNCHANGED <<tenancies, state>> PROVE TenanciesAreTheAccepted'
  BY <1>1, <1>3 DEF TenanciesAreTheAccepted
<1>4. QED
  BY <1>2, <1>3
  DEF Next, DeleteNetwork, Update, BeginUpdate, FlushUpdate, LoseUpdate, CommitUpdate,
      UpdateFault, site, vars

LEMMA OnceStep == Inv /\ [Next]_vars => (NoTenancyTwice /\ TenanciesHaveNetworks)'
<1> SUFFICES ASSUME Inv, [Next]_vars PROVE (NoTenancyTwice /\ TenanciesHaveNetworks)'
  OBVIOUS
<1> USE DEF NoTenancyTwice, TenanciesHaveNetworks
<1>1. NoTenancyTwice /\ TenanciesHaveNetworks
  BY DEF Inv
<1>2. ASSUME NEW r \in Requests, Save(r) PROVE (NoTenancyTwice /\ TenanciesHaveNetworks)'
  <2>1. tenancies' = tenancies \union {r} /\ \A q \in tenancies : Asked[q] # Asked[r]
    BY <1>2, SaveAdds DEF ContainsTenancy
  <2>2. networks' = networks /\ Asked[r].network \in networks
    BY <1>2 DEF Save
  <2>3. NoTenancyTwice'
    BY <1>1, <2>1
  <2>4. TenanciesHaveNetworks'
    BY <1>1, <2>1, <2>2
  <2>. QED  BY <2>3, <2>4
<1>3. ASSUME NEW n \in Networks, DeleteNetwork(n)
      PROVE  (NoTenancyTwice /\ TenanciesHaveNetworks)'
  BY <1>1, <1>3 DEF DeleteNetwork, site
<1>4. ASSUME UNCHANGED <<tenancies, networks>>
      PROVE  (NoTenancyTwice /\ TenanciesHaveNetworks)'
  BY <1>1, <1>4
<1>5. QED
  BY <1>2, <1>3, <1>4
  DEF Next, AddToNetwork, Load, Refuse, Change, Keep, SaveFails, RequestFault, Update,
      BeginUpdate, FlushUpdate, LoseUpdate, CommitUpdate, UpdateFault, site, vars

LEMMA CountedStep == Inv /\ [Next]_vars => UpdatesAreCounted'
<1> SUFFICES ASSUME Inv, [Next]_vars PROVE UpdatesAreCounted'
  OBVIOUS
<1> USE DEF UpdatesAreCounted
<1>1. /\ UpdatesAreCounted
      /\ version \in Nat /\ handler \in Handler /\ lost \in Nat /\ updates \in Nat
  BY TenanciesAssumption DEF Inv, TenanciesTypeOK
<1>2. Cardinality(tenancies) \in Nat
  BY <1>1, FS_CardinalityType
<1>3. ASSUME NEW r \in Requests, Save(r) PROVE UpdatesAreCounted'
  <2>1. tenancies' = tenancies \union {r} /\ r \notin tenancies
    BY <1>3, SaveAdds DEF ContainsTenancy
  <2>2. IsFiniteSet(tenancies') /\ Cardinality(tenancies') = Cardinality(tenancies) + 1
    BY <1>1, <2>1, FS_AddElement
  <2>3. QED
    BY <1>1, <1>2, <1>3, <2>2 DEF Save, service
<1>4. CASE BeginUpdate
  BY <1>1, <1>2, <1>4 DEF BeginUpdate, site
<1>5. CASE FlushUpdate \/ LoseUpdate
  BY <1>1, <1>2, <1>5 DEF FlushUpdate, LoseUpdate, site
<1>6. CASE CommitUpdate \/ UpdateFault
  BY <1>1, <1>2, <1>6 DEF CommitUpdate, UpdateFault, site
<1>7. ASSUME UNCHANGED <<tenancies, version, service>> PROVE UpdatesAreCounted'
  BY <1>1, <1>7 DEF service
<1>8. QED
  BY <1>3, <1>4, <1>5, <1>6, <1>7
  DEF Next, AddToNetwork, Load, Refuse, Change, Keep, SaveFails, RequestFault,
      DeleteNetwork, Update, site, service, vars

\* The inductive invariant holds at all times.
THEOREM InvHolds == Spec => []Inv
<1>1. Inv /\ [Next]_vars => Inv'
  BY TypesStep, CopiesStep, AcceptedStep, OnceStep, CountedStep DEF Inv
<1>2. QED
  BY InitInv, <1>1, PTL DEF Spec

\* The variables keep their types; no more updates are given up than were begun.
THEOREM TenancyTypes == Spec => []TenanciesTypeOK
BY InvHolds, PTL DEF Inv

\* No interleaving of addToNetwork() with itself and with updates of the site loses
\* a tenancy or keeps one of a request that failed.
THEOREM AcceptedAreStored == Spec => []TenanciesAreTheAccepted
BY InvHolds, PTL DEF Inv

\* The test of the copy is as good as one of the row: no tenancy is stored twice.
THEOREM TenanciesAreUnique == Spec => []NoTenancyTwice
BY InvHolds, PTL DEF Inv

\* The authority to edit a site can be looked up in the networks of its tenancies.
THEOREM NetworksAreThere == Spec => []TenanciesHaveNetworks
BY InvHolds, PTL DEF Inv

\* At most one update of the site is given up for each tenancy it was given.
THEOREM UpdatesLostAreBounded == Spec => []UpdatesGiveWayToTenancies
<1>1. Inv => UpdatesGiveWayToTenancies
  BY DEF Inv, UpdatesAreCounted, UpdatesGiveWayToTenancies
<1>2. QED
  BY InvHolds, <1>1, PTL

==============================================================================
