------------------------- MODULE SiteLogUploadProofs -------------------------
(***************************************************************************)
(* For any number of uploads of a site: when the site has a site log, each *)
(* accepted one replaces the only row there is, and when it has none, the  *)
(* first ones stay side by side.                                           *)
(***************************************************************************)
EXTENDS SiteLogUpload, FiniteSetTheorems, TLAPS

\* The upload whose site log is stored, and the events, of a site that had a site log.
Stored == IF known THEN CHOOSE u \in siteLogs : TRUE ELSE First
Announced == IF known THEN events ELSE {}

Types ==
    /\ known \in BOOLEAN
    /\ events = {u \in Uploads : state[u] = "committed"}
    /\ state \in [Uploads -> State]
    /\ found \in [Uploads -> SUBSET (Uploads \union {First})]
    /\ seen \in [Uploads -> SUBSET Uploads]
    /\ siteLogs \subseteq Uploads \union {First}
    /\ faults \in 0 .. MaxFaults

\* Where there was a row, there is one, and what an upload has found is one row.
OneLog ==
  known =>
    /\ \E u \in Uploads \union {First} : siteLogs = {u}
    /\ \A u \in Uploads : state[u] = "selected" => \E v \in Uploads \union {First} : found[u] = {v}

\* When the row an upload has found is gone, another upload was accepted since.
Overtaken ==
    \A u \in Uploads :
        /\ seen[u] \subseteq events
        /\ state[u] = "selected" /\ ~(found[u] \subseteq siteLogs) => events \ seen[u] # {}
        /\ state[u] = "stale" => events \ seen[u] # {}

LEMMA InitTypes == Init => Types
BY UploadsAssumption DEF Init, Types, State

LEMMA StepTypes == Types /\ [Next]_vars => Types'
<1>. SUFFICES ASSUME Types, [Next]_vars PROVE Types'
  OBVIOUS
<1> USE UploadsAssumption
<1>1. ASSUME NEW u \in Uploads, Select(u)
      PROVE  Types'
  <2>1. siteLogs \in SUBSET (Uploads \union {First}) /\ events \in SUBSET Uploads
    BY DEF Types
  <2>. QED  BY <1>1, <2>1 DEF Select, Types, State
<1>2. ASSUME NEW u \in Uploads, SelectFails(u)
      PROVE  Types'
  BY <1>2 DEF SelectFails, Types, State
<1>3. ASSUME NEW u \in Uploads, Commit(u)
      PROVE  Types'
  BY <1>3 DEF Commit, Types, State
<1>4. ASSUME NEW u \in Uploads, CommitFails(u)
      PROVE  Types'
  BY <1>4 DEF CommitFails, Types, State
<1>5. ASSUME NEW u \in Uploads, Stop(u)
      PROVE  Types'
  BY <1>5 DEF Stop, Types, State
<1>6. CASE UNCHANGED vars
  BY <1>6 DEF vars, Types
<1>. QED  BY <1>1, <1>2, <1>3, <1>4, <1>5, <1>6 DEF Next

\* Every variable keeps its type, and there is an event for each accepted upload.
THEOREM UploadTypes == Spec => []TypeOK
<1>1. Types => TypeOK
  BY DEF Types, TypeOK
<1>. QED  BY <1>1, InitTypes, StepTypes, PTL DEF Spec

\* The steps that leave the site logs and the events alone.
LEMMA OnlyCommitsReplace ==
    ASSUME [Next]_vars, \A u \in Uploads : ~Commit(u)
    PROVE  UNCHANGED <<known, siteLogs, events>>
BY DEF Next, vars, Select, SelectFails, CommitFails, Stop

LEMMA InitOneLog == Init => OneLog
BY DEF Init, OneLog

LEMMA StepOneLog == Types /\ OneLog /\ [Next]_vars => OneLog'
<1>. SUFFICES ASSUME Types, OneLog, [Next]_vars PROVE OneLog'
  OBVIOUS
<1>1. ASSUME NEW u \in Uploads, Select(u)
      PROVE  OneLog'
  BY <1>1 DEF Select, Types, OneLog
<1>2. ASSUME NEW u \in Uploads, Commit(u)
      PROVE  OneLog'
  <2>1. known => siteLogs' = {u}
    BY <1>2 DEF Commit, OneLog
  <2>. QED  BY <2>1, <1>2 DEF Commit, Types, OneLog
<1>3. ASSUME NEW u \in Uploads, SelectFails(u) \/ CommitFails(u) \/ Stop(u)
      PROVE  OneLog'
  BY <1>3 DEF SelectFails, CommitFails, Stop, Types, OneLog
<1>4. CASE UNCHANGED vars
  BY <1>4 DEF vars, OneLog
<1>. QED  BY <1>1, <1>2, <1>3, <1>4 DEF Next

\* A site that has a site log keeps having exactly one, which every accepted
\* upload replaces together with storing its event (CorsSiteLogService.upload).
THEOREM UploadsReplace == Spec => ReplacesOneByOne
<1>1. Init => Store!Init
  BY DEF Init, Store!Init
<1>2. ASSUME Types, OneLog, OneLog', [Next]_vars
      PROVE  [Store!Next]_<<Stored, Announced>>
  <2>1. ASSUME known, NEW u \in Uploads, Commit(u)
        PROVE  Store!Replace(u)
    <3>1. /\ siteLogs' = {u} /\ events' = events \union {u} /\ u \notin events
          /\ known'
      BY <2>1, <1>2 DEF Commit, OneLog, Types
    <3>. QED  BY <3>1, <2>1 DEF Store!Replace
  <2>2. CASE \A u \in Uploads : ~Commit(u)
    <3>1. UNCHANGED <<known, siteLogs, events>>
      BY <2>2, <1>2, OnlyCommitsReplace
    <3>. QED  BY <3>1 DEF Stored, Announced
  <2>3. CASE ~known
    <3>1. ~known'
      BY <1>2, <2>3 DEF Next, vars, Select, SelectFails, Commit, CommitFails, Stop
    <3>. QED  BY <2>3, <3>1 DEF Stored, Announced
  <2>. QED  BY <2>1, <2>2, <2>3 DEF Store!Next
<1>. QED  BY <1>1, <1>2, InitTypes, StepTypes, InitOneLog, StepOneLog, PTL
          DEF Spec, ReplacesOneByOne, Store!Spec, Stored, Announced

------------------------------------------------------------------------------
LEMMA StepOvertaken == Types /\ Overtaken /\ [Next]_vars => Overtaken'
<1>. SUFFICES ASSUME Types, Overtaken, [Next]_vars PROVE Overtaken'
  OBVIOUS
<1>1. ASSUME NEW u \in Uploads, Select(u)
      PROVE  Overtaken'
  BY <1>1 DEF Select, Types, Overtaken
<1>2. ASSUME NEW u \in Uploads, Commit(u)
      PROVE  Overtaken'
  <2>1. u \in events' /\ u \notin events /\ events \subseteq events'
    BY <1>2 DEF Commit, Types
  <2>2. \A v \in Uploads : events' \ seen[v] # {}
    BY <2>1 DEF Overtaken
  <2>. QED  BY <2>1, <2>2, <1>2 DEF Commit, Overtaken
<1>3. ASSUME NEW u \in Uploads, CommitFails(u)
      PROVE  Overtaken'
  BY <1>3 DEF CommitFails, Types, Overtaken
<1>4. ASSUME NEW u \in Uploads, SelectFails(u) \/ Stop(u)
      PROVE  Overtaken'
  BY <1>4 DEF SelectFails, Stop, Types, Overtaken
<1>5. CASE UNCHANGED vars
  BY <1>5 DEF vars, Overtaken
<1>. QED  BY <1>1, <1>2, <1>3, <1>4, <1>5 DEF Next

\* An upload is refused as stale only when another one was accepted after it had
\* selected its site log (CorsSiteLogService.upload).
THEOREM StaleMeansOvertaken == Spec => []StaleUploadsWereOvertaken
<1>1. Init => Overtaken
  BY DEF Init, Overtaken
<1>2. Types /\ Overtaken => StaleUploadsWereOvertaken
  BY DEF Types, Overtaken, StaleUploadsWereOvertaken
<1>. QED  BY <1>1, <1>2, InitTypes, StepTypes, StepOvertaken, PTL DEF Spec

------------------------------------------------------------------------------
\* Uploads of a new site.

\* The accepted uploads that found no site log.
FirstUploads == {u \in Uploads : state[u] = "committed" /\ found[u] = {}}

NewSite ==
    /\ ~known
    /\ \A u \in siteLogs : u \in Uploads /\ state[u] = "committed"
    /\ \A u \in Uploads : IsOneAtMost(found[u])
    /\ IsFiniteSet(siteLogs) /\ IsFiniteSet(FirstUploads)
    /\ Cardinality(siteLogs) = Cardinality(FirstUploads)

\* An upload that found a site log replaces it, one that found none adds its own.
LEMMA CommitKeepsNewSite ==
    ASSUME Types, NewSite, NEW u \in Uploads, Commit(u)
    PROVE  NewSite'
<1>1. u \notin siteLogs /\ u \notin FirstUploads /\ state[u] = "selected"
  BY DEF Commit, NewSite, FirstUploads
<1>2. /\ siteLogs' = (siteLogs \ found[u]) \union {u} /\ found' = found
      /\ state' = [state EXCEPT ![u] = "committed"] /\ found[u] \subseteq siteLogs
  BY DEF Commit
<1>3. \A v \in Uploads : state'[v] = IF v = u THEN "committed" ELSE state[v]
  BY <1>2 DEF Types
<1>4. ~known' /\ \A v \in siteLogs' : v \in Uploads /\ state'[v] = "committed"
  BY <1>2, <1>3 DEF NewSite, Commit
<1>5. \A v \in Uploads : IsOneAtMost(found'[v])
  BY <1>2 DEF NewSite
<1>6. /\ IsFiniteSet(siteLogs) /\ IsFiniteSet(FirstUploads)
      /\ Cardinality(siteLogs) = Cardinality(FirstUploads)
  BY DEF NewSite
<1>7. CASE found[u] = {}
  <2>1. siteLogs' = siteLogs \union {u} /\ FirstUploads' = FirstUploads \union {u}
    BY <1>2, <1>3, <1>7 DEF FirstUploads
  <2>2. /\ IsFiniteSet(siteLogs') /\ Cardinality(siteLogs') = Cardinality(siteLogs) + 1
        /\ IsFiniteSet(FirstUploads') /\ Cardinality(FirstUploads') = Cardinality(FirstUploads) + 1
    BY <1>1, <1>6, <2>1, FS_AddElement
  <2>. QED  BY <1>4, <1>5, <1>6, <2>2 DEF NewSite
<1>8. CASE found[u] # {}
  <2>1. PICK v \in found[u] : found[u] = {v} /\ v \in siteLogs
    BY <1>2, <1>8 DEF NewSite, IsOneAtMost
  <2> DEFINE rest == siteLogs \ {v}
  <2>2. FirstUploads' = FirstUploads /\ siteLogs' = rest \union {u} /\ u \notin rest
    BY <1>1, <1>2, <1>3, <1>8, <2>1 DEF FirstUploads
  <2>3. IsFiniteSet(rest) /\ Cardinality(rest) = Cardinality(siteLogs) - 1
    BY <1>6, <2>1, FS_RemoveElement
  <2>4. Cardinality(siteLogs) \in Nat
    BY <1>6, FS_CardinalityType
  <2> HIDE DEF rest
  <2>5. IsFiniteSet(siteLogs') /\ Cardinality(siteLogs') = Cardinality(rest) + 1
    BY <2>2, <2>3, FS_AddElement
  <2>6. Cardinality(siteLogs') = Cardinality(siteLogs)
    BY <2>3, <2>4, <2>5
  <2>. QED  BY <1>4, <1>5, <1>6, <2>2, <2>5, <2>6 DEF NewSite
<1>. QED  BY <1>7, <1>8

LEMMA StepNewSite == Types /\ NewSite /\ [Next]_vars => NewSite'
<1>. SUFFICES ASSUME Types, NewSite, [Next]_vars PROVE NewSite'
  OBVIOUS
<1>1. ASSUME UNCHANGED <<known, siteLogs>>,
             \A u \in Uploads : state[u] = "committed" <=> state'[u] = "committed",
             \A u \in Uploads : state[u] = "committed" => found'[u] = found[u],
             \A u \in Uploads : IsOneAtMost(found'[u])
      PROVE  NewSite'
  <2>1. FirstUploads' = FirstUploads
    BY <1>1 DEF FirstUploads
  <2>. QED  BY <1>1, <2>1 DEF NewSite
<1>2. ASSUME NEW u \in Uploads, Select(u)
      PROVE  NewSite'
  BY <1>1, <1>2 DEF Select, Types, NewSite
<1>3. ASSUME NEW u \in Uploads, SelectFails(u) \/ CommitFails(u) \/ Stop(u)
      PROVE  NewSite'
  BY <1>1, <1>3 DEF SelectFails, CommitFails, Stop, Types, NewSite
<1>4. CASE UNCHANGED vars
  BY <1>1, <1>4 DEF vars, NewSite
<1>. QED  BY <1>2, <1>3, <1>4, CommitKeepsNewSite DEF Next

\* A site without a site log gets one row for each accepted upload that found none,
\* and keeps that many (CorsSiteLogService.upload).
THEOREM FirstUploadsStay == Spec => []LogsAreFirstUploads
<1>1. Init => known \/ NewSite
  <2>. SUFFICES ASSUME Init, ~known PROVE NewSite
    OBVIOUS
  <2>1. siteLogs = {} /\ FirstUploads = {} /\ \A u \in Uploads : found[u] = {}
    BY DEF Init, FirstUploads
  <2>. QED  BY <2>1, FS_EmptySet DEF NewSite, IsOneAtMost
<1>2. known /\ [Next]_vars => known'
  BY DEF Next, vars, Select, SelectFails, Commit, CommitFails, Stop
<1>3. known \/ NewSite => LogsAreFirstUploads
  BY DEF NewSite, FirstUploads, LogsAreFirstUploads
<1>. QED  BY <1>1, <1>2, <1>3, InitTypes, StepTypes, StepNewSite, PTL DEF Spec

==============================================================================
