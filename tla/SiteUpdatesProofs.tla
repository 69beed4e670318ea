-------------------------- MODULE SiteUpdatesProofs --------------------------
(***************************************************************************)
(* The setups of a site under any uploads: the proofs of the safety        *)
(* properties of SiteUpdates, for every set of site logs and every bound.  *)
(*                                                                         *)
(* A commit of the handler makes the setups derived from what it has read  *)
(* the valid ones (SavedRows), so what is known of the derivation          *)
(* (SetupDerivationProofs) holds of the table.  That a handler which has   *)
(* read the site log of two uploads does no lasting harm is the part of    *)
(* the invariant called Reading: the event of the later upload is pending. *)
(***************************************************************************)
EXTENDS SiteUpdates, SetupDerivationProofs

\* Every upload is at most one event, and every event at most one commit.
Counting ==
    /\ uploads \in Nat /\ uploads <= MaxUploads
    /\ handled \in Nat /\ pending \in Nat
    /\ handled + pending + (IF pc = "reading" THEN 1 ELSE 0) <= uploads

\* The types, with the shape of the rows.
TypeInv == TypeOK /\ Counting /\ setups \subseteq Row

\* A setup is the setup of one valid row.
OneRowEach == \A q, r \in Valid(setups) : q.setup = r.setup => q = r

\* What the handler has read is the site log, as far as it has come; or the
\* site log has been replaced, and the event of that upload is pending.
Reading ==
    pc = "reading" =>
        IF replaced THEN pending > 0
        ELSE view = {i \in siteLog : i.type \in Types \ unread}

\* When nothing is left to do, the valid setups are those of the site log.
UpToDate == Settled => Current = GetSetups(siteLog)

SetupsInv == TypeInv /\ OneRowEach /\ Reading /\ UpToDate /\ ValidSetupsAreTimeline

------------------------------------------------------------------------------
\* Site logs consist of items.
LEMMA LogsAreItems == siteLog \in Logs \union {{}} => siteLog \in SUBSET LogItem
BY UpdatesAssumption

\* What is derived from items are setups, of equipment that is among the items.
LEMMA DerivedSetups ==
    ASSUME NEW log \in SUBSET LogItem
    PROVE  \A s \in GetSetups(log) :
              /\ s \in SetupRecord
              /\ s.inUse \subseteq log
<1> DEFINE changes == DatesOfChange(log)
           inUse(c) == {i \in CurrentItems(log) : c \in Spanned(i, changes)}
<1>1. TAKE s \in GetSetups(log)
<1>2. PICK c \in changes : s = [from |-> c, to |-> SetupEnd(changes, c), inUse |-> inUse(c)]
  BY DEF GetSetups
<1>3. changes \in SUBSET Dates
  BY DatesOfChangeAreDates
<1>4. SetupEnd(changes, c) \in Dates \union {NoDate}
  BY <1>3, SetupEndIsNext
<1>5. inUse(c) \subseteq log
  BY DEF CurrentItems
<1> HIDE DEF inUse
<1>. QED  BY <1>2, <1>3, <1>4, <1>5 DEF SetupRecord, DateOrNull

\* The valid rows after a commit: those the handler kept and those it inserted.
LEMMA SavedRows ==
    ASSUME setups \subseteq Row, NEW new, NEW unequal
    PROVE  /\ Valid(Saved(new, unequal)) =
                 Common(new, unequal) \union Inserted(new \ SetupsOf(Common(new, unequal)))
           /\ SetupsOf(Valid(Saved(new, unequal))) = new
<1> DEFINE common == Common(new, unequal)
           gone == Valid(setups) \ common
           added == Inserted(new \ SetupsOf(common))
<1>1. common \subseteq Valid(setups) /\ \A r \in common : r.setup \in new
  BY DEF Common
<1>2. Saved(new, unequal) = (setups \ gone) \union Invalidated(gone) \union added
  BY DEF Saved
<1>3. \A r \in Invalidated(gone) : r.invalidated
  <2>1. gone \subseteq Row
    BY DEF Valid
  <2>. QED  BY <2>1 DEF Invalidated, Row
<1>4. /\ \A r \in added : ~r.invalidated /\ r.setup \in new \ SetupsOf(common)
      /\ \A s \in new \ SetupsOf(common) : \E r \in added : r.setup = s
  <2>1. \A s : LET r == [setup |-> s, created |-> handled, invalidated |-> FALSE]
               IN  ~r.invalidated /\ r.setup = s
    OBVIOUS
  <2>. QED  BY <2>1 DEF Inserted
<1>5. Valid(setups) \subseteq setups /\ \A r \in setups : r \in Valid(setups) <=> ~r.invalidated
  BY DEF Valid
<1> HIDE DEF common, added
<1>6. Valid(Saved(new, unequal)) = common \union added
  <2>1. \A r : r \in Valid(Saved(new, unequal)) <=> r \in Saved(new, unequal) /\ ~r.invalidated
    BY DEF Valid
  <2> HIDE DEF gone
  <2>2. \A r : r \in Saved(new, unequal) <=>
                  (r \in setups /\ r \notin gone) \/ r \in Invalidated(gone) \/ r \in added
    BY <1>2
  <2>3. \A r : r \in gone <=> r \in Valid(setups) /\ r \notin common
    BY DEF gone
  <2>. QED  BY <1>1, <1>3, <1>4, <1>5, <2>1, <2>2, <2>3
<1>7. SetupsOf(common \union added) = new
  <2>1. \A rows, s : s \in SetupsOf(rows) <=> \E r \in rows : s = r.setup
    BY DEF SetupsOf
  <2>. QED  BY <1>1, <1>4, <2>1
<1>. QED  BY <1>6, <1>7 DEF common, added

\* The rows a commit leaves are rows, and no older than it.
LEMMA SavedTypes ==
    ASSUME TypeInv, handled < MaxUploads, NEW unequal, view \in SUBSET LogItem
    PROVE  LET rows == Saved(GetSetups(view), unequal)
           IN  \A r \in rows : /\ r \in Row
                               /\ r.setup.inUse \subseteq UNION Logs
                               /\ r.created < handled + 1
<1> DEFINE new == GetSetups(view)
           common == Common(new, unequal)
           gone == Valid(setups) \ common
           added == Inserted(new \ SetupsOf(common))
           Fits(r) == r \in Row /\ r.setup.inUse \subseteq UNION Logs /\ r.created < handled + 1
<1>1. \A s \in new : s \in SetupRecord /\ s.inUse \subseteq UNION Logs
  BY DerivedSetups DEF TypeInv, TypeOK
<1>2. handled \in 0 .. MaxUploads /\ handled \in Nat
  BY UpdatesAssumption DEF TypeInv, Counting
<1>3. ASSUME NEW r \in setups
      PROVE  Fits(r)
  <2>1. r \in Row /\ r.created < handled /\ r.setup.inUse \subseteq UNION Logs
    BY DEF TypeInv, TypeOK
  <2>2. r.created \in Nat
    BY <2>1, UpdatesAssumption DEF Row
  <2>. QED  BY <2>1, <2>2, <1>2
<1>4. ASSUME NEW r \in Invalidated(gone)
      PROVE  Fits(r)
  <2>1. PICK q \in setups : r = [q EXCEPT !.invalidated = TRUE]
    BY DEF Invalidated, Valid
  <2>2. Fits(q)
    BY <1>3
  <2>3. r \in Row /\ r.setup = q.setup /\ r.created = q.created
    BY <2>1, <2>2 DEF Row
  <2>. QED  BY <2>2, <2>3
<1>5. ASSUME NEW r \in added
      PROVE  Fits(r)
  <2>1. PICK s \in new : r = [setup |-> s, created |-> handled, invalidated |-> FALSE]
    BY DEF Inserted
  <2> HIDE DEF new
  <2>. QED  BY <2>1, <1>1, <1>2 DEF Row
<1>6. \A r \in Saved(new, unequal) : r \in setups \/ r \in Invalidated(gone) \/ r \in added
  BY DEF Saved
<1> HIDE DEF new, gone, added
<1>. QED  BY <1>3, <1>4, <1>5, <1>6 DEF new

\* What every handler reads are items.
LEMMA ViewsAreItems ==
    ASSUME TypeOK
    PROVE  view \in SUBSET LogItem
BY UpdatesAssumption DEF TypeOK

LEMMA InitTypes == Init => TypeInv
<1>. SUFFICES ASSUME Init PROVE TypeInv
  OBVIOUS
<1>1. Counting
  BY UpdatesAssumption DEF Init, Counting
<1>2. setups = {} /\ setups \subseteq Row
  BY DEF Init
<1>3. TypeOK
  <2>1. 0 \in 0 .. MaxUploads /\ 0 \in 0 .. MaxFaults /\ 0 \in 0 .. 0
    BY UpdatesAssumption
  <2>2. \A r \in setups : /\ r.setup.from \in Dates
                          /\ r.setup.to \in DateOrNull
                          /\ r.setup.inUse \subseteq UNION Logs
                          /\ r.created < handled
                          /\ r.invalidated \in BOOLEAN
    BY <1>2
  <2>. QED  BY <2>1, <2>2 DEF Init, TypeOK
<1>. QED  BY <1>1, <1>2, <1>3 DEF TypeInv

\* Every step keeps the types and the counts.
LEMMA StepTypes ==
    ASSUME TypeInv, [Next]_vars
    PROVE  TypeInv'
<1> USE UpdatesAssumption
<1>1. ASSUME NEW items \in Logs, Upload(items)
      PROVE  TypeInv'
  BY <1>1 DEF Upload, reading, TypeInv, TypeOK, Counting
<1>2. CASE BeginHandle
  <2>1. Counting'
    BY <1>2 DEF BeginHandle, TypeInv, TypeOK, Counting
  <2>2. pending' \in 0 .. uploads'
    BY <1>2 DEF BeginHandle, TypeInv, TypeOK, Counting
  <2>3. TypeOK'
    BY <1>2, <2>2 DEF BeginHandle, TypeInv, TypeOK
  <2>. QED  BY <1>2, <2>1, <2>3 DEF BeginHandle, TypeInv
<1>3. ASSUME NEW type \in Types, ReadItems(type)
      PROVE  TypeInv'
  <2>1. view' \subseteq UNION Logs
    BY <1>3 DEF ReadItems, TypeInv, TypeOK
  <2>. QED  BY <2>1, <1>3 DEF ReadItems, uploading, TypeInv, TypeOK, Counting
<1>4. CASE HandleCommit
  <2>1. PICK unequal : setups' = Saved(GetSetups(view), unequal)
    BY <1>4 DEF HandleCommit
  <2>2. handled + 1 <= uploads /\ handled < MaxUploads /\ Counting'
    BY <1>4 DEF HandleCommit, uploading, TypeInv, Counting
  <2>3. \A r \in setups' : r \in Row /\ r.setup.inUse \subseteq UNION Logs /\ r.created < handled'
    <3>1. \A r \in Saved(GetSetups(view), unequal) :
             r \in Row /\ r.setup.inUse \subseteq UNION Logs /\ r.created < handled + 1
      BY <2>2, SavedTypes, ViewsAreItems DEF TypeInv
    <3>. QED  BY <3>1, <2>1, <1>4 DEF HandleCommit
  <2>4. \A r \in setups' : /\ r.setup.from \in Dates
                           /\ r.setup.to \in DateOrNull
                           /\ r.invalidated \in BOOLEAN
    BY <2>3 DEF Row, SetupRecord
  <2>5. handled' \in 0 .. uploads'
    BY <2>2, <1>4 DEF HandleCommit, Counting, TypeInv, uploading
  <2>6. TypeOK'
    BY <1>4, <2>3, <2>4, <2>5 DEF HandleCommit, uploading, TypeInv, TypeOK
  <2>7. (setups \subseteq Row)'
    BY <2>3
  <2>. QED  BY <2>2, <2>6, <2>7 DEF TypeInv
<1>5. CASE HandleFail
  BY <1>5 DEF HandleFail, HandlerRollsBack, uploading, TypeInv, TypeOK, Counting
<1>6. CASE HandlerFault
  BY <1>6 DEF HandlerFault, HandlerRollsBack, uploading, TypeInv, TypeOK, Counting
<1>7. CASE UNCHANGED vars
  BY <1>7 DEF vars, uploading, reading, TypeInv, TypeOK, Counting
<1>. QED  BY <1>1, <1>2, <1>3, <1>4, <1>5, <1>6, <1>7 DEF Next, CorsSiteService

------------------------------------------------------------------------------
\* The steps that leave the setups, and thereby the valid ones, alone.
LEMMA OnlyCommitsSave ==
    ASSUME [Next]_vars, ~HandleCommit
    PROVE  UNCHANGED setups
BY DEF Next, CorsSiteService, vars, Upload, BeginHandle, ReadItems, HandleFail,
       HandlerFault, HandlerRollsBack

\* A commit makes the setups derived from what was read the valid ones, each in
\* one row.
LEMMA CommitSaves ==
    ASSUME TypeInv, OneRowEach, HandleCommit
    PROVE  /\ Current' = GetSetups(view)
           /\ OneRowEach'
<1> DEFINE new == GetSetups(view)
<1>1. PICK unequal \in SUBSET {r \in Valid(setups) : AnyOrder(r.setup)} :
         setups' = Saved(new, unequal)
  BY DEF HandleCommit
<1> DEFINE common == Common(new, unequal)
           added == Inserted(new \ SetupsOf(common))
<1> HIDE DEF new
<1>2. /\ Valid(setups') = common \union added
      /\ SetupsOf(Valid(setups')) = new
  BY <1>1, SavedRows DEF TypeInv
<1>3. \A r \in common : r \in Valid(setups) /\ r.setup \in SetupsOf(common)
  BY DEF Common, SetupsOf
<1>4. \A q \in added : /\ q.setup \in new /\ q.setup \notin SetupsOf(common)
                       /\ q = [setup |-> q.setup, created |-> handled, invalidated |-> FALSE]
  BY DEF Inserted
<1> HIDE DEF common, added
<1>5. OneRowEach'
  <2>1. \A q, r \in common \union added : q.setup = r.setup => q = r
    BY <1>3, <1>4 DEF OneRowEach
  <2>. QED  BY <2>1, <1>2 DEF OneRowEach
<1>. QED  BY <1>2, <1>5 DEF Current, new

LEMMA InitInv == Init => SetupsInv
<1>. SUFFICES ASSUME Init PROVE SetupsInv
  OBVIOUS
<1>1. TypeInv
  BY InitTypes
<1>2. Valid(setups) = {} /\ Current = {}
  BY DEF Init, Valid, SetupsOf, Current
<1>3. GetSetups(siteLog) = {}
  BY DEF Init, GetSetups, DatesOfChange, CurrentItems
<1>. QED  BY <1>1, <1>2, <1>3
          DEF Init, SetupsInv, OneRowEach, Reading, UpToDate, ValidSetupsAreTimeline, IsTimeline

\* Every step keeps the handler's view of the site log.
LEMMA StepReading ==
    ASSUME TypeInv, Reading, [Next]_vars
    PROVE  Reading'
<1>1. ASSUME NEW items \in Logs, Upload(items)
      PROVE  Reading'
  BY <1>1 DEF Upload, reading, Reading, TypeInv, Counting
<1>2. CASE BeginHandle
  BY <1>2 DEF BeginHandle, Reading
<1>3. ASSUME NEW type \in Types, ReadItems(type)
      PROVE  Reading'
  <2>1. CASE replaced
    BY <2>1, <1>3 DEF ReadItems, uploading, Reading
  <2>2. CASE ~replaced
    <3>1. view' = {i \in siteLog : i.type \in Types \ unread} \union {i \in siteLog : i.type = type}
      BY <2>2, <1>3 DEF ReadItems, Reading
    <3>2. view' = {i \in siteLog : i.type \in Types \ unread'}
      BY <3>1, <1>3 DEF ReadItems
    <3>. QED  BY <3>2, <2>2, <1>3 DEF ReadItems, uploading, Reading
  <2>. QED  BY <2>1, <2>2
<1>4. CASE HandleCommit
  BY <1>4 DEF HandleCommit, Reading
<1>5. CASE HandleFail \/ HandlerFault
  BY <1>5 DEF HandleFail, HandlerFault, HandlerRollsBack, Reading
<1>6. CASE UNCHANGED vars
  BY <1>6 DEF vars, uploading, reading, Reading
<1>. QED  BY <1>1, <1>2, <1>3, <1>4, <1>5, <1>6 DEF Next, CorsSiteService

\* A handler that commits while no event is pending has read the site log.
LEMMA LastHandlerReadsSiteLog ==
    ASSUME TypeInv, Reading, HandleCommit, pending = 0
    PROVE  view = siteLog
<1>1. view = {i \in siteLog : i.type \in Types}
  BY DEF HandleCommit, Reading
<1>2. \A i \in siteLog : i.type \in Types
  BY LogsAreItems DEF TypeInv, TypeOK, LogItem
<1>. QED  BY <1>1, <1>2

\* Every step leaves the setups those of the site log, or something to be done.
LEMMA StepUpToDate ==
    ASSUME TypeInv, OneRowEach, Reading, UpToDate, [Next]_vars
    PROVE  UpToDate'
<1>1. ASSUME NEW items \in Logs, Upload(items)
      PROVE  UpToDate'
  BY <1>1 DEF Upload, UpToDate, Settled, TypeInv, Counting
<1>2. CASE HandleCommit
  <2>1. Current' = GetSetups(view)
    BY <1>2, CommitSaves
  <2>2. pending' = pending /\ siteLog' = siteLog
    BY <1>2 DEF HandleCommit, uploading
  <2>. QED  BY <1>2, <2>1, <2>2, LastHandlerReadsSiteLog DEF UpToDate, Settled
<1>3. CASE BeginHandle \/ \E type \in Types : ReadItems(type)
  BY <1>3 DEF BeginHandle, ReadItems, UpToDate, Settled
<1>4. CASE HandleFail \/ HandlerFault
  BY <1>4 DEF HandleFail, HandlerFault, HandlerRollsBack, UpToDate, Settled
<1>5. CASE UNCHANGED vars
  BY <1>5 DEF vars, uploading, reading, UpToDate, Settled, Current, Valid, SetupsOf
<1>. QED  BY <1>1, <1>2, <1>3, <1>4, <1>5 DEF Next, CorsSiteService

LEMMA StepInv == SetupsInv /\ [Next]_vars => SetupsInv'
<1>. SUFFICES ASSUME SetupsInv, [Next]_vars PROVE SetupsInv'
  OBVIOUS
<1>1. TypeInv' /\ Reading' /\ UpToDate'
  BY StepTypes, StepReading, StepUpToDate DEF SetupsInv
<1>2. CASE HandleCommit
  <2>1. Current' = GetSetups(view) /\ OneRowEach'
    BY <1>2, CommitSaves DEF SetupsInv
  <2>2. IsTimeline(GetSetups(view))
    BY ViewsAreItems, SetupsAreTimeline DEF SetupsInv, TypeInv
  <2>. QED  BY <1>1, <2>1, <2>2 DEF SetupsInv, ValidSetupsAreTimeline
<1>3. CASE ~HandleCommit
  <2>1. Valid(setups') = Valid(setups) /\ Current' = Current
    BY <1>3, OnlyCommitsSave DEF Current
  <2>. QED  BY <1>1, <2>1 DEF SetupsInv, OneRowEach, ValidSetupsAreTimeline
<1>. QED  BY <1>2, <1>3

------------------------------------------------------------------------------
\* The invariant of the setups of a site.
THEOREM SetupsInvariant == Spec => []SetupsInv
BY InitInv, StepInv, PTL DEF Spec

\* The variables keep their types, and the counters their bounds: no more
\* events are handled than site logs were uploaded.
THEOREM TypesAreKept == Spec => []TypeOK
<1>1. SetupsInv => TypeOK
  BY DEF SetupsInv, TypeInv
<1>. QED  BY <1>1, SetupsInvariant, PTL

\* Whatever is uploaded while handlers read, the valid setups are one
\* uninterrupted sequence of periods (CorsSiteService.handle).
THEOREM ValidSetupsStayTimeline == Spec => []ValidSetupsAreTimeline
<1>1. SetupsInv => ValidSetupsAreTimeline
  BY DEF SetupsInv
<1>. QED  BY <1>1, SetupsInvariant, PTL

\* From the invariant alone, for the modules that compose this one.
LEMMA SettledFromInv == SetupsInv => SettledSetupsDescribeLog
<1>. SUFFICES ASSUME SetupsInv, Settled, WellFormed(siteLog)
              PROVE  Describes(Current, siteLog)
  BY DEF SettledSetupsDescribeLog
<1>1. Current = GetSetups(siteLog)
  BY DEF SetupsInv, UpToDate
<1>2. siteLog \in SUBSET LogItem
  BY LogsAreItems DEF SetupsInv, TypeInv, TypeOK
<1>. QED  BY <1>1, <1>2, SetupsDescribeLog

\* When every event is handled and the last handler was not rolled back, the
\* valid setups say of every date what the site log says (CorsSiteService.handle).
THEOREM SetupsEndUpRight == Spec => []SettledSetupsDescribeLog
BY SettledFromInv, SetupsInvariant, PTL

\* What a step does to the rows.
RowsStay ==
    \A r \in setups : r \in setups' \/ (~r.invalidated /\ Invalidated({r}) \subseteq setups')

LEMMA StepKeepsRows == [Next]_vars => RowsStay
<1>1. CASE HandleCommit
  <2>1. PICK unequal : setups' = Saved(GetSetups(view), unequal)
    BY <1>1 DEF HandleCommit
  <2> DEFINE gone == Valid(setups) \ Common(GetSetups(view), unequal)
  <2>2. setups \ gone \subseteq setups' /\ Invalidated(gone) \subseteq setups'
    BY <2>1 DEF Saved
  <2>3. \A r \in gone : ~r.invalidated /\ Invalidated({r}) \subseteq Invalidated(gone)
    BY DEF Valid, Invalidated
  <2> HIDE DEF gone
  <2>. QED  BY <2>2, <2>3 DEF RowsStay
<1>2. CASE ~HandleCommit
  BY <1>2, OnlyCommitsSave DEF RowsStay
<1>. QED  BY <1>1, <1>2

\* No row of the table is deleted or changed but for its flag, which is set once
\* (Setup.invalidate).
THEOREM RowsAreKept == Spec => HistoryIsKept
<1>1. [Next]_vars => [RowsStay]_vars
  BY StepKeepsRows
<1>. QED  BY <1>1, PTL DEF Spec, HistoryIsKept, RowsStay

------------------------------------------------------------------------------
\* The updates that fail.

\* Only for the site log itself does the last handler fail, unless there was a fault.
FailedForLog ==
    faults = 0 /\ pc = "idle" /\ pending = 0 /\ rolledBack => GetSetupsFails(siteLog)

LEMMA InitFailedForLog == Init => FailedForLog
BY DEF Init, FailedForLog

\* A handler that fails while no event is pending has read the site log.
LEMMA StepFailedForLog ==
    ASSUME TypeInv, Reading, FailedForLog, [Next]_vars
    PROVE  FailedForLog'
<1>1. ASSUME NEW items \in Logs, Upload(items)
      PROVE  FailedForLog'
  BY <1>1 DEF Upload, FailedForLog, TypeInv, Counting
<1>2. CASE HandleFail
  <2>. SUFFICES ASSUME pending = 0 PROVE GetSetupsFails(siteLog)
    BY <1>2 DEF HandleFail, HandlerRollsBack, uploading, FailedForLog
  <2>1. view = {i \in siteLog : i.type \in Types} /\ GetSetupsFails(view)
    BY <1>2 DEF HandleFail, Reading
  <2>2. \A i \in siteLog : i.type \in Types
    BY LogsAreItems DEF TypeInv, TypeOK, LogItem
  <2>3. view = siteLog
    BY <2>1, <2>2
  <2>. QED  BY <2>1, <2>3
<1>3. CASE HandlerFault
  BY <1>3 DEF HandlerFault, FailedForLog, TypeInv, TypeOK
<1>4. CASE HandleCommit
  BY <1>4 DEF HandleCommit, FailedForLog
<1>5. CASE BeginHandle \/ \E type \in Types : ReadItems(type)
  BY <1>5 DEF BeginHandle, ReadItems, FailedForLog
<1>6. CASE UNCHANGED vars
  BY <1>6 DEF vars, uploading, reading, FailedForLog
<1>. QED  BY <1>1, <1>2, <1>3, <1>4, <1>5, <1>6 DEF Next, CorsSiteService

LEMMA FailuresFromInv == SetupsInv /\ FailedForLog => FailuresCostOneUpdate
<1>. SUFFICES ASSUME SetupsInv, FailedForLog,
                     faults = 0, pc = "idle", pending = 0, WellFormed(siteLog)
              PROVE  Describes(Current, siteLog)
  BY DEF FailuresCostOneUpdate
<1>1. ~GetSetupsFails(siteLog)
  BY DEF WellFormed, GetSetupsFails, Unplaceable
<1>2. Settled
  <2>1. rolledBack \in BOOLEAN
    BY DEF SetupsInv, TypeInv, TypeOK
  <2>. QED  BY <1>1, <2>1 DEF FailedForLog, Settled
<1>. QED  BY <1>2, SettledFromInv DEF SettledSetupsDescribeLog

\* A site log that cannot be placed costs the update for that log and no other
\* (CorsSiteService.addEquipment).
THEOREM FailuresStayApart == Spec => []FailuresCostOneUpdate
<1>1. Init => FailedForLog
  BY InitFailedForLog
<1>2. SetupsInv /\ FailedForLog /\ [Next]_vars => FailedForLog'
  BY StepFailedForLog DEF SetupsInv
<1>. QED  BY <1>1, <1>2, FailuresFromInv, SetupsInvariant, PTL DEF Spec

------------------------------------------------------------------------------
\* The queries.

\* Of the setups in order of time there is a last one.
LEMMA CurrentFromInv == SetupsInv => CurrentSetupIsFound
<1>. SUFFICES ASSUME SetupsInv, NEW x \in Valid(setups)
              PROVE  \E r \in Valid(setups) :
                        /\ FindCurrent(setups) = {r}
                        /\ \A q \in Valid(setups) : q.setup.from <= r.setup.from
  BY DEF CurrentSetupIsFound
<1>1. \A r \in Valid(setups) : r.setup \in Current /\ r.setup.from \in Dates
                               /\ r.setup.to \in DateOrNull
  BY DEF SetupsInv, TypeInv, TypeOK, Valid, Current, SetupsOf
<1> DEFINE froms == {r.setup.from : r \in Valid(setups)}
<1>2. froms \in SUBSET Nat /\ froms \subseteq Dates /\ x.setup.from \in froms
  BY <1>1, DatesAssumption
<1>3. PICK last \in Dates : \A d \in Dates : d <= last
  BY <1>2, LastDateAssumption
<1>4. last \in Nat /\ x.setup.from <= last /\ \A d \in froms : d <= last
  BY <1>2, <1>3, DatesAssumption
<1> HIDE DEF froms
<1>5. \E m \in froms : m <= last /\ \A d \in froms : d <= last => d <= m
  BY ONLY <1>2, <1>4, LastUpTo, Zenon
<1>6. PICK r \in Valid(setups) : \A q \in Valid(setups) : q.setup.from <= r.setup.from
  BY <1>4, <1>5 DEF froms
<1>7. /\ \A s \in Current : Precedes(s.from, s.to)
      /\ \A s \in Current : s.to # NoDate => \E t \in Current : t.from = s.to
      /\ \A s, t \in Current : s # t => \/ Precedes(s.to, t.from) \/ Precedes(t.to, s.from)
                                        \/ s.to = t.from \/ t.to = s.from
  BY DEF SetupsInv, ValidSetupsAreTimeline, IsTimeline
<1>8. r.setup.to = NoDate
  <2>1. ASSUME r.setup.to # NoDate
        PROVE  FALSE
    <3>1. PICK t \in Valid(setups) : t.setup.from = r.setup.to
      BY <1>1, <1>7, <2>1 DEF Current, SetupsOf
    <3>2. r.setup.from < t.setup.from
      BY <1>1, <1>7, <2>1, <3>1 DEF Precedes
    <3>3. r.setup.from \in Nat /\ t.setup.from \in Nat /\ t.setup.from <= r.setup.from
      BY <1>1, <1>6, <3>1, DatesAssumption
    <3>. QED  BY <3>2, <3>3
  <2>. QED  BY <2>1
<1>9. ASSUME NEW q \in Valid(setups), q.setup.to = NoDate
      PROVE  q = r
  <2>1. q.setup.from # NoDate /\ r.setup.from # NoDate
    BY <1>1, DatesAssumption
  <2>2. q.setup = r.setup
    BY <1>1, <1>7, <1>8, <1>9, <2>1 DEF Precedes
  <2>. QED  BY <2>2 DEF SetupsInv, OneRowEach
<1>. QED  BY <1>6, <1>8, <1>9 DEF FindCurrent

\* Whatever was uploaded, as long as a site has a valid setup there is one without an
\* end, it is the last one, and findCurrentBySiteId() finds it and no other.
THEOREM CurrentSetupStaysUnique == Spec => []CurrentSetupIsFound
BY CurrentFromInv, SetupsInvariant, PTL

\* What the query says of each of the valid setups.
LEMMA PeriodsFromInv == SetupsInv => PeriodsAreFound
<1>. SUFFICES ASSUME SetupsInv, NEW start \in DateOrNull, NEW end \in DateOrNull,
                     Period(start, end), NEW s \in Current
              PROVE  /\ s \in FindByPeriod(Current, start, end) =>
                           s \in InPeriod(Current, start, end)
                     /\ end # NoDate /\ s \in InPeriod(Current, start, end) =>
                           s \in FindByPeriod(Current, start, end)
  BY DEF PeriodsAreFound, FindByPeriod, InPeriod
<1>1. s.from \in Dates /\ s.to \in DateOrNull
  BY DEF SetupsInv, TypeInv, TypeOK, Valid, Current, SetupsOf
<1>2. /\ s.from \in Nat /\ s.from # NoDate
      /\ s.to # NoDate => s.to \in Nat /\ s.from < s.to
      /\ start # NoDate => start \in Nat
      /\ end # NoDate => end \in Nat
  BY <1>1, DatesAssumption
     DEF SetupsInv, ValidSetupsAreTimeline, IsTimeline, Precedes, DateOrNull
<1>3. \/ start # NoDate
      \/ end # NoDate
  BY DEF Period
<1>4. start # NoDate /\ end # NoDate => start <= end
  BY DEF Period
<1>5. s \in FindByPeriod(Current, start, end) => s \in InPeriod(Current, start, end)
  BY <1>2, <1>3, <1>4 DEF FindByPeriod, InPeriod, ContainedIn, AtOrBefore
<1>6. end # NoDate /\ s \in InPeriod(Current, start, end) =>
         s \in FindByPeriod(Current, start, end)
  BY <1>2, <1>4 DEF FindByPeriod, InPeriod, ContainedIn, AtOrBefore
<1>. QED  BY <1>5, <1>6

\* findBySiteIdAndPeriod() finds only setups of the period, and all of them when the
\* period has an end.
THEOREM PeriodQueriesAreRight == Spec => []PeriodsAreFound
BY PeriodsFromInv, SetupsInvariant, PTL

==============================================================================
