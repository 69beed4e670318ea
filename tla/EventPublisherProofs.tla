------------------------- MODULE EventPublisherProofs -------------------------
(***************************************************************************)
(* Proofs about EventPublisher, for any subscribers, types and bounds.     *)
(***************************************************************************)
EXTENDS EventPublisher, FiniteSetTheorems, TLAPS

\* A row, or the copy of it, that the loop has published and no more.
JustPublished ==
    [published |-> TRUE, handled |-> FALSE, error |-> FALSE, retries |-> 0]

\* The same after handled().
PublishedAndHandled ==
    [published |-> TRUE, handled |-> TRUE, error |-> FALSE, retries |-> 0]

\* What is not published yet has never been touched.
UnpublishedIsFresh ==
    \A r \in Rows :
        ~db[r].published => /\ db[r] = Fresh
                            /\ attempts[r] = 0
                            /\ r \notin done

\* Only stored rows are published, and they belong to events already raised.
PublishedIsStored ==
    /\ \A r \in Rows : db[r].published => r \in stored
    /\ \A r \in stored : r[1] <= raised

\* The rest of the batch is still as it was fetched, in the database as in memory.
BatchIsFresh ==
    /\ batch # {} => pc \in {"fetched"} \union Working
    /\ \A r \in batch : r \in stored /\ ~db[r].published /\ mem[r] = Fresh

\* The row the loop works on, step by step.
CurrentRow ==
    /\ pc \in Working <=> cur # NoRow
    /\ pc = "published" =>
          /\ db[cur] = JustPublished /\ mem[cur] = JustPublished
          /\ attempts[cur] = 0 /\ cur \notin done
    /\ pc = "handling" =>
          /\ db[cur] = JustPublished /\ mem[cur] = JustPublished
          /\ attempts[cur] = 1 /\ cur \notin done
    /\ pc = "marked" =>
          /\ db[cur] = JustPublished /\ mem[cur] = PublishedAndHandled
          /\ attempts[cur] = 1 /\ cur \notin done
    /\ pc = "returned" =>
          \/ /\ cur \in done /\ attempts[cur] = 1
             /\ db[cur] = PublishedAndHandled /\ mem[cur] = PublishedAndHandled
          \/ /\ cur \notin done /\ attempts[cur] = 1
             /\ db[cur] = JustPublished
             /\ mem[cur].published /\ mem[cur].error
          \/ /\ cur \notin done /\ attempts[cur] = 0
             /\ db[cur] = JustPublished /\ mem[cur] = JustPublished

\* Every published row: what its columns say agrees with what happened to it.
PublishedRows ==
    \A r \in Rows : db[r].published =>
        /\ attempts[r] \in 0..1
        /\ r \in done => db[r] = PublishedAndHandled /\ attempts[r] = 1
        /\ r \notin done => (db[r].handled => db[r].error)
        /\ db[r].error => attempts[r] = 1

IInv ==
    /\ TypeOK
    /\ UnpublishedIsFresh
    /\ PublishedIsStored
    /\ BatchIsFresh
    /\ CurrentRow
    /\ PublishedRows

------------------------------------------------------------------------------
\* Two rows with the same columns are the same.
LEMMA SameColumns ==
    ASSUME NEW d \in Columns, NEW e \in Columns,
           d.published = e.published, d.handled = e.handled,
           d.error = e.error, d.retries = e.retries
    PROVE  d = e
BY DEF Columns

\* published() on a fresh row, and handled() on a row that is just published.
LEMMA ColumnUpdates ==
    /\ {Fresh, JustPublished, PublishedAndHandled} \subseteq Columns
    /\ Published(Fresh) = JustPublished
    /\ [JustPublished EXCEPT !.handled = TRUE] = PublishedAndHandled
<1>1. {Fresh, JustPublished, PublishedAndHandled} \subseteq Columns
  BY DEF Fresh, JustPublished, PublishedAndHandled, Columns
<1>2. /\ Published(Fresh) \in Columns
      /\ Published(Fresh).published = TRUE /\ Published(Fresh).handled = FALSE
      /\ Published(Fresh).error = FALSE /\ Published(Fresh).retries = 0
  BY DEF Published, Fresh, Columns
<1>3. Published(Fresh) = JustPublished
  BY <1>1, <1>2, SameColumns DEF JustPublished
<1>. DEFINE e == [JustPublished EXCEPT !.handled = TRUE]
<1>4. /\ e \in Columns /\ e.published = TRUE /\ e.handled = TRUE
      /\ e.error = FALSE /\ e.retries = 0
  BY DEF JustPublished, Columns
<1>5. e = PublishedAndHandled
  <2>. HIDE DEF e
  <2>. QED  BY <1>1, <1>4, SameColumns DEF PublishedAndHandled
<1>. QED  BY <1>1, <1>3, <1>5

\* The rows publish() adds are new: their event number has never been used.
LEMMA PublishedNew ==
    ASSUME TypeOK, PublishedIsStored, NEW t, CommitPublish(t)
    PROVE  \E New \in SUBSET (Rows \ stored) :
              /\ stored' = stored \union New
              /\ raised' \in 0..MaxEvents /\ raised <= raised'
              /\ \A r \in New : r[1] <= raised'
<1>1. raised \in Nat /\ raised + 1 \in EventIds
  BY ConstantsAssumption DEF TypeOK, EventIds, CommitPublish
<1>2. \A r \in RowsFor(raised + 1, t) : r \in Rows /\ r[1] = raised + 1
  BY <1>1 DEF TypeOK, RowsFor, Rows
<1>3. \A r \in stored : r[1] # raised + 1
  BY <1>1 DEF TypeOK, PublishedIsStored, Rows, EventIds
<1>4. RowsFor(raised + 1, t) \in SUBSET (Rows \ stored)
  BY <1>2, <1>3
<1>. QED  BY <1>1, <1>2, <1>4 DEF CommitPublish, EventIds

\* The initial state satisfies the inductive invariant.
LEMMA InitInvariant == Init => IInv
<1>. SUFFICES ASSUME Init PROVE IInv
  OBVIOUS
<1>1. TypeOK
  <2>1. Fresh \in Columns
    BY DEF Fresh, Columns
  <2>2. /\ db \in [Rows -> Columns] /\ mem \in [Rows -> Columns]
        /\ attempts \in [Rows -> Nat]
    BY <2>1 DEF Init
  <2>3. /\ raised \in 0..MaxEvents /\ requests \in 0..MaxRequests
        /\ crashes \in 0..MaxCrashes /\ faults \in 0..MaxFaults
    BY ConstantsAssumption DEF Init
  <2>. QED  BY <2>2, <2>3 DEF Init, TypeOK, LoopStates
<1>2. UnpublishedIsFresh /\ PublishedRows
  BY DEF Init, UnpublishedIsFresh, PublishedRows, Fresh
<1>3. PublishedIsStored /\ BatchIsFresh /\ CurrentRow
  BY DEF Init, PublishedIsStored, BatchIsFresh, CurrentRow, Fresh, Working, Iterating
<1>. QED  BY <1>1, <1>2, <1>3 DEF IInv

\* The row the loop works on is a stored row, and published.
LEMMA CurrentIsStored ==
    ASSUME IInv, pc \in Working
    PROVE  cur \in Rows /\ cur \in stored /\ cur # NoRow /\ db[cur].published
<1>1. cur \in Rows /\ cur # NoRow
  BY DEF IInv, TypeOK, CurrentRow
<1>2. db[cur].published
  BY DEF IInv, CurrentRow, Working, Iterating, JustPublished, PublishedAndHandled
<1>. QED  BY <1>1, <1>2 DEF IInv, PublishedIsStored

------------------------------------------------------------------------------
\* One lemma for each kind of step: the inductive invariant is preserved.

LEMMA FetchInvariant == ASSUME IInv, Fetch PROVE IInv'
<1>. USE DEF IInv, Fetch, dbVars, history, bounds, processVars
<1>1. \A r \in PendingEvents : r \in Rows /\ r \in stored /\ ~db[r].published /\ db[r] = Fresh
  BY DEF PendingEvents, TypeOK, UnpublishedIsFresh
<1>2. TypeOK'
  BY <1>1 DEF TypeOK, LoopStates
<1>3. BatchIsFresh'
  BY <1>1 DEF BatchIsFresh, TypeOK
<1>4. CurrentRow'
  BY DEF CurrentRow, Working, Iterating
<1>. QED
  BY <1>2, <1>3, <1>4 DEF UnpublishedIsFresh, PublishedIsStored, PublishedRows

LEMMA PublishInvariant == ASSUME IInv, NEW r \in Rows, Publish(r) PROVE IInv'
<1>. USE DEF IInv, dbVars, history, bounds, processVars
<1>1. /\ mem[r] = Fresh /\ db[r] = Fresh /\ attempts[r] = 0 /\ r \notin done
      /\ r \in stored /\ r # NoRow
  BY ConstantsAssumption DEF Publish, BatchIsFresh, UnpublishedIsFresh
<1>2. Published(Fresh) = JustPublished /\ JustPublished \in Columns
  BY ColumnUpdates
<1>3. mem' = [mem EXCEPT ![r] = JustPublished] /\ db' = [db EXCEPT ![r] = JustPublished]
  BY <1>1, <1>2 DEF Publish, TypeOK
<1>4. TypeOK'
  BY <1>2, <1>3 DEF Publish, TypeOK, LoopStates, Working
<1>5. /\ db'[r] = JustPublished /\ mem'[r] = JustPublished
      /\ \A x \in Rows : x # r => db'[x] = db[x] /\ mem'[x] = mem[x]
  BY <1>3 DEF TypeOK
<1>6. /\ JustPublished.published /\ ~JustPublished.handled /\ ~JustPublished.error
  BY DEF JustPublished
<1>7. /\ stored' = stored /\ done' = done /\ raised' = raised /\ attempts' = attempts
      /\ batch' = batch \ {r} /\ cur' = r /\ pc' = "published"
  BY DEF Publish
<1>8. UnpublishedIsFresh' /\ PublishedIsStored'
  BY <1>1, <1>5, <1>6, <1>7 DEF UnpublishedIsFresh, PublishedIsStored
<1>9. BatchIsFresh'
  BY <1>5, <1>7 DEF BatchIsFresh, TypeOK, Working
<1>10. CurrentRow'
  BY <1>1, <1>5, <1>7 DEF CurrentRow, Working, Iterating
<1>11. PublishedRows'
  BY <1>1, <1>5, <1>6, <1>7 DEF PublishedRows
<1>. QED  BY <1>4, <1>8, <1>9, <1>10, <1>11

LEMMA CallInvariant == ASSUME IInv, Call PROVE IInv'
<1>. USE DEF IInv, dbVars, history, bounds, processVars
<1>1. /\ cur \in Rows /\ cur \in stored /\ cur # NoRow /\ db[cur].published
      /\ db[cur] = JustPublished /\ attempts[cur] = 0 /\ cur \notin done
  BY CurrentIsStored DEF Call, CurrentRow, Working
<1>2. TypeOK'
  BY <1>1 DEF Call, TypeOK, LoopStates, Working, Iterating
<1>3. attempts'[cur] = 1 /\ \A x \in Rows : x # cur => attempts'[x] = attempts[x]
  BY <1>1 DEF Call, TypeOK
<1>4. UnpublishedIsFresh' /\ PublishedRows'
  BY <1>1, <1>3 DEF Call, UnpublishedIsFresh, PublishedRows, JustPublished
<1>5. PublishedIsStored' /\ BatchIsFresh'
  BY DEF Call, PublishedIsStored, BatchIsFresh, Working, Iterating
<1>6. CurrentRow'
  BY <1>1, <1>3 DEF Call, CurrentRow, Working, Iterating
<1>. QED  BY <1>2, <1>4, <1>5, <1>6

LEMMA SkipInvariant == ASSUME IInv, Skip PROVE IInv'
<1>. USE DEF IInv, Skip, dbVars, history, bounds, processVars
<1>1. cur \in Rows
  BY CurrentIsStored DEF Working
<1>2. TypeOK'
  BY <1>1 DEF TypeOK, LoopStates, Working, Iterating
<1>3. BatchIsFresh' /\ CurrentRow'
  BY DEF BatchIsFresh, CurrentRow, Working, Iterating
<1>. QED
  BY <1>2, <1>3 DEF UnpublishedIsFresh, PublishedIsStored, PublishedRows

LEMMA MarkHandledInvariant == ASSUME IInv, MarkHandled PROVE IInv'
<1>. USE DEF IInv, dbVars, history, bounds, processVars
<1>1. /\ cur \in Rows /\ cur \in stored /\ cur # NoRow /\ db[cur].published
      /\ db[cur] = JustPublished /\ mem[cur] = JustPublished
      /\ attempts[cur] = 1 /\ cur \notin done
  BY CurrentIsStored DEF MarkHandled, CurrentRow, Working, Iterating
<1>2. [JustPublished EXCEPT !.handled = TRUE] = PublishedAndHandled
  BY ColumnUpdates
<1>3. mem' = [mem EXCEPT ![cur] = PublishedAndHandled]
  BY <1>1, <1>2 DEF MarkHandled, TypeOK
<1>4. PublishedAndHandled \in Columns
  BY DEF PublishedAndHandled, Columns
<1>5. TypeOK'
  BY <1>1, <1>3, <1>4 DEF MarkHandled, TypeOK, LoopStates, Working, Iterating
<1>6. mem'[cur] = PublishedAndHandled /\ \A x \in Rows : x # cur => mem'[x] = mem[x]
  BY <1>1, <1>3 DEF TypeOK
<1>7. UnpublishedIsFresh' /\ PublishedIsStored' /\ PublishedRows'
  BY DEF MarkHandled, UnpublishedIsFresh, PublishedIsStored, PublishedRows
<1>8. BatchIsFresh'
  BY <1>1, <1>6 DEF MarkHandled, BatchIsFresh, Working, Iterating, TypeOK
<1>9. CurrentRow'
  BY <1>1, <1>6 DEF MarkHandled, CurrentRow, Working, Iterating
<1>. QED  BY <1>5, <1>7, <1>8, <1>9

LEMMA HandlerCommitInvariant == ASSUME IInv, HandlerCommit PROVE IInv'
<1>. USE DEF IInv, dbVars, history, bounds, processVars
<1>1. /\ cur \in Rows /\ cur \in stored /\ cur # NoRow /\ db[cur].published
      /\ mem[cur] = PublishedAndHandled /\ attempts[cur] = 1
  BY CurrentIsStored DEF HandlerCommit, CurrentRow, Working, Iterating
<1>2. /\ db' = [db EXCEPT ![cur] = PublishedAndHandled] /\ done' = done \union {cur}
      /\ pc' = "returned" /\ batch' = batch /\ cur' = cur /\ mem' = mem
      /\ attempts' = attempts
  BY <1>1 DEF HandlerCommit
<1>3. PICK New \in SUBSET (Rows \ stored) :
          /\ stored' = stored \union New
          /\ raised' \in 0..MaxEvents /\ raised <= raised'
          /\ \A r \in New : r[1] <= raised'
  <2>1. CASE Raises[cur[2]] = NoType
    <3>1. stored' = stored \union {} /\ raised' = raised
      BY <2>1 DEF HandlerCommit
    <3>2. raised \in 0..MaxEvents /\ raised <= raised
      BY ConstantsAssumption DEF TypeOK
    <3>. WITNESS {} \in SUBSET (Rows \ stored)
    <3>. QED  BY <3>1, <3>2
  <2>2. CASE Raises[cur[2]] # NoType
    <3>1. CommitPublish(Raises[cur[2]])
      BY <2>2 DEF HandlerCommit
    <3>. QED  BY <3>1, PublishedNew
  <2>. QED  BY <2>1, <2>2
<1>4. TypeOK'
  <2>1. PublishedAndHandled \in Columns
    BY DEF PublishedAndHandled, Columns
  <2>. QED
    BY <1>1, <1>2, <1>3, <2>1 DEF HandlerCommit, TypeOK, LoopStates, Working, Iterating
<1>5. db'[cur] = PublishedAndHandled /\ \A x \in Rows : x # cur => db'[x] = db[x]
  BY <1>1, <1>2 DEF TypeOK
<1>6. /\ PublishedAndHandled.published /\ PublishedAndHandled.handled
      /\ ~PublishedAndHandled.error
  BY DEF PublishedAndHandled
<1>7. UnpublishedIsFresh' /\ PublishedRows'
  BY <1>1, <1>2, <1>5, <1>6 DEF UnpublishedIsFresh, PublishedRows
<1>8. PublishedIsStored'
  <2>1. \A r \in Rows : db'[r].published => r \in stored'
    BY <1>1, <1>3, <1>5 DEF PublishedIsStored
  <2>2. \A r \in stored' : r[1] <= raised'
    <3>1. \A r \in stored : r[1] \in Nat /\ r[1] <= raised
      BY DEF PublishedIsStored, TypeOK, Rows, EventIds
    <3>. QED  BY <1>3, <3>1 DEF TypeOK
  <2>. QED  BY <2>1, <2>2 DEF PublishedIsStored
<1>9. BatchIsFresh'
  BY <1>1, <1>2, <1>3, <1>5 DEF BatchIsFresh, TypeOK, Working, Iterating
<1>10. CurrentRow'
  BY <1>1, <1>2, <1>5 DEF CurrentRow, Working, Iterating
<1>. QED  BY <1>4, <1>7, <1>8, <1>9, <1>10

LEMMA HandlerFailInvariant == ASSUME IInv, HandlerFail PROVE IInv'
<1>. USE DEF IInv, dbVars, history, bounds, processVars
<1>1. /\ cur \in Rows /\ cur # NoRow /\ db[cur].published
      /\ db[cur] = JustPublished /\ attempts[cur] = 1 /\ cur \notin done
      /\ mem[cur] \in Columns /\ mem[cur].published
  BY CurrentIsStored
  DEF HandlerFail, CurrentRow, TypeOK, Working, Iterating, JustPublished, PublishedAndHandled
<1>2. [mem[cur] EXCEPT !.error = TRUE] \in Columns
  BY <1>1 DEF Columns
<1>3. TypeOK'
  BY <1>1, <1>2 DEF HandlerFail, TypeOK, LoopStates, Working, Iterating
<1>4. /\ mem'[cur].published /\ mem'[cur].error
      /\ \A x \in Rows : x # cur => mem'[x] = mem[x]
  BY <1>1 DEF HandlerFail, TypeOK, Columns
<1>5. UnpublishedIsFresh' /\ PublishedIsStored' /\ PublishedRows'
  BY DEF HandlerFail, UnpublishedIsFresh, PublishedIsStored, PublishedRows
<1>6. BatchIsFresh'
  BY <1>1, <1>4 DEF HandlerFail, BatchIsFresh, Working, Iterating, TypeOK
<1>7. CurrentRow'
  BY <1>1, <1>4 DEF HandlerFail, CurrentRow, Working, Iterating
<1>. QED  BY <1>3, <1>5, <1>6, <1>7

LEMMA SaveInvariant == ASSUME IInv, Save PROVE IInv'
<1>. USE DEF IInv, dbVars, history, bounds, processVars
<1>1. cur \in Rows /\ cur \in stored /\ cur # NoRow /\ db[cur].published
  BY CurrentIsStored DEF Save, Working, Iterating
<1>2. /\ mem[cur] \in Columns /\ mem[cur].published /\ attempts[cur] \in 0..1
      /\ cur \in done => mem[cur] = PublishedAndHandled /\ attempts[cur] = 1
      /\ cur \notin done => (mem[cur].handled => mem[cur].error)
      /\ mem[cur].error => attempts[cur] = 1
  BY <1>1 DEF Save, CurrentRow, TypeOK, JustPublished, PublishedAndHandled
<1>3. Fresh \in Columns
  BY DEF Fresh, Columns
<1>4. TypeOK'
  BY <1>1, <1>2, <1>3 DEF Save, TypeOK, LoopStates
<1>5. /\ db'[cur] = mem[cur]
      /\ \A x \in Rows : x # cur => db'[x] = db[x] /\ mem'[x] = mem[x]
  BY <1>1 DEF Save, TypeOK
<1>6. /\ stored' = stored /\ done' = done /\ raised' = raised /\ attempts' = attempts
      /\ batch' = batch /\ cur' = NoRow
      /\ pc' \in {"sleeping", "fetched"} /\ (batch # {} => pc' = "fetched")
  BY DEF Save
<1>7. UnpublishedIsFresh' /\ PublishedIsStored'
  BY <1>1, <1>2, <1>5, <1>6 DEF UnpublishedIsFresh, PublishedIsStored
<1>8. BatchIsFresh'
  BY <1>1, <1>5, <1>6 DEF BatchIsFresh, TypeOK
<1>9. CurrentRow'
  BY <1>6 DEF CurrentRow, Working, Iterating
<1>10. PublishedRows'
  BY <1>2, <1>5, <1>6 DEF PublishedRows
<1>. QED  BY <1>4, <1>7, <1>8, <1>9, <1>10

\* Whatever ends the loop leaves the database as it is.
LEMMA LoopEndsInvariant ==
    ASSUME IInv, NEW state \in {"down", "dead"}, LoopEnds(state),
           UNCHANGED <<dbVars, history, requests>>,
           registered' \in SUBSET Subscribers,
           crashes' \in 0..MaxCrashes, faults' \in 0..MaxFaults
    PROVE  IInv'
<1>. USE DEF IInv, LoopEnds, dbVars, history
<1>1. Fresh \in Columns
  BY DEF Fresh, Columns
<1>2. TypeOK'
  BY <1>1 DEF TypeOK, LoopStates
<1>3. BatchIsFresh' /\ CurrentRow'
  BY DEF BatchIsFresh, CurrentRow, Working, Iterating
<1>. QED
  BY <1>2, <1>3 DEF UnpublishedIsFresh, PublishedIsStored, PublishedRows

LEMMA RequestInvariant == ASSUME IInv, NEW t \in RequestTypes, Request(t) PROVE IInv'
<1>. USE DEF IInv, loopVars, history, bounds, processVars
<1>1. PICK New \in SUBSET (Rows \ stored) :
          /\ stored' = stored \union New
          /\ raised' \in 0..MaxEvents /\ raised <= raised'
          /\ \A r \in New : r[1] <= raised'
  BY PublishedNew DEF Request
<1>2. requests' \in 0..MaxRequests
  BY ConstantsAssumption DEF Request, TypeOK
<1>3. TypeOK'
  BY <1>1, <1>2 DEF Request, TypeOK
<1>4. \A r \in stored' : r[1] <= raised'
  <2>1. \A r \in stored : r[1] \in Nat /\ r[1] <= raised
    BY DEF PublishedIsStored, TypeOK, Rows, EventIds
  <2>. QED  BY <1>1, <2>1 DEF TypeOK
<1>5. PublishedIsStored' /\ BatchIsFresh'
  BY <1>1, <1>4 DEF Request, PublishedIsStored, BatchIsFresh
<1>. QED
  BY <1>3, <1>5 DEF Request, UnpublishedIsFresh, CurrentRow, PublishedRows

\* Every step of the program preserves the inductive invariant.
LEMMA NextInvariant == IInv /\ [Next]_vars => IInv'
<1>. SUFFICES ASSUME IInv, [Next]_vars PROVE IInv'
  OBVIOUS
<1>1. CASE EventLoop
  <2>1. CASE IteratorFails
    BY <2>1, LoopEndsInvariant DEF IteratorFails, bounds, IInv, TypeOK
  <2>. QED
    BY <1>1, <2>1, FetchInvariant, PublishInvariant, CallInvariant, SkipInvariant,
       MarkHandledInvariant, HandlerCommitInvariant, HandlerFailInvariant, SaveInvariant
    DEF EventLoop
<1>2. CASE LoopFails
  <2>1. faults' \in 0..MaxFaults
    BY <1>2, ConstantsAssumption DEF LoopFails, IInv, TypeOK
  <2>. QED  BY <1>2, <2>1, LoopEndsInvariant DEF LoopFails, IInv, TypeOK
<1>3. CASE Crash
  <2>1. crashes' \in 0..MaxCrashes
    BY <1>3, ConstantsAssumption DEF Crash, IInv, TypeOK
  <2>. QED  BY <1>3, <2>1, LoopEndsInvariant DEF Crash, IInv, TypeOK
<1>4. CASE Boot
  BY <1>4 DEF Boot, dbVars, processVars, history, bounds, IInv, TypeOK, LoopStates,
     UnpublishedIsFresh, PublishedIsStored, BatchIsFresh, CurrentRow, PublishedRows,
     Working, Iterating
<1>5. ASSUME NEW s \in Subscribers, Subscribe(s) PROVE IInv'
  BY <1>5 DEF Subscribe, dbVars, loopVars, history, bounds, IInv, TypeOK,
     UnpublishedIsFresh, PublishedIsStored, BatchIsFresh, CurrentRow, PublishedRows
<1>6. CASE UNCHANGED vars
  BY <1>6 DEF vars, dbVars, loopVars, processVars, history, bounds, IInv, TypeOK,
     UnpublishedIsFresh, PublishedIsStored, BatchIsFresh, CurrentRow, PublishedRows
<1>. QED
  BY <1>1, <1>2, <1>3, <1>4, <1>5, <1>6, RequestInvariant DEF Next

\* The inductive invariant holds in every reachable state.
LEMMA Invariant == Spec => []IInv
<1>. QED  BY InitInvariant, NextInvariant, PTL DEF Spec

------------------------------------------------------------------------------
\* What the inductive invariant gives.

\* The variables of the publisher keep their types.
THEOREM TypeCorrect == Spec => []TypeOK
<1>. QED  BY Invariant, PTL DEF IInv

\* No handler is called twice for the same row, however often the loop dies or
\* the process is restarted (AsynchronousEventPublisher.EventLoop.run).
THEOREM CalledAtMostOnce == Spec => []AtMostOneCall
<1>1. IInv => AtMostOneCall
  BY DEF IInv, TypeOK, UnpublishedIsFresh, PublishedRows, AtMostOneCall
<1>. QED  BY <1>1, Invariant, PTL

\* The work of a handler commits together with the mark on its row, and no later
\* save of the loop's copy takes the mark away.
THEOREM CommittedWorkStaysHandled == Spec => []CommittedWorkIsHandled
<1>1. IInv => CommittedWorkIsHandled
  BY DEF IInv, TypeOK, UnpublishedIsFresh, PublishedRows, CommittedWorkIsHandled,
     PublishedAndHandled
<1>. QED  BY <1>1, Invariant, PTL

\* A row marked handled whose handler was rolled back has its error recorded.
THEOREM RolledBackIsRecorded == Spec => []HandledWithoutWorkHasError
<1>1. IInv => HandledWithoutWorkHasError
  BY DEF IInv, TypeOK, UnpublishedIsFresh, PublishedRows, HandledWithoutWorkHasError, Fresh
<1>. QED  BY <1>1, Invariant, PTL

\* The saves of detached copies never lose what another transaction has written.
THEOREM SavesLoseNothing == Spec => ColumnsNeverRevert
<1>. DEFINE Kept == \A r \in Rows :
          /\ db[r].published => db'[r].published
          /\ db[r].handled => db'[r].handled
          /\ db[r].error => db'[r].error
<1>1. ASSUME IInv, [Next]_vars PROVE Kept
  <2>. USE <1>1 DEF IInv
  <2>1. CASE db' = db
    BY <2>1
  <2>2. ASSUME NEW r \in Rows, Publish(r) PROVE Kept
    <3>1. db[r] = Fresh /\ \A x \in Rows : x # r => db'[x] = db[x]
      BY <2>2 DEF Publish, BatchIsFresh, UnpublishedIsFresh, TypeOK
    <3>. QED  BY <3>1 DEF Fresh
  <2>3. CASE HandlerCommit
    <3>1. /\ cur \in Rows /\ db[cur] = JustPublished /\ db'[cur] = PublishedAndHandled
          /\ \A x \in Rows : x # cur => db'[x] = db[x]
      BY <2>3, CurrentIsStored DEF HandlerCommit, CurrentRow, TypeOK, Working, Iterating
    <3>. QED  BY <3>1 DEF JustPublished, PublishedAndHandled
  <2>4. CASE Save
    <3>1. /\ cur \in Rows /\ db'[cur] = mem[cur]
          /\ \A x \in Rows : x # cur => db'[x] = db[x]
      BY <2>4, CurrentIsStored DEF Save, TypeOK, Working, Iterating
    <3>2. \/ db[cur] = mem[cur]
          \/ db[cur] = JustPublished /\ mem[cur].published
      BY <2>4 DEF Save, CurrentRow
    <3>. QED  BY <3>1, <3>2 DEF JustPublished
  <2>. QED
    BY <2>1, <2>2, <2>3, <2>4 DEF Next, EventLoop, vars, dbVars, Fetch, Call, Skip,
       MarkHandled, HandlerFail, IteratorFails, LoopFails, Boot, Crash, Subscribe, Request
<1>2. Kept => [Kept]_vars
  OBVIOUS
<1>. QED  BY <1>1, Invariant, PTL DEF Spec, ColumnsNeverRevert

------------------------------------------------------------------------------
\* The publisher implements EventDelivery.

\* A step leads to a status for every row.
LEMMA StatusType == DeliveryStatus' \in [Rows -> Delivery!Status]
BY DEF DeliveryStatus, Delivery!Status

\* A step that touches no row and calls no handler changes no delivery.
LEMMA StatusUnchanged ==
    ASSUME UNCHANGED <<stored, db, done, attempts>>
    PROVE  UNCHANGED Delivery!deliveryVars
BY DEF DeliveryStatus, Delivery!deliveryVars

\* The events a transaction publishes: new rows are announced, the others of S,
\* whose columns it leaves alone, stay where they are.
LEMMA NewRowsAreAnnounced ==
    ASSUME IInv, NEW t, CommitPublish(t), NEW S \in SUBSET Rows,
           \A r \in S : db'[r] = db[r] /\ (r \in done' <=> r \in done)
    PROVE  Delivery!Announced(S)
<1>1. PICK New \in SUBSET (Rows \ stored) : stored' = stored \union New
  BY PublishedNew DEF IInv
<1>2. ASSUME NEW r \in S
      PROVE  \/ DeliveryStatus'[r] = DeliveryStatus[r]
             \/ DeliveryStatus[r] = "absent" /\ DeliveryStatus'[r] = "pending"
  <2>1. CASE r \in New
    <3>1. r \notin stored /\ r \in stored' /\ r \notin done' /\ db'[r] = Fresh
      BY <1>1, <2>1 DEF IInv, PublishedIsStored, UnpublishedIsFresh
    <3>. QED  BY <3>1 DEF DeliveryStatus, Fresh
  <2>2. CASE r \notin New
    BY <1>1, <2>2 DEF DeliveryStatus
  <2>. QED  BY <2>1, <2>2
<1>. QED  BY <1>2 DEF Delivery!Announced, Delivery!Goes

LEMMA StepImplementsDelivery ==
    ASSUME IInv, [Next]_vars PROVE [Delivery!Next]_(Delivery!deliveryVars)
<1>. USE StatusType DEF IInv, dbVars, loopVars, processVars, history, bounds
<1>1. ASSUME NEW t \in RequestTypes, Request(t) PROVE Delivery!Next
  BY <1>1, NewRowsAreAnnounced DEF Request, Delivery!Next, Delivery!Announce
<1>2. ASSUME NEW r \in Rows, Publish(r) PROVE Delivery!Next
  <2>1. /\ db[r] = Fresh /\ r \in stored /\ r \notin done
        /\ db' = [db EXCEPT ![r] = JustPublished]
    BY <1>2, ColumnUpdates DEF Publish, BatchIsFresh, UnpublishedIsFresh, TypeOK
  <2>2. DeliveryStatus[r] = "pending"
    BY <2>1 DEF DeliveryStatus, Fresh
  <2>3. DeliveryStatus'[r] = "claimed"
    BY <1>2, <2>1 DEF Publish, DeliveryStatus, JustPublished, TypeOK
  <2>4. \A x \in Rows \ {r} : DeliveryStatus'[x] = DeliveryStatus[x]
    BY <1>2, <2>1 DEF Publish, DeliveryStatus, TypeOK
  <2>5. Delivery!Claim(r)
    BY <1>2, <2>2, <2>3, <2>4 DEF Publish, Delivery!Claim, Delivery!Goes
  <2>. QED  BY <2>5 DEF Delivery!Next
<1>3. CASE Call
  <2>1. /\ cur \in Rows /\ cur \in stored /\ cur \notin done
        /\ db[cur] = JustPublished /\ attempts[cur] = 0
    BY <1>3, CurrentIsStored DEF Call, CurrentRow, Working
  <2>2. DeliveryStatus[cur] = "claimed"
    BY <2>1 DEF DeliveryStatus, JustPublished
  <2>3. DeliveryStatus' = DeliveryStatus
    BY <1>3 DEF Call, DeliveryStatus
  <2>4. Delivery!Call(cur)
    BY <1>3, <2>1, <2>2, <2>3 DEF Call, Delivery!Call, TypeOK
  <2>. QED  BY <2>1, <2>4 DEF Delivery!Next
<1>4. CASE HandlerCommit
  <2>1. /\ cur \in Rows /\ cur \in stored /\ cur \notin done
        /\ db[cur] = JustPublished /\ attempts[cur] = 1
    BY <1>4, CurrentIsStored DEF HandlerCommit, CurrentRow, Working, Iterating
  <2>2. /\ DeliveryStatus[cur] = "claimed" /\ DeliveryStatus'[cur] = "done"
    <3>1. cur \in stored' /\ cur \in done'
      BY <1>4, <2>1 DEF HandlerCommit, CommitPublish
    <3>. QED  BY <2>1, <3>1 DEF DeliveryStatus, JustPublished
  <2>3. \A x \in Rows \ {cur} : db'[x] = db[x] /\ (x \in done' <=> x \in done)
    BY <1>4 DEF HandlerCommit, TypeOK
  <2>4. Delivery!Announced(Rows \ {cur})
    <3>1. CASE stored' = stored
      BY <2>3, <3>1 DEF DeliveryStatus, Delivery!Announced
    <3>2. CASE CommitPublish(Raises[cur[2]])
      BY <2>3, <3>2, NewRowsAreAnnounced
    <3>. QED  BY <1>4, <3>1, <3>2 DEF HandlerCommit
  <2>5. Delivery!Complete(cur)
    BY <1>4, <2>1, <2>2, <2>4 DEF HandlerCommit, Delivery!Complete, Delivery!Goes
  <2>. QED  BY <2>1, <2>5 DEF Delivery!Next
<1>5. CASE Save
  <2>1. /\ cur \in Rows /\ cur \in stored /\ db' = [db EXCEPT ![cur] = mem[cur]]
        /\ stored' = stored /\ done' = done /\ attempts' = attempts
    BY <1>5, CurrentIsStored DEF Save, Working, Iterating
  <2>2. \A x \in Rows \ {cur} : DeliveryStatus'[x] = DeliveryStatus[x]
    BY <2>1 DEF DeliveryStatus, TypeOK
  <2>3. CASE mem[cur] = db[cur]
    <3>1. db' = db
      BY <2>1, <2>3 DEF TypeOK
    <3>. QED  BY <2>1, <3>1, StatusUnchanged
  <2>4. CASE mem[cur] # db[cur]
    <3>1. /\ cur \notin done /\ attempts[cur] = 1
          /\ db[cur] = JustPublished /\ mem[cur].error
      BY <1>5, <2>4 DEF Save, CurrentRow
    <3>2. DeliveryStatus[cur] = "claimed" /\ DeliveryStatus'[cur] = "failed"
      BY <2>1, <3>1 DEF DeliveryStatus, JustPublished, TypeOK
    <3>3. Delivery!Fail(cur)
      BY <2>1, <2>2, <3>1, <3>2 DEF Delivery!Fail, Delivery!Goes
    <3>. QED  BY <2>1, <3>3 DEF Delivery!Next
  <2>. QED  BY <2>3, <2>4
<1>6. CASE UNCHANGED <<stored, db, done, attempts>>
  BY <1>6, StatusUnchanged
<1>. QED
  BY <1>1, <1>2, <1>3, <1>4, <1>5, <1>6 DEF Next, EventLoop, vars, Fetch, Skip,
     MarkHandled, HandlerFail, IteratorFails, LoopFails, Boot, Crash, Subscribe

\* Whatever happens to the loop and to the process, what the database and the
\* subscribers see is at-most-once delivery (EventDelivery).
THEOREM ImplementsDelivery == Spec => DeliversAtMostOnce
<1>1. Init => Delivery!Init
  BY DEF Init, Delivery!Init, DeliveryStatus
<1>2. IInv /\ [Next]_vars => [Delivery!Next]_(Delivery!deliveryVars)
  BY StepImplementsDelivery
<1>. QED
  BY <1>1, <1>2, Invariant, PTL DEF Spec, DeliversAtMostOnce, Delivery!Spec

------------------------------------------------------------------------------
\* The properties that count rows.

\* A set that gains one element at the most.
LEMMA OneMore ==
    ASSUME NEW S, IsFiniteSet(S), NEW x, NEW T, T \subseteq S \union {x}
    PROVE  /\ IsFiniteSet(T) /\ Cardinality(T) \in Nat /\ Cardinality(S) \in Nat
           /\ Cardinality(T) <= Cardinality(S) + 1
           /\ T \subseteq S => Cardinality(T) <= Cardinality(S)
<1>1. IsFiniteSet(S \union {x}) /\ Cardinality(S \union {x}) <= Cardinality(S) + 1
  <2>1. /\ IsFiniteSet(S \union {x})
        /\ Cardinality(S \union {x}) = IF x \in S THEN Cardinality(S) ELSE Cardinality(S) + 1
    BY FS_AddElement
  <2>2. Cardinality(S) \in Nat
    BY FS_CardinalityType
  <2>. QED  BY <2>1, <2>2
<1>2. /\ IsFiniteSet(T) /\ Cardinality(T) <= Cardinality(S \union {x})
      /\ T \subseteq S => Cardinality(T) <= Cardinality(S)
  BY <1>1, FS_Subset
<1>3. Cardinality(T) \in Nat /\ Cardinality(S) \in Nat /\ Cardinality(S \union {x}) \in Nat
  BY <1>1, <1>2, FS_CardinalityType
<1>. QED  BY <1>1, <1>2, <1>3

\* A copy that the loop is about to save for good has an outcome, or nobody was called.
ReturnedHasOutcome ==
    pc = "returned" => mem[cur].handled \/ mem[cur].error \/ cur \in unclaimed

LEMMA OutcomeStep ==
    ASSUME IInv, ReturnedHasOutcome, [Next]_vars
    PROVE  ReturnedHasOutcome'
<1>1. CASE Skip \/ Fetch \/ Call \/ MarkHandled \/ Save
  BY <1>1 DEF Skip, Fetch, Call, MarkHandled, Save, ReturnedHasOutcome
<1>2. CASE \E r \in Rows : Publish(r)
  BY <1>2 DEF Publish, ReturnedHasOutcome
<1>3. CASE HandlerCommit
  <2>1. mem[cur].handled
    BY <1>3 DEF HandlerCommit, IInv, CurrentRow, PublishedAndHandled
  <2>. QED  BY <1>3, <2>1 DEF HandlerCommit, ReturnedHasOutcome
<1>4. CASE HandlerFail
  <2>1. cur \in Rows /\ mem \in [Rows -> Columns]
    BY <1>4, CurrentIsStored DEF HandlerFail, Working, Iterating, IInv, TypeOK
  <2>2. mem'[cur].error /\ cur' = cur
    BY <1>4, <2>1 DEF HandlerFail, Columns
  <2>. QED  BY <2>2 DEF ReturnedHasOutcome
<1>5. CASE IteratorFails \/ LoopFails \/ Crash \/ Boot
  BY <1>5 DEF IteratorFails, LoopFails, Crash, Boot, LoopEnds, ReturnedHasOutcome
<1>6. CASE (\E s \in Subscribers : Subscribe(s)) \/ (\E t \in RequestTypes : Request(t))
           \/ UNCHANGED vars
  BY <1>6 DEF Subscribe, Request, vars, loopVars, history, ReturnedHasOutcome
<1>. QED  BY <1>1, <1>2, <1>3, <1>4, <1>5, <1>6 DEF Next, EventLoop

\* Only the end of the loop loses an event, and that the one it works on.
LEMMA OnlyEndsLose ==
    ASSUME IInv, ReturnedHasOutcome, [Next]_vars, ~Crash, ~LoopFails, ~IteratorFails
    PROVE  /\ Lost' \subseteq Lost
           /\ crashes' = crashes
           /\ pc = "dead" => pc' = "dead"
<1>1. \A r \in Rows : ~db[r].published => r \notin done
  BY DEF IInv, UnpublishedIsFresh
<1>2. stored \subseteq Rows /\ \A r \in Rows : db[r].published => r \in stored
  BY DEF IInv, TypeOK, PublishedIsStored
<1>3. CASE Fetch \/ Call \/ Skip \/ MarkHandled \/ HandlerFail
  BY <1>3 DEF Fetch, Call, Skip, MarkHandled, HandlerFail, dbVars, history, bounds, Lost
<1>4. ASSUME NEW r \in Rows, Publish(r)
      PROVE  /\ Lost' \subseteq Lost /\ crashes' = crashes
             /\ pc = "dead" => pc' = "dead"
  <2>1. cur = NoRow /\ NoRow \notin Rows
    BY <1>4, ConstantsAssumption DEF Publish, IInv, CurrentRow, Working, Iterating
  <2>2. \A x \in Rows : x # r => db'[x] = db[x]
    BY <1>4 DEF Publish, IInv, TypeOK
  <2>. QED  BY <1>2, <1>4, <2>1, <2>2 DEF Publish, history, bounds, Lost
<1>5. CASE HandlerCommit
  <2>1. \A x \in Rows : x # cur => db'[x] = db[x]
    BY <1>5 DEF HandlerCommit, IInv, TypeOK
  <2>2. stored' \subseteq Rows
    BY <1>5, NextInvariant DEF IInv, TypeOK
  <2>. QED  BY <1>2, <1>5, <2>1, <2>2 DEF HandlerCommit, history, bounds, Lost
<1>6. CASE Save
  <2>1. cur \in Rows
    BY <1>6, CurrentIsStored DEF Save, Working, Iterating
  <2>2. /\ \A x \in Rows : x # cur => db'[x] = db[x]
        /\ db'[cur] = mem[cur]
    BY <1>6, <2>1 DEF Save, IInv, TypeOK
  <2>3. mem[cur].handled \/ mem[cur].error \/ cur \in unclaimed
    BY <1>6 DEF Save, ReturnedHasOutcome
  <2>. QED  BY <1>2, <1>6, <2>1, <2>2, <2>3 DEF Save, history, bounds, Lost
<1>7. ASSUME NEW t \in RequestTypes, Request(t)
      PROVE  /\ Lost' \subseteq Lost /\ crashes' = crashes
             /\ pc = "dead" => pc' = "dead"
  <2>1. stored' \subseteq Rows
    BY <1>7, NextInvariant DEF IInv, TypeOK, Next
  <2>. QED  BY <1>2, <1>7, <2>1 DEF Request, loopVars, history, Lost
<1>8. CASE Boot \/ (\E s \in Subscribers : Subscribe(s)) \/ UNCHANGED vars
  BY <1>8 DEF Boot, Subscribe, vars, dbVars, loopVars, history, bounds, Lost
<1>. QED  BY <1>3, <1>4, <1>5, <1>6, <1>7, <1>8 DEF Next, EventLoop

LEMMA EndsLoseOne ==
    ASSUME NEW state, LoopEnds(state), UNCHANGED <<stored, db, unclaimed>>
    PROVE  Lost' \subseteq Lost \union {cur}
BY DEF LoopEnds, Lost

LostInv ==
    /\ ReturnedHasOutcome
    /\ IsFiniteSet(Lost)
    /\ EachLifeLosesAtMostOne

\* However often the process is stopped and its loop fails, each life of it loses one
\* event at the most (AsynchronousEventPublisher.EventLoop.run).
THEOREM LivesLoseAtMostOne == Spec => []EachLifeLosesAtMostOne
<1>1. Init => LostInv
  <2>. SUFFICES ASSUME Init PROVE LostInv
    OBVIOUS
  <2>1. Lost = {}
    BY DEF Init, Lost
  <2>. QED  BY <2>1, FS_EmptySet DEF Init, LostInv, ReturnedHasOutcome, EachLifeLosesAtMostOne
<1>2. IInv /\ LostInv /\ [Next]_vars => LostInv'
  <2>. SUFFICES ASSUME IInv, LostInv, [Next]_vars PROVE LostInv'
    OBVIOUS
  <2>1. ReturnedHasOutcome'
    BY OutcomeStep DEF LostInv
  <2>2. IsFiniteSet(Lost) /\ crashes \in Nat
        /\ Cardinality(Lost) <= crashes + (IF pc = "dead" THEN 1 ELSE 0)
    BY ConstantsAssumption DEF LostInv, EachLifeLosesAtMostOne, IInv, TypeOK
  <2>3. ASSUME Lost' \subseteq Lost, crashes' = crashes, pc = "dead" => pc' = "dead"
        PROVE  IsFiniteSet(Lost') /\ EachLifeLosesAtMostOne'
    <3>1. IsFiniteSet(Lost') /\ Cardinality(Lost') \in Nat /\ Cardinality(Lost) \in Nat
          /\ Cardinality(Lost') <= Cardinality(Lost)
      BY <2>2, <2>3, OneMore
    <3>. QED  BY <2>2, <2>3, <3>1 DEF EachLifeLosesAtMostOne
  <2>4. ASSUME Lost' \subseteq Lost \union {cur}, crashes' = crashes, pc # "dead", pc' = "dead"
        PROVE  IsFiniteSet(Lost') /\ EachLifeLosesAtMostOne'
    <3>1. IsFiniteSet(Lost') /\ Cardinality(Lost') \in Nat /\ Cardinality(Lost) \in Nat
          /\ Cardinality(Lost') <= Cardinality(Lost) + 1
      BY <2>2, <2>4, OneMore
    <3>. QED  BY <2>2, <2>4, <3>1 DEF EachLifeLosesAtMostOne
  <2>5. CASE Crash
    <3>1. /\ Lost' \subseteq Lost \union {cur}
          /\ crashes' = crashes + 1 /\ pc' = "down"
      BY <2>5, EndsLoseOne DEF Crash, LoopEnds, dbVars, history
    <3>2. pc = "dead" => Lost' \subseteq Lost
      <4>1. pc = "dead" => cur = NoRow /\ NoRow \notin Rows /\ stored \subseteq Rows
        BY ConstantsAssumption DEF IInv, TypeOK, CurrentRow, Working, Iterating
      <4>2. Lost' \subseteq Rows
        BY <2>5, NextInvariant DEF IInv, TypeOK, Lost
      <4>. QED  BY <3>1, <4>1, <4>2
    <3>3. /\ IsFiniteSet(Lost') /\ Cardinality(Lost') \in Nat /\ Cardinality(Lost) \in Nat
          /\ Cardinality(Lost') <= Cardinality(Lost) + 1
          /\ pc = "dead" => Cardinality(Lost') <= Cardinality(Lost)
      BY <2>2, <3>1, <3>2, OneMore
    <3>4. EachLifeLosesAtMostOne'
      BY <2>2, <3>1, <3>3 DEF EachLifeLosesAtMostOne
    <3>. QED  BY <2>1, <3>3, <3>4 DEF LostInv
  <2>6. CASE LoopFails
    <3>1. /\ Lost' \subseteq Lost \union {cur} /\ crashes' = crashes
          /\ pc # "dead" /\ pc' = "dead"
      BY <2>6, EndsLoseOne DEF LoopFails, LoopEnds, dbVars, history
    <3>. QED  BY <2>1, <2>4, <3>1 DEF LostInv
  <2>7. CASE IteratorFails
    <3>1. /\ Lost' \subseteq Lost \union {cur} /\ crashes' = crashes
          /\ pc # "dead" /\ pc' = "dead"
      BY <2>7, EndsLoseOne DEF IteratorFails, LoopEnds, dbVars, history, bounds
    <3>. QED  BY <2>1, <2>4, <3>1 DEF LostInv
  <2>8. CASE ~Crash /\ ~LoopFails /\ ~IteratorFails
    <3>1. Lost' \subseteq Lost /\ crashes' = crashes /\ (pc = "dead" => pc' = "dead")
      BY <2>8, OnlyEndsLose DEF LostInv
    <3>. QED  BY <2>1, <2>3, <3>1 DEF LostInv
  <2>. QED  BY <2>1, <2>5, <2>6, <2>7, <2>8 DEF LostInv
<1>3. LostInv => EachLifeLosesAtMostOne
  BY DEF LostInv
<1>. QED  BY <1>1, <1>2, <1>3, Invariant, PTL DEF Spec

\* The work that events follow from.
Causes == {r \in done : Raises[r[2]] # NoType}

\* Events and what they follow from are committed together, whatever is rolled back
\* and whenever the process stops (the handlers, AsynchronousEventPublisher.publish).
THEOREM CausesAreCommitted == Spec => []EventsHaveCommittedCauses
<1> DEFINE CausesInv == IsFiniteSet(Causes) /\ EventsHaveCommittedCauses
<1>1. Init => CausesInv
  <2>. SUFFICES ASSUME Init PROVE CausesInv
    OBVIOUS
  <2>1. Causes = {}
    BY DEF Init, Causes
  <2>. QED  BY <2>1, FS_EmptySet DEF Init, EventsHaveCommittedCauses, Causes
<1>2. IInv /\ CausesInv /\ [Next]_vars => CausesInv'
  <2>. SUFFICES ASSUME IInv, CausesInv, [Next]_vars PROVE CausesInv'
    OBVIOUS
  <2>1. /\ raised = requests + Cardinality(Causes) /\ IsFiniteSet(Causes)
        /\ Cardinality(Causes) \in Nat /\ raised \in Nat /\ requests \in Nat
    BY FS_CardinalityType, ConstantsAssumption DEF EventsHaveCommittedCauses, Causes, IInv, TypeOK
  <2>2. ASSUME IsFiniteSet(Causes'), raised' = requests' + Cardinality(Causes')
        PROVE  CausesInv'
    BY <2>2 DEF EventsHaveCommittedCauses, Causes
  <2> HIDE DEF CausesInv
  <2>3. CASE HandlerCommit
    <3>1. cur \notin done /\ done' = done \union {cur} /\ requests' = requests
      BY <2>3 DEF HandlerCommit, bounds, IInv, CurrentRow
    <3>2. CASE Raises[cur[2]] = NoType
      <4>1. Causes' = Causes /\ raised' = raised
        BY <2>3, <3>1, <3>2 DEF HandlerCommit, Causes
      <4>. QED  BY <2>1, <2>2, <3>1, <4>1
    <3>3. CASE Raises[cur[2]] # NoType
      <4>1. Causes' = Causes \union {cur} /\ cur \notin Causes /\ raised' = raised + 1
        BY <2>3, <3>1, <3>3 DEF HandlerCommit, CommitPublish, Causes
      <4>2. IsFiniteSet(Causes') /\ Cardinality(Causes') = Cardinality(Causes) + 1
        BY <2>1, <4>1, FS_AddElement
      <4>. QED  BY <2>1, <2>2, <3>1, <4>1, <4>2
    <3>. QED  BY <3>2, <3>3
  <2>4. ASSUME NEW t \in RequestTypes, Request(t)
        PROVE  CausesInv'
    <3>1. done' = done /\ requests' = requests + 1 /\ raised' = raised + 1
      BY <2>4 DEF Request, CommitPublish
    <3>2. Causes' = Causes
      BY <3>1 DEF Causes
    <3>. QED  BY <2>1, <2>2, <3>1, <3>2
  <2>5. ASSUME UNCHANGED <<done, raised, requests>>
        PROVE  CausesInv'
    <3>1. Causes' = Causes
      BY <2>5 DEF Causes
    <3>. QED  BY <2>1, <2>2, <2>5, <3>1
  <2>6. CASE Fetch \/ Call \/ Skip \/ MarkHandled \/ HandlerFail \/ Save
             \/ \E r \in Rows : Publish(r)
    BY <2>5, <2>6 DEF Fetch, Call, Skip, MarkHandled, HandlerFail, Save, Publish, dbVars, bounds
  <2>7. CASE IteratorFails \/ LoopFails \/ Crash \/ Boot
             \/ (\E s \in Subscribers : Subscribe(s)) \/ UNCHANGED vars
    BY <2>5, <2>7 DEF IteratorFails, LoopFails, Crash, Boot, Subscribe, vars, dbVars, bounds
  <2>. QED  BY <2>3, <2>4, <2>6, <2>7 DEF Next, EventLoop
<1>3. CausesInv => EventsHaveCommittedCauses
  OBVIOUS
<1>. QED  BY <1>1, <1>2, <1>3, Invariant, PTL DEF Spec

===============================================================================
