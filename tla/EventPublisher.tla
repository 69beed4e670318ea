---------------------------- MODULE EventPublisher ----------------------------
(***************************************************************************)
(* AsynchronousEventPublisher: domain events as rows of DOMAIN_EVENT and   *)
(* the thread that delivers them.                                          *)
(*                                                                         *)
(* publish() stores one row per subscriber that can handle the event, in   *)
(* the caller's transaction.  One event loop thread fetches the pending    *)
(* rows, and for each of them saves it as published, calls the handler of  *)
(* its subscriber (a transaction of its own) and saves it again.  The rows *)
(* it works on are detached copies: each save overwrites the whole row.    *)
(* Subscribers register while the application context starts, after the    *)
(* loop has; the process may be stopped at any point and started again.    *)
(*                                                                         *)
(* A definition commented "Deviation" is not part of the specification: it *)
(* is a plausible mistake in the code, kept next to what the code does to  *)
(* show which property notices it.                                         *)
(***************************************************************************)
EXTENDS Naturals, FiniteSets

CONSTANTS
    Subscribers,   \* the classes that implement EventSubscriber and subscribe
    Types,         \* the classes of domain events
    RequestTypes,  \* the types of events that requests to the services raise
    Handles,       \* Handles[s]: the types subscriber s can handle
    Raises,        \* Raises[s]: the type of event the handler of s publishes, or NoType
    NoType, NoRow,
    MAX_RETRIES,   \* Event.MAX_RETRIES
    MaxEvents,     \* bound: events raised in a behaviour
    MaxRequests,   \* bound: events raised by requests
    MaxCrashes,    \* bound: stops of the process
    MaxFaults      \* bound: repository calls of the loop that throw

EventIds == 1..MaxEvents
Rows == EventIds \X Subscribers

ASSUME ConstantsAssumption ==
    /\ RequestTypes \subseteq Types
    /\ Handles \in [Subscribers -> SUBSET Types]
    /\ Raises \in [Subscribers -> Types \union {NoType}]
    /\ NoType \notin Types
    /\ NoRow \notin Rows
    /\ MAX_RETRIES \in Nat \ {0}
    /\ MaxEvents \in Nat
    /\ MaxRequests \in Nat
    /\ MaxCrashes \in Nat
    /\ MaxFaults \in Nat

VARIABLES
    \* the database
    stored,        \* the rows of DOMAIN_EVENT that are committed
    db,            \* the columns of each row, fresh until the row is stored
    done,          \* the rows whose handler's transaction has committed
    raised,        \* number of events whose publishing transaction has committed
    \* the process
    pc,            \* where the event loop is; "down" when there is no process
    batch,         \* the fetched rows the loop has not reached yet
    cur,           \* the row the loop is working on
    mem,           \* the detached copies the loop holds, fresh where it holds none
    registered,    \* the field subscribers
    changed,       \* subscribers was modified under the loop's iterator
    \* history and bounds
    attempts,      \* how often the handler of a row has been called
    unclaimed,     \* rows whose subscriber was not registered when the loop got to them
    requests, crashes, faults

dbVars == <<stored, db, done, raised>>
loopVars == <<pc, batch, cur, mem>>
processVars == <<registered, changed>>
history == <<attempts, unclaimed>>
bounds == <<requests, crashes, faults>>
vars == <<dbVars, loopVars, processVars, history, bounds>>

Columns == [published : BOOLEAN, handled : BOOLEAN, error : BOOLEAN, retries : Nat]

\* A row as publish() stores it.
Fresh == [published |-> FALSE, handled |-> FALSE, error |-> FALSE, retries |-> 0]

Iterating == {"handling", "marked", "returned"}
Working == {"published"} \union Iterating
LoopStates == {"down", "dead", "sleeping", "fetched"} \union Working

Init ==
    /\ stored = {}
    /\ db = [r \in Rows |-> Fresh]
    /\ done = {}
    /\ raised = 0
    /\ pc = "sleeping"
    /\ batch = {}
    /\ cur = NoRow
    /\ mem = [r \in Rows |-> Fresh]
    /\ registered = {}
    /\ changed = FALSE
    /\ attempts = [r \in Rows |-> 0]
    /\ unclaimed = {}
    /\ requests = 0
    /\ crashes = 0
    /\ faults = 0

------------------------------------------------------------------------------
\* Operations of an event and of the event repository.

\* Deviation: retries counts down.
PublishedCountingDown(e) == [e EXCEPT !.published = TRUE, !.retries = @ - 1]

\* Event.published()
Published(e) ==
    [e EXCEPT !.published = TRUE,
              !.retries = IF e.published THEN @ + 1 ELSE @]

\* Deviation: the query forgets timePublished, so that retries would happen.
PendingEventsWithRetries ==
    {r \in stored : ~db[r].handled /\ db[r].retries < MAX_RETRIES}

\* EventRepository.getPendingEvents()
PendingEvents ==
    {r \in stored : /\ ~db[r].handled
                    /\ db[r].retries < MAX_RETRIES
                    /\ ~db[r].published}

\* publish(): the rows that event number n of type t is stored as.
RowsFor(n, t) == {<<n, s>> : s \in {x \in registered : t \in Handles[x]}}

\* The transaction that publishes an event of type t commits.
CommitPublish(t) ==
    /\ raised < MaxEvents
    /\ raised' = raised + 1
    /\ stored' = stored \union RowsFor(raised + 1, t)

------------------------------------------------------------------------------
\* Starting, stopping, requests.

\* @PostConstruct startEventLoop(): the loop starts before any bean that is
\* injected with the publisher can subscribe.
Boot ==
    /\ pc = "down"
    /\ pc' = "sleeping"
    /\ UNCHANGED <<dbVars, batch, cur, mem, processVars, history, bounds>>

\* subscribe(): without the lock the loop holds while it iterates.
Subscribe(s) ==
    /\ pc # "down"
    /\ s \notin registered
    /\ registered' = registered \union {s}
    /\ changed' = (changed \/ pc \in Iterating)
    /\ UNCHANGED <<dbVars, loopVars, history, bounds>>

\* A request of the services that raises an event commits; requests are served
\* once the context has started, whatever has become of the loop.
Request(t) ==
    /\ pc # "down"
    /\ registered = Subscribers
    /\ requests < MaxRequests
    /\ requests' = requests + 1
    /\ CommitPublish(t)
    /\ UNCHANGED <<db, done, loopVars, processVars, history, crashes, faults>>

\* The loop's thread ends, and what it held is gone.
LoopEnds(state) ==
    /\ pc' = state
    /\ batch' = {}
    /\ cur' = NoRow
    /\ mem' = [r \in Rows |-> Fresh]
    /\ changed' = FALSE

Crash ==
    /\ pc # "down"
    /\ crashes < MaxCrashes
    /\ crashes' = crashes + 1
    /\ LoopEnds("down")
    /\ registered' = {}
    /\ UNCHANGED <<dbVars, history, requests, faults>>

------------------------------------------------------------------------------
\* The event loop.

\* List<Event> es = events.getPendingEvents()
Fetch ==
    /\ pc = "sleeping"
    /\ PendingEvents # {}
    /\ batch' = PendingEvents
    /\ mem' = [r \in Rows |-> IF r \in PendingEvents THEN db[r] ELSE mem[r]]
    /\ pc' = "fetched"
    /\ UNCHANGED <<dbVars, cur, processVars, history, bounds>>

\* Deviation: all fetched events are saved as published before the first is handled.
PublishWholeBatch(r) ==
    /\ pc = "fetched"
    /\ r \in batch
    /\ batch' = batch \ {r}
    /\ cur' = r
    /\ mem' = [mem EXCEPT ![r] = Published(@)]
    /\ db' = [x \in Rows |-> IF x \in batch THEN Published(mem[x]) ELSE db[x]]
    /\ pc' = "published"
    /\ UNCHANGED <<stored, done, raised, processVars, history, bounds>>

\* Deviation: the event is saved only after the handler has returned.
PublishInMemory(r) ==
    /\ pc = "fetched"
    /\ r \in batch
    /\ batch' = batch \ {r}
    /\ cur' = r
    /\ mem' = [mem EXCEPT ![r] = Published(@)]
    /\ pc' = "published"
    /\ UNCHANGED <<dbVars, processVars, history, bounds>>

\* e.published(); events.saveAndFlush(e)
Publish(r) ==
    /\ pc = "fetched"
    /\ r \in batch
    /\ batch' = batch \ {r}
    /\ cur' = r
    /\ mem' = [mem EXCEPT ![r] = Published(@)]
    /\ db' = [db EXCEPT ![r] = mem'[r]]
    /\ pc' = "published"
    /\ UNCHANGED <<stored, done, raised, processVars, history, bounds>>

\* The subscriber whose class is the row's is found among the registered ones.
Call ==
    /\ pc = "published"
    /\ cur[2] \in registered
    /\ pc' = "handling"
    /\ attempts' = [attempts EXCEPT ![cur] = @ + 1]
    /\ UNCHANGED <<dbVars, batch, cur, mem, processVars, unclaimed, bounds>>

\* No registered subscriber has the row's class: nobody is called.
Skip ==
    /\ pc = "published"
    /\ cur[2] \notin registered
    /\ pc' = "returned"
    /\ unclaimed' = unclaimed \union {cur}
    /\ UNCHANGED <<dbVars, batch, cur, mem, processVars, attempts, bounds>>

\* The handler calls handled(e): the copy is marked at once, the row only when
\* the handler's transaction commits.
MarkHandled ==
    /\ pc = "handling"
    /\ mem' = [mem EXCEPT ![cur].handled = TRUE]
    /\ pc' = "marked"
    /\ UNCHANGED <<dbVars, batch, cur, processVars, history, bounds>>

\* The handler's transaction commits: its work, the row, the event it published.
HandlerCommit ==
    /\ pc = "marked"
    /\ IF Raises[cur[2]] = NoType
       THEN UNCHANGED <<stored, raised>>
       ELSE CommitPublish(Raises[cur[2]])
    /\ db' = [db EXCEPT ![cur] = mem[cur]]
    /\ done' = done \union {cur}
    /\ pc' = "returned"
    /\ UNCHANGED <<batch, cur, mem, processVars, history, bounds>>

\* Deviation: the exception is logged and not kept.
HandlerFailSilently ==
    /\ pc \in {"handling", "marked"}
    /\ pc' = "returned"
    /\ UNCHANGED <<dbVars, batch, cur, mem, processVars, history, bounds>>

\* Deviation: the handler is not transactional, its work stays when it throws.
HandlerFailWithoutRollback ==
    /\ pc \in {"handling", "marked"}
    /\ mem' = [mem EXCEPT ![cur].error = TRUE]
    /\ done' = done \union {cur}
    /\ pc' = "returned"
    /\ UNCHANGED <<stored, db, raised, batch, cur, processVars, history, bounds>>

\* Deviation: publish() commits in a transaction of its own.
HandlerFailAfterPublish ==
    /\ pc \in {"handling", "marked"}
    /\ IF pc = "handling" \/ Raises[cur[2]] = NoType
       THEN UNCHANGED <<stored, raised>>
       ELSE CommitPublish(Raises[cur[2]])
    /\ mem' = [mem EXCEPT ![cur].error = TRUE]
    /\ pc' = "returned"
    /\ UNCHANGED <<db, done, batch, cur, processVars, history, bounds>>

\* The handler, a flush or its commit throws: the transaction is rolled back,
\* the copy keeps whatever was set on it and gets the stack trace.
HandlerFail ==
    /\ pc \in {"handling", "marked"}
    /\ mem' = [mem EXCEPT ![cur].error = TRUE]
    /\ pc' = "returned"
    /\ UNCHANGED <<dbVars, batch, cur, processVars, history, bounds>>

\* Deviation: handled(e) marks a copy of its own, the loop saves the one it published.
SaveOtherCopy ==
    /\ pc = "returned"
    /\ db' = [db EXCEPT ![cur] = [mem[cur] EXCEPT !.handled = FALSE]]
    /\ cur' = NoRow
    /\ mem' = [mem EXCEPT ![cur] = Fresh]
    /\ pc' = IF batch = {} THEN "sleeping" ELSE "fetched"
    /\ changed' = FALSE
    /\ UNCHANGED <<stored, done, raised, batch, registered, history, bounds>>

\* Deviation: the loop waits for another event of a batch that is used up.
SaveWithoutSleep ==
    /\ pc = "returned"
    /\ db' = [db EXCEPT ![cur] = mem[cur]]
    /\ cur' = NoRow
    /\ mem' = [mem EXCEPT ![cur] = Fresh]
    /\ pc' = "fetched"
    /\ changed' = FALSE
    /\ UNCHANGED <<stored, done, raised, batch, registered, history, bounds>>

\* events.saveAndFlush(e), and on to the next event or to sleep
Save ==
    /\ pc = "returned"
    /\ db' = [db EXCEPT ![cur] = mem[cur]]
    /\ cur' = NoRow
    /\ mem' = [mem EXCEPT ![cur] = Fresh]
    /\ pc' = IF batch = {} THEN "sleeping" ELSE "fetched"
    /\ changed' = FALSE
    /\ UNCHANGED <<stored, done, raised, batch, registered, history, bounds>>

\* The loop's iterator may see that a subscriber was added under it and throw
\* ConcurrentModificationException, which nothing in run() catches.
IteratorFails ==
    /\ pc = "returned"
    /\ changed
    /\ LoopEnds("dead")
    /\ UNCHANGED <<dbVars, registered, history, bounds>>

\* A repository call of the loop throws (or a handler throws an Error): run()
\* catches InterruptedException only, the thread ends and nobody starts another.
LoopFails ==
    /\ pc \in {"sleeping", "fetched", "handling", "marked", "returned"}
    /\ faults < MaxFaults
    /\ faults' = faults + 1
    /\ LoopEnds("dead")
    /\ UNCHANGED <<dbVars, registered, history, requests, crashes>>

EventLoop ==
    \/ Fetch
    \/ \E r \in Rows : Publish(r)
    \/ Call
    \/ Skip
    \/ MarkHandled
    \/ HandlerCommit
    \/ HandlerFail
    \/ Save
    \/ IteratorFails

Next ==
    \/ EventLoop
    \/ LoopFails
    \/ Boot
    \/ Crash
    \/ \E s \in Subscribers : Subscribe(s)
    \/ \E t \in RequestTypes : Request(t)

Spec == Init /\ [][Next]_vars

\* The scheduler runs the loop's thread and the thread that starts the context;
\* whoever stops the process starts it again.  Nothing obliges a request to
\* arrive, a process to stop or a call to throw.
Fairness ==
    /\ WF_vars(EventLoop)
    /\ WF_vars(Boot)
    /\ \A s \in Subscribers : WF_vars(Subscribe(s))

FairSpec == Spec /\ Fairness

------------------------------------------------------------------------------
\* Properties.

\* Every variable has its type; the columns stay well formed.
TypeOK ==
    /\ stored \in SUBSET Rows
    /\ db \in [Rows -> Columns]
    /\ done \in SUBSET Rows
    /\ raised \in 0..MaxEvents
    /\ pc \in LoopStates
    /\ batch \in SUBSET Rows
    /\ cur \in Rows \union {NoRow}
    /\ mem \in [Rows -> Columns]
    /\ registered \in SUBSET Subscribers
    /\ changed \in BOOLEAN
    /\ attempts \in [Rows -> Nat]
    /\ unclaimed \in SUBSET Rows
    /\ requests \in 0..MaxRequests
    /\ crashes \in 0..MaxCrashes
    /\ faults \in 0..MaxFaults

\* The handler of a row is called at most once, whatever stops between the save
\* that publishes the row, the handler's commit and the final save, and however
\* often the loop starts again: a notification is never sent twice.
AtMostOneCall == \A r \in Rows : attempts[r] <= 1

\* The work of a handler and the record of it stand or fall together: once the
\* handler's transaction is committed, its row says handled and has no error,
\* although the loop saves its own older copy of the row afterwards.
CommittedWorkIsHandled ==
    \A r \in done : db[r].handled /\ ~db[r].error

\* A row that says handled without the handler's work being committed carries
\* the stack trace that tells why: the failure is never silent.
HandledWithoutWorkHasError ==
    \A r \in stored \ done : db[r].handled => db[r].error

\* Rows that were published to a registered subscriber, have no outcome, and
\* that nothing in the running process will ever look at again.
Lost ==
    {r \in stored \ unclaimed : /\ db[r].published
                              /\ ~db[r].handled
                              /\ ~db[r].error
                              /\ r # cur}

\* One life of the process loses one event at the most: the loop publishes a row
\* only when it is about to handle it, so the rest of the batch stays pending.
EachLifeLosesAtMostOne ==
    Cardinality(Lost) <= crashes + (IF pc = "dead" THEN 1 ELSE 0)

\* Every event has one cause that is committed, a request or the work of one
\* handler: a handler that is rolled back takes the event it published with it.
EventsHaveCommittedCauses ==
    raised = requests + Cardinality({r \in done : Raises[r[2]] # NoType})

\* No save of a detached copy takes back what the database already says of a row.
ColumnsNeverRevert ==
    [][\A r \in Rows :
          /\ db[r].published => db'[r].published
          /\ db[r].handled => db'[r].handled
          /\ db[r].error => db'[r].error]_vars

\* Where a row is in the life of a delivery.
DeliveryStatus ==
    [r \in Rows |->
        IF r \notin stored THEN "absent"
        ELSE IF r \in done THEN "done"
        ELSE IF db[r].error THEN "failed"
        ELSE IF db[r].published THEN "claimed"
        ELSE "pending"]

Delivery == INSTANCE EventDelivery WITH status <- DeliveryStatus, calls <- attempts

\* The publisher implements at-most-once delivery: every step of the loop, of a
\* transaction and of a crash is a step of EventDelivery or changes nothing there.
DeliversAtMostOnce == Delivery!Spec

\* A pending row is eventually taken by the loop, in this life of the process or
\* in a later one, unless the loop's thread has died under a running process.
PendingIsClaimed ==
    \A r \in Rows : (r \in PendingEvents) ~> (r \notin PendingEvents \/ pc = "dead")

\* Every delivery comes to an end that the database tells, handled or with an error,
\* unless it is one of the events lost with the process, of which each stop takes one
\* at the most, came to no subscriber, or the loop's thread has died.
EveryDeliverySettles ==
    \A r \in Rows :
        (r \in stored) ~> (\/ db[r].handled \/ db[r].error
                           \/ r \in Lost /\ Cardinality(Lost) <= crashes
                           \/ r \in unclaimed
                           \/ pc = "dead")

\* The remark on the column TIME_HANDLED: "time(UTC) when a domain event is
\* handled": a row with that time is the row of an event that was handled.
HandledMeansDone == \A r \in stored : db[r].handled => r \in done

==============================================================================
