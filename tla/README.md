# Geodesy Web Services in TLA+

Geodesy Web Services keeps the site logs of GNSS reference stations (CORS), and
derives from them what equipment was in use at a site and when. This directory
holds TLA+ models of the part of it that is hard to test: the asynchronous event
publisher that ties its services together; the services that turn an uploaded site
log into setups, configurations of equipment and nodes; and the requests that race
each other for the site log and for the networks of a site. TLC checks the models on
small instances and TLAPS proves every invariant, action property and refinement for
every value of the constants. Paths below are relative to
`gws-core/src/main/java/au/gov/ga/geodesy/` unless they start with `gws-`.

## 1. The system

### Components

| Component | State | Operations | What makes it correct |
|---|---|---|---|
| Domain event publisher (`domain/model/event/`) | table `DOMAIN_EVENT`, one row per event and subscriber; list of subscribers; the loop's detached copies of rows | `publish`, `subscribe`, `handled`, the event loop | a handler runs at most once per row; a row tells the truth about its handler; a pending row is eventually taken; a crash loses one event at the most |
| Site log upload (`domain/service/CorsSiteLogService`) | table `SITELOG_SITE` and its collections | `upload`: delete, save, publish `SiteLogReceived` | an accepted upload replaces the site log of the site at one moment, together with its event |
| Sites and setups (`domain/service/CorsSiteService`, `domain/model/Setup`) | tables `CORS_SITE`, `SETUP`, `EQUIPMENT_IN_USE`, `EQUIPMENT`, `EQUIPMENT_CONFIGURATION` | handler of `SiteLogReceived`: derive, compare, invalidate, insert, publish `SiteUpdated` | valid setups are one timeline that says what the last log says; nothing is lost from the history; what did not change is kept; the configuration of a piece of equipment is unique, kept, and says what the log says |
| Setup queries (`SetupRepository`, `port/adapter/rest/SetupEndpoint`) | none | by site, by period, the current one | a period finds the setups in effect during it |
| Nodes (`domain/service/NodeService`) | table `NODE` | handler of `SiteUpdated`: invalidate, create | a setup has one node; nodes end with their setups; when all is quiet, nodes are in effect exactly when a receiver and an antenna are installed, and those with clocks do not overlap: up to the order of the setups and to changes within a second |
| Weekly solutions and positions (`WeeklySolutionService`, `PositionService`) | tables `WEEKLY_SOLUTION`, `POSITION` | upload of a solution; handler of `WeeklySolutionAvailable` | the positions of a handled solution are all there |
| Networks (`CorsSite.handle`, `CorsSiteEndpoint`) | table `CORS_SITE_IN_NETWORK`, version of the site | `addToNetwork`; saves of the site by the handler of `SiteLogReceived`; deletion of networks | exactly the accepted tenancies are stored, once, with their networks |
| Notifications (four services, `port/adapter/sns`) | none | handlers that call SNS | a notification is not sent twice |
| Requests and registrations (two repositories) | two tables | `save` publishes an event | entity and event are committed together |
| REST endpoints, security, validation, mapping, configuration, infrastructure | none of its own | | left out, see section 7 |

### How they interact

```
 request ──> CorsSiteLogService.upload ──┐ (one transaction: site log + event rows)
 request ──> WeeklySolution / NewCorsSiteRequest / UserRegistration ──┤
                                                                      v
                                                   DOMAIN_EVENT rows, one per subscriber
                                                                      │ fetched every 3 s
                                                                      v
   event loop thread:  save as published ─> subscriber.handle(e) ─> save again
                                                 │  (a transaction of its own: work,
                                                 │   handled(e), publish(follow-up))
         ┌───────────────────┬───────────────────┼──────────────────┐
  CorsSiteService      NodeService        PositionService     notification services
  SiteLogReceived ──> SiteUpdated
```

Handlers and services are `@Transactional` by compile-time weaving
(`support/spring/GeodesyServiceConfig`), so a handler is a transaction although the
loop calls the bare object; a repository call outside a service, as the saves of
the loop are, is a transaction of its own. The database works at READ COMMITTED,
the default of PostgreSQL: nothing in the configuration asks for more.

Three things are shared without the event loop in between. Uploads of one site may
overlap, and meet in the row of `SITELOG_SITE` they delete. Requests to add a site to
a network and the handler of `SiteLogReceived` save the same site, and meet in its
version. Handlers of different sites follow one another in the one thread of the
loop, but meet in the configurations of equipment that both sites name.

### What is hard

* **Two copies of one row.** The loop works on detached copies and each save writes
  the whole row; the handler's transaction writes the same row in between.
* **Half-done deliveries.** The process may stop between any two of: saved as
  published, handler called, handler committed, saved again. The query for pending
  events and the field `retries` suggest a second delivery that never happens.
* **Start-up order.** The loop is started by the publisher's `@PostConstruct`,
  before any subscriber can have registered, and registration takes no lock.
* **A loop that can die.** It catches `InterruptedException` and nothing else.
* **Events without content.** A `SiteLogReceived` names the site; the handler reads
  what is in the database when it runs, with several SELECTs, while uploads go on.
* **Interval arithmetic.** Deriving setups walks lists up to dates that must be met,
  with open ends, corrections of no duration and deleted entries.
* **Equality.** Which setups are kept depends on comparing two lists pairwise, of
  which one is read back from the database without an ORDER BY.
* **A loop that skips.** `NodeService` walks over the setups in no stated order and
  passes over those that begin before the end of the node before, in a handler that
  may have been overtaken or rolled back any number of times.
* **Read, then write.** An upload deletes the row it selected; `addToNetwork()` reads
  a site, changes its copy and merges it, in four transactions. Each has one column
  or one row count between it and a lost update.
* **Data found by what it says.** Equipment is found by type and serial number, a
  clock by its type, a configuration by equipment and date, and settings are written
  over what is there, whichever site put it there.

Every such point is listed with its line under `hazards` in `PROJECT.json`, with the
properties that would notice it going wrong.

## 2. Modules

| Module | What it is |
|---|---|
| `EventDelivery` | the abstract specification: what a delivery of an event to a subscriber goes through |
| `EventPublisher` | the publisher: rows, copies, loop, handlers' transactions, subscribers, crash and restart |
| `EventPublisherProofs` | the inductive invariant of `EventPublisher`, its theorems and the refinement of `EventDelivery` |
| `SetupDerivation` | `getSetups()` and the queries over setups, as operators, next to what they are for |
| `SetupDerivationProofs` | that the derivation is right for every site log |
| `SiteUpdates` | one site: uploads, the handler that reads a log and replaces setups; uses `SetupDerivation` |
| `SiteUpdatesProofs` | the inductive invariant of `SiteUpdates` and its theorems; uses `SetupDerivationProofs` |
| `NodeUpdates` | the handler of `SiteUpdated`, composed with `SiteUpdates` |
| `NodeUpdatesProofs` | the inductive invariant of the composition and its theorems; uses `SiteUpdatesProofs` |
| `NodeOverlapProofs` | when nodes overlap, and that they describe the log: an invariant on top of `NodeUpdatesProofs` |
| `EquipmentConfigurations` | several sites: the configurations of equipment their handlers find or make; uses `SetupDerivation` |
| `EquipmentConfigurationsProofs` | the inductive invariant of `EquipmentConfigurations` and its theorems |
| `SiteLogStore` | the abstract specification: accepted uploads replace the one site log one by one |
| `SiteLogUpload` | uploads of one site as interleaved transactions |
| `SiteLogUploadProofs` | its invariants, and that it implements `SiteLogStore` for a site that has a site log |
| `NetworkTenancies` | requests for networks of one site, against each other, the handler and the deletion of networks |
| `NetworkTenanciesProofs` | the inductive invariant of `NetworkTenancies` and its theorems |
| `MCEventPublisher`, `MCSiteUpdates`, `MCEveryLog`, `MCNodeUpdates`, `MCEquipmentConfigurations`, `MCSiteLogUpload`, `MCNetworkTenancies` | the instances TLC checks |

`SiteUpdates.Upload` is one step. That this is how uploads look from outside is what
`SiteLogUpload` shows: for a site that has a site log, overlapping uploads implement
`SiteLogStore`. That an event reaches its handler once at the most, and what a
rolled-back handler means for its event, is what `EventPublisher` shows; the other
modules count events instead of repeating it.

A definition commented *Deviation* is not part of a specification. It is a plausible
mistake in the code, kept beside the definition it deviates from: put in its place,
it makes TLC report the property that guards against it (`mutants` in
`PROJECT.json`).

### EventPublisher and the code

`Rows` are pairs of an event's number and a subscriber, as `publish()` stores one
clone per subscriber that can handle the event.

| Variable | In the code |
|---|---|
| `stored`, `db` | committed rows of `DOMAIN_EVENT`; columns `TIME_PUBLISHED`, `TIME_HANDLED`, `ERROR` as booleans, and `RETRIES` |
| `done`, `raised` | handlers' transactions that have committed; events published by committed transactions |
| `pc`, `batch`, `cur`, `mem` | where `EventLoop.run` is; the list it iterates over; `e`; the detached copies |
| `registered`, `changed` | the list `subscribers`; its modification count as the loop's iterator sees it |
| `attempts`, `unclaimed` | history: calls of the handler of a row; rows nobody was registered for |

| Action | In the code |
|---|---|
| `Boot`, `Subscribe` | `startEventLoop()`, `subscribe()` |
| `Request` | a service's transaction that calls `publish()`, committed |
| `Fetch` | `getPendingEvents()` at line 104 (the call at line 102 has no effect) |
| `Publish` | `e.published()` and the save at lines 105 and 106 |
| `Call`, `Skip` | the iteration over the subscribers, lines 107 to 114, finds the row's class or does not |
| `MarkHandled` | the handler calls `handled(e)`: the copy has the time, the row not yet |
| `HandlerCommit`, `HandlerFail` | the handler's transaction commits with its work, the row and the follow-up event; or anything in it throws, everything is rolled back and `EventLoop.handle` sets the error on the copy |
| `Save` | line 115, and the next event or sleep |
| `IteratorFails` | `ConcurrentModificationException` after a concurrent `subscribe()` |
| `LoopFails` | a repository call of the loop throws, or a handler throws an `Error` |
| `Crash` | the process stops at any point |

What a handler does besides is one bit, "its work is committed": no property of the
publisher depends on it. Times are booleans. The user name is left out. The loop's
batch is a set: the query has no order.

### SetupDerivation, SiteUpdates and the code

A site log is a set of equipment items with two dates, each possibly null, and the
mark of deletion. Dates are numbers. `GetSetups` says by its conditions which setups
an item is added to, where `addEquipment()` walks over them: `Spanned` are the
setups from the one that starts with the item through the first that ends with it,
`Unplaceable` the items whose walk leaves the list. `WellFormed`, `EquipmentAt`,
`IsTimeline`, `Describes` and `InPeriod` are the reference, stated without reading
the code: what the log itself says of a date.

In `SiteUpdates`, `Upload` is the committed transaction of `upload()`. The handler
takes an event (`BeginHandle`), reads one collection of equipment after the other
(`ReadItems`; once an upload has replaced the log, the rows it looks for are gone),
and commits (`HandleCommit`) or is rolled back (`HandleFail` when `getSetups()`
throws, `HandlerFault` for any other reason), in which case the event is gone, as
`EventPublisher` shows. A row of `SETUP` is the setup, the number of the handler
that inserted it, which stands for its id, and the flag `invalidated`. The equipment
of a setup is a set, and that the code compares lists is a choice: `unequal` holds
the setups whose items happen to come in another order. `Setup.equipmentInUse` is a
`List` without `@OrderBy` or `@OrderColumn`, so that the SELECT which fills it has no
ORDER BY: any setup with two pieces of equipment may compare as unequal (`AnyOrder`).
An item without a first date gets a new configuration each time (`NewConfiguration`),
so that its setup never compares equal. No property of the passing runs assumes that
a setup which has not changed is recognised.

### NodeUpdates and the code

`updated` counts the `SiteUpdated` events that commits of `SiteUpdates` have
published; the two handlers share the loop's thread (`EventLoopStep`), and uploads go
on at any time. `BeginNodes` takes an event, invalidates the nodes of invalidated
setups and selects the valid ones; each further step visits one setup of them:
`PassOver` when it is incomplete or begins before the end of the last node,
`VisitComplete` when it has or gets a node. When none is left, or the last node has no
end and the loop is left, the transaction ends. `saved` is the table inside the transaction, `nodes` the
committed one; `NodesCommit` makes the one the other and `NodesFault` forgets it.

The query has no ORDER BY. `chronological`, chosen once per behaviour, says whether
the setups come in the order of time or in any order. The code guarantees no order.
That of time is the usual one: a handler inserts the setups it derives in that order,
and a table gives its rows as they were inserted more often than not. It is lost when
a log corrects an early period and leaves a later one as it was, whose row is then the
older; so both kinds are checked and proved about, and every property that needs
the order of time for a part says which. With two items of one type in use the first
of an undefined order is taken (`OneOfEachInUse`).

`compareTo(...) == 1` is modelled with instants of seconds and a part of them:
`Second` is how many of the dates fall into one second, and `compareTo()` of two
instants of one second is their difference. With three dates to a second, as in the
instance, a later date of one second differs by 1 or by 2, and only the first is taken
for "later".

### EquipmentConfigurations and the code

An item has a setting besides, which stands for firmware, eccentricities and the
like. The handler (`BeginHandle`) reads the site log at once, the matter of reading
it in parts being that of `SiteUpdates`, and then places one item in one setup at a
time: `AddFound` writes the settings over those of the configuration it finds,
`AddNew` makes one with an id of the sequence. `table` is `EQUIPMENT_CONFIGURATION`
inside the transaction, `configurations` the committed one. `EquipmentOf` is the key
by which equipment is found; for a clock the instance gives every item of a type one
value. Items are taken to have a serial number, blank or not, as GeodesyML requires
the element. `everUsed` is history: with it `IsShared` can say whether setups of
another site, valid or not, refer to the same configuration.

### SiteLogUpload, NetworkTenancies and the code

`SiteLogUpload` has a step for the SELECT of `upload()` (`Select`, or `SelectFails`
when there are two rows) and one for the flush and commit (`Commit`), in which the
DELETE of a row that is gone makes Hibernate roll back (`CommitFails`). Whether the
site has a site log before is chosen once (`known`).

`NetworkTenancies` has a step for each of the transactions of `addToNetwork()`:
`Load`, `Refuse` or `Change` (the question whether the network exists, and the change
of the detached copy), `Save`. A save merges the copy, whose tenancies replace those
of the row (`orphanRemoval`), and is refused when the version has moved (`SaveFails`).
A copy that `Change` left as it was is saved too, and writes nothing (`Keep`); that
tenancies without dates are equal although Hibernate loads an empty embeddable is due
to `create_empty_composites`. The handler of `SiteLogReceived` reads the site
(`BeginUpdate`), has its UPDATE with the version sent (`FlushUpdate`, or `LoseUpdate`
when it is stale, with which the event is gone) and commits. Between `FlushUpdate`
and the commit the lock on the row holds up other saves. The foreign key holds up the
deletion of a network that has tenancies (`DeleteNetwork`). No subscriber takes
`CorsSiteAddedToNetwork`, so that publishing it stores nothing.

## 3. Runs

| Run | Question | Bounds | Distinct states |
|---|---|---|---|
| `publisher_crash` | can a delivery be repeated, forgotten or contradicted by its row, and does the loop implement `EventDelivery`? | 3 subscribers, 2 requests, 4 events, 2 crashes, 1 fault | 1.9 million |
| `publisher_restart` | does a pending event survive stops, and does every delivery come to an end? | 1 request, 2 events, 2 crashes, 1 fault, fairness | 11 000 |
| `publisher_time_handled` | was an event with a time handled? (violated) | as `publisher_crash` | |
| `setups_every_log` | is the derivation right? | every log of at most 2 items over 3 dates and 2 types, deleted or not, and every log of 3 items not deleted | 42 000 |
| `setups_history` | do overtaken and torn reads, faults and corrections leave the table right, what does a log that cannot be placed cost, and do the setups come to describe the last log? | 7 logs chosen for their differences, 4 uploads, 1 fault, fairness | 171 000 |
| `setups_keep` | is every unmodified setup kept? (violated) | 2 uploads | |
| `setups_period` | does a period find all its setups? (violated) | 1 upload | |
| `nodes` | do the nodes follow the setups and describe the log, in either kind of order, and when do they overlap? | 14 logs over 6 dates, 3 of them in one second, 2 uploads, 2 faults, fairness | 298 000 |
| `configurations` | do configurations stay unique, kept and true while handlers of two sites write them? | 2 sites, 6 logs, 3 uploads, 1 fault | 156 000 |
| `upload_replace` | do overlapping uploads replace the site log one by one? | 4 uploads, 1 fault, with and without a site log before | 4 000 |
| `upload_unique` | is the four character id unique? (violated) | 4 uploads | |
| `tenancies` | are the tenancies of a site the accepted ones? | 4 requests, 2 updates, 2 networks, 2 faults | 935 000 |

*Why these bounds are enough to mean something.* In `publisher_crash` one event has two
subscribers, so batches of more than one row occur, one of them raises an event that a
third handles, and a second request overlaps with all of it; two crashes and a fault
allow a crash in a life that follows another, in any state of the loop. Four events are
every event that two requests lead to. In `setups_every_log` three dates give every
order of two intervals with open ends, shared bounds and empty intervals, and three
items are needed for a date of change that is no bound of the two others. In
`setups_history` four uploads are two more than the handler needs to be overtaken while
it reads and again before it reads. In `nodes` two uploads make every pair of logs
meet, with handlers of the first overtaken or rolled back; longer histories are left to
the theorems, which cover all of the invariants. Three of its dates are within one
second, and two logs have equipment that comes and goes there: `OneSecond` and
`EndsInSecond`, in which one sensor begins 2 before the antenna ends, and its setup is
not passed over, and another 1 before, and its setup is. With the one the nodes do
overlap in the order of time. In any order of the setups, `NewAntenna` and then
`AntennaLate` leave a setup without a node and dates of the past uncovered. Among its
logs are one with two receivers that is corrected by another, which shows what an
unclear log of the past does to nodes, and equipment without dates. In `configurations`
three uploads are two at one site with one of the other site before, between or after,
and the logs include two items with one configuration, one without dates and one that
cannot be placed. Four uploads in `upload_replace` let two overtake a third and one
find two rows. In `tenancies` two requests ask for the same, one for another period and
one for another network.

All configurations switch the check for deadlock off: a behaviour that has used up
its requests, uploads and faults comes to rest, and so does one whose event loop has
died, which the code really allows.

*Fairness.* `EventPublisher.FairSpec` is weakly fair to the steps of the loop's
thread, to the start of the process, and to each bean's `subscribe()`, which Spring
calls while it starts the context. It promises no request, no crash and no fault; a
handler ends, but how is open. `SiteUpdates.FairSpec` is weakly fair to the
handler's thread alone, `NodeUpdates.NodesFairSpec` to the thread of the loop, which
runs both handlers; whether a handler commits or is rolled back is open, up to the
bound on faults. Liveness with crashes is stated up to what the code gives
up: `PendingIsClaimed` allows for a dead loop, `EveryDeliverySettles` for one event
lost with each crash besides, `SetupsCatchUp` and `NodesCatchUp` for a last handler
that was rolled back by a fault. They do not allow for one that was rolled back by its
site log: the last log is not well-formed then, or an upload has replaced it and
another event is pending.

## 4. Properties

Of the publisher: `AtMostOneCall`, `CommittedWorkIsHandled` and
`HandledWithoutWorkHasError` say that a row and what happened to it agree although
both the loop and the handler write it; `EachLifeLosesAtMostOne` bounds what a crash
costs; `EventsHaveCommittedCauses` says that an event exists if and only if the work
it follows from does; `ColumnsNeverRevert` is about stale saves; `DeliversAtMostOnce`
is the refinement; `PendingIsClaimed` and `EveryDeliverySettles` are about progress.

Of setups: `SettledSetupsDescribeLog` relates the valid setups to the log they were
derived from, date by date; `ValidSetupsAreTimeline` holds at every moment, also
after a handler read half of a log; `HistoryIsKept` is about what an update may do to
rows; `FailuresCostOneUpdate` about the update that `getSetups()` fails for: it is
lost, and takes no other with it, neither that of an upload that came in while it was
failing nor that of a later one; `PeriodsAreFound` is the query against its
meaning; `CurrentSetupIsFound` says when `findCurrentBySiteId()` has exactly one result;
`SetupsCatchUp` is progress. As nothing makes a settled site move on, `SetupsCatchUp`
implies `SettledSetupsDescribeLog`, which `setups_history` therefore does not list; it
is listed where the logs are many, and proved.

Of nodes: `OneNodePerSetup`, whose violation would make every later event of the site
fail; `NodesFollowSetups`, that nodes are invalidated with their setups and, when all
is handled, not after; `NodeContainsItsSetup`; `NodelessSetupsWerePassedOver`, what
holds in any order of the setups; `NodesCoverCompleteSetups`, what holds in the order
of time. In another order the last does not hold: a setup visited after a later node
without end gets none. `SettledNodesDescribeLog` relates both ends of the chain, the
nodes and the site log they come from, date by date, when every event is handled, and
says what this costs: in any order no node is in effect where the log has no receiver
or no antenna, and from the last change of equipment on there is one where it has both;
only dates before the last change depend on the order. `NodesCatchUp` is the progress
towards it.

`NodesOverlapOnlyInSecond` says when two valid nodes with clocks are in effect at one
date. In any order they must be two nodes of the same period, made for two setups with
the same receiver, antenna and clock, of which a later one was visited first. In the
order of time the second is passed over, unless it begins in the second in which the
period ends, where `compareTo()` may give more than 1. A clock that comes or goes alone
does not end a node, which is why both must have one.

It asks `HistoryIsClear` of all setups there ever were, not
of the valid ones only. A node keeps the period it was given as long as its setup is
valid. If a log once had two receivers in use at a time, the walk may have ended the
node of one setup with the second receiver, so that the next setup got a node too. When
a later log takes the second receiver out, the next setup does not change and keeps its
node, and the setup before it is derived anew and gets one with a later end. The two
overlap for as long as they are valid, though the log that is in force is clear
(`TwoWithClock`, then `OneWithClock` in `MCNodeUpdates`; TLC finds it when the
hypothesis is about `Current` alone).

Of configurations: `OneConfigurationPerDate`, `SettledConfigurationsSayLog`, that the
committed rows agree with the site log of a settled site unless another item or site
shares them, and `ConfigurationsAreKept`, that setups never lose theirs and that a
handler that is rolled back leaves nothing.

Of requests: `ReplacesOneByOne` is the refinement of `SiteLogStore`,
`LogsAreFirstUploads` what becomes of a new site, `StaleUploadsWereOvertaken` that no
upload is refused without another having been accepted. `TenanciesAreTheAccepted` says
that no tenancy is lost or comes from a refused request, `NoTenancyTwice` and
`TenanciesHaveNetworks` that what a request found out about its copy still holds when
it saves, and `UpdatesGiveWayToTenancies` bounds the updates of the site that are lost
to requests.

### Where the code and its words disagree

1. `TIME_HANDLED` is documented as the time an event is handled, and is set on rows
   whose handler was rolled back after it had called `handled()`
   (`publisher_time_handled`). Such a row always carries an error, which is proved.
2. `findBySiteIdAndPeriod()` promises all setups of a period. Without an end of the
   period it misses the open-ended setup in effect at the start (`setups_period`).
3. A test asserts that uploading the same log again keeps the setups. With two pieces
   of equipment in use at a time, which come back in no stated order, or an item
   without a first date, it may not (`setups_keep`).
4. The schema calls the four character id unique. Two first uploads of a site at once
   leave two site logs with it, and every later look-up throws (`upload_unique`).

Two more are not worth a run: `SetupEndpoint` expects null of `findCurrentBySiteId()`
for a site without setups, which throws; and `Event.hasFailed()`, which nothing calls,
is said to be duplicated in the repository, whose test is another one.

## 5. Proofs

Every invariant the passing runs check is proved, and so is every action property and
both refinements. Each module of proofs has one
inductive invariant at its heart, named below; what it adds to the properties is what
is known in the middle of a transaction, where the properties speak of what is
committed.

### The publisher

`EventPublisherProofs` proves, for any finite or infinite set of subscribers, any
table of what they handle and raise, and any bounds:

| Theorem | Property |
|---|---|
| `TypeCorrect` | `TypeOK` |
| `CalledAtMostOnce` | `AtMostOneCall` |
| `CommittedWorkStaysHandled` | `CommittedWorkIsHandled` |
| `RolledBackIsRecorded` | `HandledWithoutWorkHasError` |
| `SavesLoseNothing` | `ColumnsNeverRevert` |
| `ImplementsDelivery` | `DeliversAtMostOnce` |
| `LivesLoseAtMostOne` | `EachLifeLosesAtMostOne` |
| `CausesAreCommitted` | `EventsHaveCommittedCauses` |

The only assumption is `ConstantsAssumption` of `EventPublisher`. None of the
properties is inductive: that a handler is not called twice rests on the row being
saved as published before it is called, on the query leaving out published rows, and
on the copies the loop has fetched and not reached being those of rows that nobody
has touched. The invariant `IInv` says this in named parts: `UnpublishedIsFresh` (a
row that is not published is as it was stored, never called, not done),
`PublishedIsStored`, `BatchIsFresh` (the rows in the batch are unpublished and their
copies fresh), `CurrentRow` (for each step of the loop, what the row and the copy in
hand say: they differ exactly between `handled(e)` and the commit, and after a
rollback), and `PublishedRows` (a published row agrees with what happened to it).
`InitInvariant` and one lemma per action show that it is inductive; TLC has checked
it on the instance of `publisher_crash` as well. The action property and the
refinement follow step by step from `IInv` and the action. The two that count rows
follow from it as well: only a step that ends a life of the loop adds to the lost
events, and only the one in hand (`EndsLoseOne`, `LostInv`); and each commit that
raises an event adds one to either side of the equation of causes and events.

### Setups

`SetupDerivationProofs` proves of the derivation itself, for every set of items with
any dates: `SetupsAreTimeline`, that the setups follow each other without gap or
overlap, and `SetupsDescribeLog`, that for a well-formed log they say of every date
what the log says. The argument replaces the walks of `addEquipment()` by two facts
about the dates of change: the end of a setup is the least one after its start
(`SetupEndIsNext`), and the setup of a date starts at the greatest one up to it
(`SomeSetupCovers`). `SpannedIsInEffect` is the heart of it: the setups between the
one that starts with the item and the first that ends with it are exactly those in
which it is in effect, because some setup does end where the item ends. It needs
`WellFormed`, an item that starts and does not end before; that this is no empty
restriction is what `setups_every_log` shows. The assumption is `DatesAssumption`.
`LastDateAssumption`, that there is a last date as there is an `Instant.MAX`, is
needed only for the last setup of a site to be found to have no end.

`SiteUpdatesProofs` proves of a site, for every set of site logs and any bounds
(`UpdatesAssumption`):

| Theorem | Property |
|---|---|
| `TypesAreKept` | `TypeOK` |
| `ValidSetupsStayTimeline` | `ValidSetupsAreTimeline` |
| `SetupsEndUpRight` | `SettledSetupsDescribeLog` |
| `RowsAreKept` | `HistoryIsKept` |
| `FailuresStayApart` | `FailuresCostOneUpdate` |
| `CurrentSetupStaysUnique` | `CurrentSetupIsFound` |
| `PeriodQueriesAreRight` | `PeriodsAreFound` |

The invariant `SetupsInv` adds to the properties what a handler in the middle of its
reading has seen (`Reading`): the site log as far as it has come, or, once an upload
has replaced it, anything, but then the event of that upload is pending, so that a
later handler repairs what this one derives. `OneRowEach` says that no two valid rows
hold the same setup; without it a kept row could have an equal beside it. `Counting`
bounds the commits by the uploads. That a commit makes the derived setups the valid
ones, no more and no less, is `SavedRows`; with it the theorems on the derivation
carry over to the table. `FailuresStayApart` takes one invariant more, `FailedForLog`:
a last handler that was rolled back, without a fault and with no event pending, has
read the log of the database and could not place it. By `Reading` a handler that fails
over half of a log leaves an event behind. TLC has checked `SetupsInv` and
`FailedForLog` on the instance of `setups_history`.

### Nodes

`NodeUpdatesProofs` proves, for any site logs, bounds and order of the setups
(`NodesAssumption` besides those of the setups):

| Theorem | Property |
|---|---|
| `NodeTypesAreKept` | `NodesTypeOK` |
| `SetupsHaveOneNode` | `OneNodePerSetup` |
| `NodesEndWithSetups` | `NodesFollowSetups` |
| `NodesContainSetups` | `NodeContainsItsSetup` |
| `OthersWerePassedOver` | `NodelessSetupsWerePassedOver` |
| `NodesCoverSetups` | `NodesCoverCompleteSetups` |
| `SetupsKeepTheirPromises` | all invariants of `SiteUpdates` but its types, and `HistoryIsKept`, in the composition |
| `OverlapsAreOfOnePeriod` (`NodeOverlapProofs`) | `NodesOverlapOnlyInSecond` |
| `NodesDescribeSiteLog` (`NodeOverlapProofs`) | `SettledNodesDescribeLog` |

`NodesInv` has three layers. `RowsInv` adds to `SetupsInv` what nodes need of setups:
that an id refers to one row (`OneRowPerId`), how the dates of a setup and its
equipment lie (`RowsFit`), and that equipment of a valid setup is removed where valid
setups end (`EndsMeet`). `Table` says of both the committed table and that of the
transaction that its nodes are of setups that were there, one each, with periods that
fit. `Done` says what the walk has achieved for the setups it has left behind, and
`LastNode` that the period it compares with is that of a valid node; at the commit
nothing is left, and `Done` is the theorem. An event that was overtaken or rolled back
needs no case of its own: every handler does the whole work again.

`SetupsKeepTheirPromises` carries the properties of the setups over to the program as a
whole. `NodesSpec` does not imply `Spec`, as a fault in the handler of the nodes counts
among the faults and is no step of the setups alone; but `RowsInv` is part of
`NodesInv`, and each step that changes the setups is one of `Next` (`OthersLeaveSetups`).

`OverlapInv`, in `NodeOverlapProofs`, is what `NodesOverlapOnlyInSecond` needs beyond
`NodesInv`. `Recorded` says that equipment in effect when a valid setup begins is in use
at it, and that a setup begins with each of its dates: so all setups that begin in the
common period of a receiver, an antenna and a clock have the same three, and nodes for
the same period (`SameEquipment`). Of two nodes that are in effect at one date one
setup begins in the period of the other (`PeriodsMeetOnlyIfSame`), which is all there
is to say in any order. In the order of time, only a setup that begins with its
equipment, or in the second in which that ends, has a node (`NodesBegin`, `Begins`). In
the walk this rests on `Kept`: the last node lasts at least as long as the equipment of
each setup that was visited, so that a later setup with the same equipment is passed
over, if `compareTo()` says so. An upload keeps it, as rows keep their setups and a row
that is kept is one the handler has recognised, which it never does for equipment
without dates (`KeptRowsAreDated`); without that the first setup could come to lie
behind an earlier one. The later of two setups with one period does not begin with
their equipment, and so begins in that second (`LaterBeginsInSecond`).

`NodesDescribeSiteLog` joins the chain: by `SetupsDescribeLog` a receiver and an antenna
installed at a date are in use at one setup, and by `NodesCoverSetups` that setup is
covered. In any order of the setups, the last of them is: it is without a node only if
a node lasts beyond its beginning, and a node that does so has no end, because beyond
the last setup nothing ends (`LastSetupHasNode`). Conversely the equipment of the setup
of a node is in effect as long as the node (`EquipmentOutlastsNode`) and, as nothing is
pending, in the site log. TLC has checked `NodesInv`, `OverlapInv` and `FailedForLog` on
the instance of `nodes`.

### Configurations of equipment

`EquipmentConfigurationsProofs` proves, for any sites, site logs, settings and bounds
(`ConfigurationsAssumption`, `DatesAssumption`):

| Theorem | Property |
|---|---|
| `ConfigurationTypes` | `TypeOK` |
| `ConfigurationsAreUnique` | `OneConfigurationPerDate` |
| `ConfigurationsSayLog` | `SettledConfigurationsSayLog` |
| `ConfigurationsStay` | `ConfigurationsAreKept` |

`ConfigInv` follows a handler through its transaction: the rows it sees are unique and
go on from the committed ones (`TableGoesOn`: the same rows, with other settings only
where it has used them), each use has its row with its settings unless another item
took the row over since (`UsedHaveRows`), and what it has placed and has yet to place
are together what the log asks for (`HandlerPlaces`). The case that matters is the
commit of one site seen from another (`CommitStep`): a setting that changes was
changed by a use, which makes the configuration a shared one. TLC has checked
`ConfigInv` on the instance of `configurations`.

### Requests

`SiteLogUploadProofs` proves, for any set of uploads (`UploadsAssumption`):

| Theorem | Property |
|---|---|
| `UploadTypes` | `TypeOK` |
| `UploadsReplace` | `ReplacesOneByOne` |
| `StaleMeansOvertaken` | `StaleUploadsWereOvertaken` |
| `FirstUploadsStay` | `LogsAreFirstUploads` |

`OneLog` is the invariant of a site with a site log (there is one row, and each upload
has found one), `NewSite` that of a new site (there are as many rows as accepted
uploads that found none).

`NetworkTenanciesProofs` proves, for any requests, networks and bounds
(`TenanciesAssumption`):

| Theorem | Property |
|---|---|
| `TenancyTypes` | `TenanciesTypeOK` |
| `AcceptedAreStored` | `TenanciesAreTheAccepted` |
| `TenanciesAreUnique` | `NoTenancyTwice` |
| `NetworksAreThere` | `TenanciesHaveNetworks` |
| `UpdatesLostAreBounded` | `UpdatesGiveWayToTenancies` |

All rests on `CopiesAreVersions`: a copy with the version of the site has the
tenancies of the site, because every change of these takes a new version.
`UpdatesAreCounted` bounds the updates that were given up by the tenancies there are,
with one to spare whenever the handler at work is stale.

### Only model-checked

* Liveness (`PendingIsClaimed`, `EveryDeliverySettles`, `SetupsCatchUp`,
  `NodesCatchUp`): fairness and what is enabled are outside what the prover does. The
  states that `SetupsCatchUp` and `NodesCatchUp` lead to are proved right
  (`SetupsEndUpRight`, `NodesDescribeSiteLog`); that they are reached is not.

## 6. Plan

The order is that of importance: the publisher first, as every other behaviour runs
on it; then the chain from a log to setups and nodes; then the races between
requests.

1. `EventDelivery`, `EventPublisher` and their proofs; `SetupDerivation` and
   `SiteUpdates` with their runs and proofs. *Done.*
2. `NodeUpdates`: the handler of `SiteUpdated` composed with the updates of setups,
   with its proofs. *Done.*
3. `SiteLogStore`, `SiteLogUpload`: overlapping uploads of one site, with the
   refinement. *Done.*
4. `NetworkTenancies`: `addToNetwork()` against the handler that saves the same site,
   with its proofs. *Done.*
5. `EquipmentConfigurations`: what handlers of several sites do to the equipment they
   share, with its proofs. *Done.*
6. `NodeOverlapProofs`: when nodes overlap, and the chain from log to node. *Done.*

Positions and `EffectiveDates`, once planned, are not worth a model: see below.

## 7. Not modelled

* The mapping between GeodesyML or SOPAC documents and entities, and the XML
  validation: field by field conversions without state.
* REST endpoints other than the operations named above, and the security
  configuration: they call one operation each.
* Weekly solutions and positions: one handler reads a file the program does not own,
  line by line, into rows of one transaction, and `ResourceServerConfig` denies the
  request that names the file to everyone.
* The order of `EffectiveDates`: only tests sort by it, and `inRange()` serves the
  display.
* The name, the DOMES number and the monument that the handler copies to a site, the
  aspiration of a humidity sensor: written, never read by a decision. The setting of
  `EquipmentConfigurations` stands for all attributes of a configuration at once.
* Changes of a site or a network by `PATCH` through the exported repositories.
* The schema, the deployment templates and the configuration of GeoServer, OpenAM
  and Tomcat: no program of their own. The schema's constraints and remarks are used
  where the models rely on them.
* More than one process on one database: the deployment runs one, and the event
  loop has nothing that would make two safe.
