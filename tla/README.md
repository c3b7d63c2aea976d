# A TLA+ model of Adhesive

Adhesive is a .NET 4 application framework: a life cycle for its services, in-memory
queues between threads, a memcached client with connection pools, a configuration
service with a server, an application monitoring stack on Mongodb and an alarm service
on top of it. This directory holds TLA+ modules of the parts where threads, timers and
people share state, the TLC configurations that check them on small instances, and
proofs, checked by TLAPS, of what matters most for every value of the constants.

To check a run: `tlc -config MCMemoryQueue.cfg MCMemoryQueue`; to check the proofs:
`tlapm MemoryQueueProofs.tla`. `PROJECT.json` lists runs, the mutations each property
notices, the source lines of each definition, findings, hazards and theorems.

## Inventory

| Component | State | Operations | Hard behaviour |
|---|---|---|---|
| In-memory queue (`Adhesive.MemoryQueue.Imp`) | a queue, a mutable configuration, retry counts by hash code, totals | `Enqueue` (any thread), consumer threads, `Dispose` | nested locks, retries against new items, a full queue that sheds, doubles or refuses, adjustments "once", a log line that throws |
| Memcached client: cluster, nodes, sockets (`Adhesive.DistributedComponentClient.Imp`) | node lists, a locator, an idle and a busy list per node | calls, maintenance thread per node, recovery thread, construction | two reader-writer locks taken in both orders, unlocked reads and enumerations, failing I/O everywhere, sockets returned to a pool that was emptied meanwhile |
| Node locator, memcached protocol and lock | a hash ring; nothing; a key with an expiry | lookup; requests and answers; acquire, take over, release | lookup against re-initialisation; leftovers of an abandoned answer; release of somebody else's lock |
| Framework (`Adhesive.Common`) | a status | `Start`, `End`, ordered boot tasks | services that are called before start or after end |
| Alarm service (`Adhesive.Alarm`) and its web console | rows of events, times of the last messages, two message queues | check timers, a clearing timer, users who take over and close events | timer callbacks that overlap, reads and saves with others in between, rows without a version |
| Configuration client and server (`Adhesive.Config.*`) | a cache of items with callbacks; rows with a row version | fetch on miss, sync thread, registration of callbacks; add, save, remove, "changed since" | a fetch that races the sync thread, a callback that is never registered, an update that commits late |
| Mongodb insert service and server (`Adhesive.Mongodb.*`) | queues per type, descriptions sent once; database metadata | insert, submit; insert, queries, maintenance | a swallowed failure that hides the loss from the queue, first use by two threads, metadata rebuilt from a snapshot |
| Application info centre, performance collectors | per-request data, counters | collect and insert | none of its own beyond the insert service |
| WCF wrappers, persistence, domain base classes, web and Silverlight consoles, hosts, installers | that of WCF, Entity Framework, the browser | | not the program's own core logic |

How they interact. Every service reads the framework's status. The insert services, the
alarm's mail and mobile channels and local logging run on memory queues. The alarm's
timers query Mongodb data and share the event table with the web console, which writes it
directly. The configuration client is how the others get their settings and is told of
changes through callbacks. The memcached client is used by the lock and by applications.

What makes each correct:

- *queue*: an item is in one place at a time; nothing is lost without a reason the
  configuration names; nothing is tried for ever; the queue stays bounded; accepted items
  leave; `Dispose` stops the consumers.
- *pool*: one call per socket; a node that failed is not forgotten; connections are
  bounded and not leaked; calls return; dead nodes come back.
- *alarm*: few events for one alarm, no storm of messages, a closed event stays closed, an
  unfinished one is closed when it is due and not before.
- *configuration*: what the synchronisation has gone past is current in the cache and stays
  so, a client ends with the server's values, a callback hears of the changes after its
  registration, and a deleted item stays deleted.
- *insert pipeline*: no object is inserted twice, a type's description goes before its
  data, a queue that was thrown away takes its threads with it, and an object that was
  accepted arrives when nothing happens on the way.
- *lock, locator*: one holder until the expiry; every key has one node, and few keys move.

## Modules

| Module | What it is |
|---|---|
| `ItemDelivery` | abstract: what a queue promises about each item |
| `MemoryQueue` | `MemoryQueueService`, with the framework's status and `Dispose`; the refinement of `ItemDelivery` |
| `MCMemoryQueue` | configurations for TLC, the documented retries |
| `MemoryQueueProofs` | proofs about `MemoryQueue` |
| `RetryBoundProofs` | what `MemoryQueue` guarantees where items share hash codes, which rests on the module above |
| `InsertPipeline`, `MCInsertPipeline` | `MongodbInsertService` and the inserting side of `MongodbServer`, each with its queue; an `ItemDelivery` from end to end |
| `InsertPipelineProofs` | proofs about `InsertPipeline`, the refinement among them |
| `ConfigCache`, `MCConfigCache` | the cache of `ConfigService` and the table behind `ConfigServer` |
| `ConfigCacheProofs` | proofs about `ConfigCache` |
| `MemcachedLocker`, `MCMemcachedLocker` | the constructor and `Dispose` of `MemcachedLocker` on a server |
| `MemcachedLockerProofs` | proofs about `MemcachedLocker` |
| `ClientPool`, `MCClientPool` | `ClientCluster`, `ClientNode`, `ClientSocket` and the calls of `MemcachedClient` |
| `ClientPoolProofs` | proofs about `ClientPool` |
| `PoolBoundProofs` | the bound on a node's connections in `ClientPool`, the exclusion by its locks and its one deadlock; rests on the module above |
| `AlarmEvents`, `MCAlarmEvents` | the timers of `AlarmService`, `HandleAlarmEvent` and `CloseAlarmEvent` |
| `AlarmEventsProofs` | proofs about `AlarmEvents` |

In the component modules, a definition that no action uses and that stands right above
one the actions use is a plausible bug in its place; `PROJECT.json` ("mutants") says which
property notices it.

### MemoryQueue

`queue`, `config`, `pc` and `items` are `memoryQueue`, `configuration`, the place of each
consumer thread in `Consume` and its local list. A step ends where the code gives up a lock
or calls out: `EnqueueChecksStatus` and `EnqueuePuts` are the two halves of `Enqueue`;
`Take` is the section under `lock (memoryQueue)`; `ConsumeSucceeds` and `ConsumeFails` are
the call of `ConsumeAction`; `RetryItem` and `Requeue` are one turn of the retry loop, up
to and from the inner lock, with `errorItemRetryItem` held in between (`pc = "requeue"`).
`PutUnderLock` is what a call of `Enqueue` does under the lock, for producers and retries
alike; `AdjustedConfig` follows the flags in the order of the code, with the log line that
throws between two of them. `offered`, `consumed`, `delivered` and `given`, the configuration
the run began with, are history.

Each item is offered once: an item that is the same object twice in the queue is left out.
`EnqueueForever`, which touches `Queue<T>` without a lock, is not among the configurations.

### ClientPool

`idle`, `busy` and `alive` are the lists and `IsAlive` of each `ClientNode`; `clientNodes`,
`deadNodes` and `locator` those of `ClientCluster`. Threads are the callers, the maintenance
thread of each node, the recoverer and the constructor. The reader-writer locks have no
variable: which `pc` values hold them is `HoldsNodeLock`, `NodeLockFree`, `NoClusterWriter`
and `ClusterWriteFree`. `NodeErrorLists` is the locked half of `NodeError`, the actions
`Destory...` are `ClientNode.Destory`, which takes no lock of the node: a step for each
socket its two loops destroy, for the end of each loop, for each of the two `Clear` calls.
`disturbed` remembers which of the lists others have changed since its loop began
(`WatchesIdle`, `WatchesBusy`). A loop over a changed list throws (`DestoryThrows`); a `Clear`
after its loop drops whatever is there. So a connection that the maintenance adds, or a call
returns, between the loop over the idle sockets and their `Clear` stays open for ever, known
to nobody: `LeaksOnlyInClears` names this place and `Init`'s, and holds only with both. At
the `Clear` of the busy sockets nothing is lost, as a call still has each of them and returns
it. `move` and `enlist`, `store`, `add` are the single operations on a list that calls and
the maintenance make under the node's lock, between which `Destory` may come.

A connection attempt may fail anywhere, a write or read too, and `Acquire` of an idle or a new
socket, which is then closed and used all the same; a read whose peer has closed the
connection spins until the socket is destroyed. Which sockets have timed out is up to the
clock, so any. What one round of the maintenance removes is one step, under the node's lock.

A `ReaderWriterLockSlim` may keep a reader behind a waiting writer. The actions leave the
order open, so a reader's step comes before or after the writer's and safety covers both;
`WaitsFor` (`PoolBoundProofs`) counts such readers as waiting. Left out: the socket object of
an attempt to connect that timed out, which `Destroy` closes only if it is connected; no
list and no call ever refers to it.

### InsertPipeline

The way of objects of one type through four places: `Insert` in its callers' threads
(`call`), the client's queue and its threads, `SubmitData` on the server, which the client's
threads run while they wait for its answer, and the server's queue and its threads, which
insert item by item (`worker`). Queue objects are numbered in the order in which they are
made: `current` is what `submitDataMemoryQueueServices` holds, and every other number is a
disposed queue whose threads may still be on their way. A queue is what `MemoryQueue` is
shown to promise: a set of items, some of which a thread takes and may put back when it
fails, some of which a full queue loses. `opened`, `openLock` and `OpenChecks` to
`OpenFetches` are `CreateMasterMongoServer` with its `lock (masterServerCache)`;
`updating` is the server's configuration thread, which calls back under the write lock of
the configuration (`ConfigService.cs:649`), so that `OpenReads` and `ReadsConfig` wait for
it. `known` is whether the server's configuration names the type, `sent` and `described`
are `SentToServer` and the stored description. The network and the database may fail in
any call: `Send` drops the batch, `StoresItem` the item. A description that cannot be stored
costs the batch it came with (`FailureIsThrown`): the handler in
`InitMongodbDatabaseDescription` is meant to log and go on, but its format string names
`{1}` and gets one argument (`MongodbServer_Master.cs:167`), so it throws, `SubmitData`
rethrows, and neither are the data enqueued nor is the type marked as sent. That keeps
`DescriptionComesFirst`: with a handler that only logged (`FailureIsLogged`) it is violated.

What the model shows of the code: an item that meets a configuration update goes to a queue
nobody consumes, or is dropped by the indexer's exception; the client marks a description as
sent when the answer is back, even where the server does not know the type and returned
without a word (`excused`); and `UpdateClears` and `OpenReads` can wait for each other
for ever, one with the write lock of the configuration, the other with the lock of the
servers. The last is `Deadlocked`, which `OldThreadsEnd` has to excuse.

A request that the server still carries out after the client has given up waiting for it is
left out: `Send` fails before the server sees it, or the answer is lost when all is done. A
write to the database that returns is taken to have been carried out.

### ConfigCache

One setting whose value is a list, and the items that are its elements. A row is its
`RowVersion` and `IsDeleted`: each change takes a new version, so a version stands for the
content. `synced` is `_lastRowVersion`, `batch` the rows a round has got and not applied,
`cache` the entries, the list's `ChildItems` and its `ObjectValue`; what happens under
`_locker` is one step, a call of the server outside it a step of its own. `Put` is
`UpdateConfigItemCache` with the callback it makes, `State` the decision in it, `Applied`
what becomes of the entries. A reader goes through `GetConfigItemValue` and
`InternalGetChildConfigItems` with what it fetched in its hands (`own`, `elems`, `todo`), so
any number of rounds may pass between its fetch and its `Put`. `SyncFails` is a callback or
a fetch that throws in the midst of a round, `ReaderThrows` a callback made on a caller's own
thread, whose exception `GetConfigItemValue` catches. A callback asks for the value again:
`Notified` holds what it may leave behind, the value of the present entries or, where the
list has no children and the server does not answer, the default. `overtaken` and `dropped`
are history, with which the properties name the ways in which the cache does go stale:

- a value computed from older entries is stored after they were replaced (`overtaken`);
- a change between a caller's value and the registration of its callback, or any change
  after an early return that skips the registration, is not told: `SubscriberIsTold` begins
  with the registration, and no property calls what was before it right;
- a subscriber whose callback got no answer has the default, and one whose callback threw
  what it had, until the list changes again (`SubscriberIsTold`);
- the rest of a failed round is not asked for again, as `_lastRowVersion` is already past
  it (`dropped`);
- an item that was fetched, then deleted and synchronised, is put back into the cache by its
  late reader (`OnlyLateAnswersRevive`);
- a new version of the list's own row replaces its entry by one without `ChildItems`: the
  elements stay cached and are the list's no more, and when one is added later it is the
  only one the list has (`UnlistedOnlyByReplacement`).

Left out: the removal of the list's own row, deeper trees, the creation of missing items
with defaults, and the conversion of values.

### MemcachedLocker

A client is one use of the lock, from the constructor to the end of `Dispose`. `entry` and
`entryAge` are the value the server has, by its writer and the time since the writer
computed it; `age` is that of the value a client computed last, `waited` how long it has
been in the constructor. Versions (`UniqueID`) are kept as what matters of them: whether the
one a client has seen is the entry's (`seen`). `Add`, `Get` and `AddAgain` are the three
requests of a turn; each is carried out or lost, and its answer may be lost too, after which
a client goes on asking for a lock it owns already. An `Add` with a version is taken to
store over the entry that has it and over no other, which the locker relies on. `Dispose`'s
`Delete` looks at no owner and may be carried out late. `Crash` leaves the entry behind;
`KeyIsLost` is an eviction, a restart of the server or a change of the node the key lives
on. All clients read one clock. `voided` is history: someone had the lock beyond its lease,
or the key was lost under a holder. After that the code promises nothing, as two clients may
then have the lock.

The test of two lockers (`MemcachedClientTest.cs:452-463`) holds only where the second
starts before the first one's lease, of three timeouts, is over.

### AlarmEvents

`row` is the status column of the events of one alarm configuration; `pc`, `todo`, `at`
and `silenced` are the callbacks of its check timer, `user` what each user has read and is
about to save, `listed` and `lapsed` the list of the clearing timer. A query and the
`SaveChanges` after it are two steps. Entity Framework writes the columns that differ from
what was read, so `StatusSaved` leaves the status alone when an event that was being
handled is taken over again. Time is a choice: `due` holds the channels whose interval is
over, `overdue` the events whose processing time is, and `IntervalPasses` and
`ProcessTimeoutPasses` may happen at any moment. `renewed` keeps apart the `HandleTime` the
clearing timer has read from the one in the row. `burst` is history.

## Runs

| Run | Instance | What it shows |
|---|---|---|
| `queue_safety` | 3 items, 2 consumers, batches of 2, seven configurations: those of the alarm and Mongodb services at the size of a model, all flags, none, `MaxItemCount` 0, incomplete batches | one place per item, bounded queue, at most three deliveries, adjustments once, justified losses, oldest first, and `ItemDelivery` implemented |
| `queue_progress` | 2 items with one hash code, 2 consumers | accepted items leave, `Dispose` stops the consumers, colliding items share their retries |
| `queue_enqueue_twice` | 2 items, 1 consumer, `EnqueueTwice` | *violation*: the strategy drops a batch at its first failure |
| `pool_safety` | 1 node, 2 callers, 4 sockets, `Min = Max = 1`, connections may fail | one call per socket, failures noticed, bounded pool, leaks only where `Init` or `Destory` clears a list |
| `pool_progress` | 1 node, 2 callers, 2 sockets, connections succeed | calls return, dead nodes recover |
| `pool_recovery_stops` | the same, connections may fail | *violation*: a deadlock ends all recovery |
| `insert_pipeline` | 2 items, 1 thread per queue, 1 configuration update on either side, room for 1 item at the client and 2 at the server | a type's description before its data, no item inserted twice or back from the dead (`ItemDelivery` with one attempt), threads of dropped queues end, undisturbed items are stored |
| `config_cache` | a list of 2 elements, 4 row versions, 1 reader, 1 subscriber | synchronised items are current, a stale value has a named reason, a registered subscriber is told of every change, the cache converges |
| `locker` | 3 clients, timeout 1, a lease of 3 | one holder within its lease, takeover of stale entries only, `Dispose` deletes its own, every caller is answered |
| `alarm_overlap` | 3 rows, 1 group with both channels, 2 callbacks, 1 user | bounded events, throttled messages |
| `alarm_users` | 2 rows, 1 callback, 2 users | a closed event is revived by a stale take-over only; overdue events are closed |
| `alarm_closed_early` | 1 row, 1 callback, 1 user | *violation*: the clearing timer closes an event that was just taken over again |

Bounds. Three items and a batch of two make a full and an incomplete batch, a full queue
with both old and new items in it, and a retry that meets another consumer's. Two callers
are enough for every pair of steps in the pool; four sockets are what the lists of the node
(`Max + Min`) and two callers can refer to at once, and a socket nobody refers to is reused,
so every attempt finds one and the number is no limit on how long a run is; `pool_progress`
has two, and an attempt that finds none free waits until one is. One node suffices since
nodes share only the cluster's lists, which a second caller already contends for. Two
callbacks, one user and three rows let events pile up to the bound and one row beyond it. Of
the lock, three clients are a holder and two that race for its stale entry; ages are counted
up to one above the lease, beyond which no comparison tells them apart, and a timeout of one
unit leaves room for every order of the lease's end, a takeover and a late `Delete`. Four
versions (`MaxVersion`) let a list of two elements be filled and one of them be removed and
added again, or changed while an older answer is still in a reader's hands; a reader and a
subscriber are two threads that fetch against the synchronisation and each other. Two items
make a batch and an overflow of the client's queue, and one update (`MaxUpdates`) meets
every step of either side; it gives each side a second queue beside the dropped one. With
one thread per queue the threads of the two queues of a side and the other side's still meet
on the server. `MaxVersion` and `MaxUpdates` are the only bounds on how long a run is;
counters elsewhere only grow with items.

`CHECK_DEADLOCK FALSE` stands in every configuration because these systems may stop: all
items may be consumed and the consumers stopped, no event may be active, the table may
change no more and nobody ask, and the deadlocks of the pool and of the configuration update
are there, as `pool_recovery_stops` and `Deadlocked` show.

Fairness. In `MemoryQueue` each step of a thread is weakly fair, since the runtime schedules
threads and a monitor that is free is taken by someone who waits; producers, the framework's
end and `Dispose` are not fair. In `ClientPool` a caller's steps within a call and the
recoverer's are strongly fair, since a waiter of a `ReaderWriterLockSlim` is woken when the
lock is free again; maintenance and construction are weakly fair, and a busy socket of a
spinning read times out in the end (`MaxBusyTime`); nobody has to make a call. In
`InsertPipeline` a call of `Insert`, each thread and a begun update are weakly fair, as the
runtime schedules threads. In `ConfigCache` only the synchronisation, a loop with a sleep,
is fair; in `MemcachedLocker` a constructor goes on and time passes, but nobody has to give
the lock back. In `AlarmEvents` the clearing timer fires each minute, and saving an event
does not fail for ever; users and alarms need not act.

## Findings

1. `EnqueueTwice` is documented as "重新入列两次" and never retries: the condition names
   `EnqueueTwiceAndLogException` on both sides of its `||` (`MemoryQueueService.cs:209`).
2. A caller that cannot connect holds the node's lock and waits for the cluster's
   (`ClientNode.cs:343`, `ClientCluster.cs:22`), the recovery thread holds the cluster's and
   waits for the node's (`ClientCluster.cs:57`, `ClientNode.cs:172`): dead nodes are not
   checked again.
3. The clearing timer decides on the `HandleTime` of its query and closes an event that was
   taken over again meanwhile (`AlarmService.cs:40-61`), with the record that it was not
   finished within the processing time.

## Proofs

From the named assumptions on the constants (`ConstantsAssumption`: hash codes are a
function of the item, batches are not empty; `AlarmAssumption`: finite sets, at least one
user; `LockerAssumption`, `ConfigAssumption` and `PipelineAssumption`: a positive timeout,
the list is no element of itself, finite sets, queues with room for an item;
`NoneAssumption`: what stands for nothing is no value, of the pool, and no thread, of the
pipeline; `PoolAssumption`: the kinds of threads are apart,
`Min <= Max`, finitely many sockets), for every number of items, threads, nodes, sockets,
clients, elements, groups, rows and users:

- `MemoryQueueProofs!TypeCorrect`, and *`QueueIsBounded`*. Neither is inductive by itself:
  a retry count stays within its limit only if nobody counts between the two locks of a
  retry. The invariant `QueueInv` joins types and bound with `RetryLockHeld`: one consumer
  at most is between the locks, and its item's count is below the limit.
- `AlarmEventsProofs!TypeCorrect`: with the types, only events being handled are overdue,
  and the clearing timer's list holds only events that are being handled or closed.
- *`ItemsStayInOnePlace`*. `ItemInOnePlace` with the types is inductive; each action moves
  items between the producers, the queue and one batch, and lemmas about subsequences
  (`SubSeq`, `Tail`, `Append` keep a sequence free of repetitions) carry the proof.
- *`AtMostThreeDeliveries`*. Where hash codes do not collide, `AttemptsMatch` ties each
  item's deliveries to its retry count, depending on where the item is: equal to it in the
  queue, one more while it is held after a failure. It rests on `ItemInOnePlace` and on
  `RetryLockHeld`, for otherwise two failures could count as one.
- *`ImplementsDelivery`* and *`LossIsJustified`*: the refinement of `ItemDelivery`, where hash
  codes do not collide. A step that touches the history is an offer or a consumer's call,
  which is one attempt at each item of its batch; others are a loss of the items they drop,
  or a stutter. That none is tried a fourth time and none comes back is `AttemptsMatch` with
  `ItemInOnePlace`; for a loss the action at hand says which strategy gave the item up.
- *`OldestFirst`* and *`AdjustedAtMostOnce`*. The first follows action by action from what
  `Put` may do to a queue; the second compares with `given` and is inductive, as an
  adjustment removes its own flag in the step that makes it.
- *`RevivedOnlyByStaleRead`*, action by action: the timers and callbacks write rows they hold
  under a state that is not closed, or close them.
- *`MessagesThrottled`*. Nothing is locked between the check of the last message's time and
  its update. The invariant `ThrottleInv` counts the messages already sent in the interval
  together with the callbacks past the check: a channel that is due has sent none, and a
  callback that sends moves from one count to the other.
- *`ActiveEventsBounded`*. Rows that are not closed may exceed the callbacks, because a user
  may revive a closed one. `ClaimsBounded` counts rows that are active or about to be
  revived, and callbacks about to insert. A callback is about to insert only if it saw no
  active row, and then some user is not reviving anything (`SomeReadOpen`: were all users
  about to, the row the last of them read would still be open, as nobody is left to handle
  it). Hence the bound is callbacks plus users, less one.
- *`ExclusiveWithinLease`*, *`TakenOverOnlyWhenStale`*, *`DeletesItsOwn`*. A client obtains
  the lock only with an entry of its own, so `HolderWroteEntry`: until a lease is voided,
  whoever has the lock wrote the entry, which is as old as its value and not stale. It needs
  `OnlyStaleIsSeen`: whoever keeps the version of the present entry found it stale, and an
  entry that changes takes its version with it; so no holder is overwritten.
- *`LiveItemsAreCurrent`*, *`OnlyLateAnswersRevive`*, *`UnlistedOnlyByReplacement`*. Versions
  carry the proof: `TableLeads` (nobody is ahead of the table), `BatchIsGenuine` (what a
  round has got is the row as it is, unless a later round will bring it again) and
  `AnswersAreLate` (what a reader holds is older than the row's deletion). `State` compares
  versions, so a late `Put` of an older one changes nothing, except where the entry is gone.
- *`ValueIsCurrent`* and *`SubscriberIsTold`*. A change that reaches the cache takes the
  value away, so the first is inductive once it is known (`ListStays`) that the list's entry
  stays where it is: while there is none, nobody has stored a value or registered, and a
  round that fails before it can fetch the list then leaves nothing behind. The second looks
  at one step: entries change only in a `Put` (`EntriesChange`), and what the callback of a
  `Put` leaves agrees with the entries because a fill adds children only where there were
  none (`RefreshedAgrees`).
- *`DescriptionComesFirst`*. `DescriptionLeads` extends it from the queues to what threads
  carry: whoever is past the point where the description is stored, or began without one
  because it was sent, knows that the server has it, or that the server was given it when its
  configuration did not name the type.
- *`InsertedAtMostOnce`*, the refinement of `ItemDelivery` with one attempt. An item is in one
  place (`OnePlace`: its caller, one queue or one thread's hands), and wherever it is, nobody
  has tried to insert it (`Untried`), because a batch is put back whole or not at all
  (`Roles`); `QueuesAreLeft` counts queue objects against updates. Each step then maps to one
  of `ItemDelivery` for one item, to several for a batch that is lost, or to a stutter.
- *`SocketsAreExclusive`* and *`LeaksOnlyInClears`*. `Owned` says more than the first: a
  socket is in one list, of the node its user works on, only the one a caller has just chosen
  is idle and in use, and each busy one is in some caller's hands. It survives the emptying
  of the lists because a new connection takes a socket nobody refers to, neither a list nor a
  call. For the second, one thread at most is in `Destory` (`DestoryAlone`, the write lock of
  the cluster), and the idle sockets its loop has passed are destroyed until another thread
  changes the list (`PassedStay`): then its `Clear` loses no open one. The `Clear` of the busy
  sockets loses none by `Owned`; the other steps are looked at one by one.
- *`DeadNodeIsNoticed`*. A node is taken off the dead nodes only when it joins, so it needs
  `JoinsAlive`: between its revival and its joining, a failure of it is in the hands of a
  thread that will report it.
- *`PoolBound`*. What a thread may still add has to be counted: a node's connections with
  those `Init` has left to add stay within `Max + Min` (`FillsFit`), with those the
  maintenance has left, within `Min` (`RefillsFit`), and a caller that is past its look at
  the lists finds room for its socket (`CallsFit`, `Room`): while it has the node's lock
  they only shrink, by a `Destory`, which does not take it. The lock of the node is held by
  one thread at most (`LocksExclude`), and `Init` runs once at a time on a node: what is
  still to be constructed cannot have failed (`FreshIsUntouched`). The first of two groups
  of lemmas says what a step may do to a node's lists (`ListEffects`), the second what it
  may do to a thread (`ThreadEffects`).

- *`RetriesBoundedPerHash`*, where hash codes do collide. Each item offered brings three
  calls of `ConsumeAction` for its code. `CreditInv`: while items of a code are in the
  service, the calls made, one more for each item that waits for its call and two for each
  item there, less the retries counted so far, do not exceed those brought. A call is one
  that was waited for, a retry waits for one more and counts it, and the failure that drops
  an item takes the item's two away with the count it resets. The bound holds for the code,
  not for the item: one that shares its code may be tried more than three times, or be
  dropped at its first failure, when another's failures were counted before.
- `SharedHashesDeliver`: the refinement of `ItemDelivery` without the assumption on hash
  codes, with `3 * M` attempts where `M` items at most share a code.

Other theorems state what no run checks by name; TLC found each of them to hold on the run's
instance before it was proved.

- `LocksAreExclusive` (pool). The model has no lock variables, so what its guards achieve is
  proved: one thread at most has the lock of a node, also where it reports a failed
  connection under it; one at most writes the cluster's lists, and no other than the recoverer
  while that has the cluster's lock.
- `OnlyRecoveryCanDeadlock`. `WaitsFor` says which thread has the lock another one needs to
  go on, readers behind a waiting writer included. Outside `RecoveryDeadlock`, whoever waits
  does so for a thread that goes on, with
  two more in between at the most: caller, thread that reports under a node's lock, recoverer,
  thread that has the node's lock. `ENABLED` is out of the provers' reach; TLC has confirmed
  on `pool_safety`'s instance that every thread that waits for nobody, and is neither
  at rest, finished, not yet started nor spinning in a read, has a step. With
  `RecoveryDeadlockIsForGood` this says of finding 2 that it is the only deadlock, and
  that it is final where the recoverer waits at the start of `Init`: neither the lists of
  nodes nor the two threads ever change again. Later in `Init`, the recoverer's next
  connection may still fail before it asks for the lock.
- `OnlyUpdatesCanDeadlock` and `DeadlockIsForGood` (pipeline) say the same of `Deadlocked`,
  from `LockIsHeld`: the lock of the servers belongs to whoever reads the configuration.
- `LossesHaveCauses` is the safety core of `ItemsAreStored`: while nothing has happened to the
  two sides, an item of a type the server knows is at its caller, on its way or stored. The
  invariant `Quietly` adds what keeps it so (`Steady`): there is no update under way, a queue
  that was found stays the side's queue, and a thread's batch is still in its hands or stored.
- `EntriesOnlyRise` (configuration). The version of a cached entry never goes back, although
  late readers and rounds store what they fetched at any time; the entry disappears only in a
  round that brings a newer deletion. It follows from `IInv` and the comparison in `State`.
- `ClosingsAreJustified` (alarm) says how far finding 3 goes: an active event is closed by a
  user who was closing it, or by the clearing timer when it is overdue or was taken over again
  since the timer's query. `LapsedForAReason` follows the timer's list from query to save.

Only model-checked: liveness under fairness, which is out of the prover's reach:
`EveryItemLeaves`, `DisposeStopsConsumers`, `CallsReturn`, `DeadNodesRecover`,
`OverdueEventIsClosed`, `CallersAreAnswered`, `CacheConverges`, `OldThreadsEnd` and
`ItemsAreStored`. All other properties of passing runs are theorems.

## Not modelled, and why

- *JavaScript.* The repository's `.js` files are libraries it carries along (jQuery,
  Highcharts, Microsoft's Ajax and validation scripts); the program is C#, and all of the
  map's lines are of C# files.
- *Left out of a modelled component*: the `EnqueueForever` strategies, which race inside
  `Queue<T>`, whose outcome depends on its internals and which no configuration uses
  (`MemoryQueueService.cs:206`); the matching of answers to requests by position
  (`ResponsePackageCreator.cs:34`), as the pool keeps no contents; the disposal of a
  cluster, which stops its threads with `Abort`; the slave's copy of the Mongodb server's
  inserting code; in the alarm service the counter `AlarmTimes`, the process records and
  re-initialisation; overlapping transactions on the configuration's table: the reads of
  items and children ask for `ReadUncommitted` (`ConfigServer.cs:74`, `:216`, `:232`), but
  what the synchronisation fetches (`ConfigServer.cs:278`) runs under the database's default
  isolation, which the repository does not set.
- *Left for later*: the locator's hash ring, of which the pool needs that it returns one of
  the nodes it was initialised with (after the constructor, the cluster calls it under its
  lock). Its ends are exchanged: a hash below all keys goes to the last key and not to the
  next one (`ClientNodeLocator.cs:55`), so a change of the first key should move keys
  between two nodes that stay, and a property has to allow for it. Also `Bootstrapper`; the
  maintenance of Mongodb metadata, which is rebuilt from queries; deeper trees of
  configuration items.

Left out for good: WCF, Entity Framework, Windows counters and the user interfaces, whose
state is not the program's own; the text of mails, logs and state reports.

## Plan

In this order, were the work to go on: the locator as functions on bounded rings against a
reference; `Bootstrapper` with services that are called before it has started; deeper trees
of configuration items.
