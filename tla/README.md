# SOD: a verification development

TLA+ models of SOD (simple outlier detection), the TLC configurations that
check them on small instances, and TLAPS proofs of what matters most for
instances of any size. Everything is translated from the Go source; paths below
are relative to the repository.

    tlc -config MCIQueue.cfg MCIQueue        # a run, see "Runs"
    tlapm IQueueProofs.tla                   # a proof module, see "Proofs"

## 1. The system

A client posts metrics (an entity, a vector, a time) to `/collect`. The
dispatcher puts each into the queue of its entity; the workers of the entity
compare it to the entity's dataset with the local outlier factor, raise an alert
if it is an outlier, append it to the dataset and write it, through a
write-behind buffer, to a bbolt store from which the datasets are rebuilt at the
next start.

    collect handler --Collect--> collectCh --collector--> iqueue (per entity)
                                                             | Receive
                                   normVectors, alerts <-- process (2*NumCPU workers)
                                                             |            |
                                        dbTxExecutor <-write-+            +-Predict/Append-> lof -> gbkd | brute
                                             | AppendMany                                         |        |
                                             v                                                 kdtree   avltree
       dbScheduler --count/find/delete--> metric store (bbolt)                                 pqueue, geom
                                             | FindAll at the start
                                             +--> bulkLoad --> predictors, collectCh

### Inventory

| Component | State | Operations | What is hard | What makes it correct |
|---|---|---|---|---|
| `pkg/iqueue` | two channels of capacity 1, an unbounded list | Send, Receive, goroutine Loop | the front is handed out before it is removed; `select` | FIFO, nothing lost or doubled, sender never stuck |
| `dispatcher/db_tx_executor.go` | buffer, mutex | write, flush goroutines, ticker, shutdown | concurrent flushes, failing appends, death of the process | each write is in exactly one place |
| `metric/database` | one bucket per entity, one bucket of keys | AppendMany, Delete(Many), FindAll, FindByEntity, CountByEntity, Keys | an entity is listed only with the first bucket | what was stored is found |
| `dispatcher/db_scheduler.go` | none but its place in a pass | two passes per tick | each call is its own transaction; rows change in between | only processed, oldest or outdated rows go; limits hold in the end |
| `dispatcher/manager.go` | predictors, queues, normVectors, closed | Collect, Predict, process, bulkLoad, shutdown | many workers per entity, look-up and installation under different locks, restart | handled, appended and alerted once; a restart rebuilds the datasets |
| start and shutdown (manager, queue, executor, alert, scraper, main) | contexts, collectCh, shutdownCh, the mode of the service | start of the parts, collector, drain of the lists, messages, the next start | a list that two goroutines empty, a reader that waits for a writer that waits for readers, three goroutines that end the process first | no send on a closed channel, nothing vanishes, the process ends |
| `predictor/knn/gbkd` | timesTree, two k-d trees, counters | append, KNN, five duties of a scheduler | trees replaced without the lock, a lock that is not released | removed points leave the search, the size comes down |
| `predictor/knn/brute`, `pkg/avltree` | a tree of items by time | append, KNN, two clean-ups | equal times, rotations after removals | order, length, heights, the oldest go, the nearest are found |
| `pkg/kdtree`, `pkg/pqueue`, `internal/geom` | a k-d tree and its length | Insert, Balance, Build, KNN | pruning with equal coordinates | the pruned search misses nothing that is nearer |
| `predictor/lof` | none | Predict: Len, then searches | infinite densities, quotients that are not numbers; the dataset changes between the searches | a far vector is an outlier, a repeated one is not |
| `internal/alert` with its store | alerts per entity, notifier's place, stored alerts | Notify, notifier's goroutine, bulkLoad, shutdown | workers notify while shutdown stores entity after entity; death of the process in between | each outlier in memory, in one stored alert, or lost with a process |
| `internal/scrape` | its place, the dispatcher's context | Run, ticks, shutdown | a message before the dispatcher is stopped; an error channel nobody closes | its message is the first |
| handlers, server, setup, config, logging, geom.Point, mocks | - | input and output, arithmetic | - | not modelled |

## 2. Modules

| Module | Models | State and actions |
|---|---|---|
| `FIFO` | what a queue promises | histories `sent`, `rcvd`; Send, Receive |
| `IQueue` | `pkg/iqueue/queue.go` | channels, list and Loop's place; one action per channel operation or list operation of Loop |
| `TxExecutor` | `db_tx_executor.go` | buffer, started flushes, batches in flight, the flusher's place, the mutex; a write is the number of its call |
| `MetricDB` | `metric/database/metric.go` | operators from the store before to the store after one transaction |
| `DBScheduler` | `db_scheduler.go` on `MetricDB` | one action per call of the store, its failure, plus what flushes and workers do to the store, and a clock |
| `Dispatcher` | `manager.go`: Collect, Predict, process, bulkLoad | composes `TxExecutor` (INSTANCE, all its variables), `MetricDB` and the abstract FIFO queue; one action per step of process between two points where another goroutine can come in |
| `Outbox` | what a notifier promises that sends nothing | the number of notifications, held, kept and lost ones; Accept, Keep, Lose |
| `Alert` | `alert/alert.go`, `alert/database/alert.go` | alerts, the goroutine's place, Run's place, the store; a notification is the number of its call |
| `Scrape` | `scrape/scrape.go` | the goroutine's place and both contexts |
| `Shutdown` | `main.go` (run), manager, queue, flusher from start to end, in both modes, and the next start | composes `Alert` and `Scrape` (INSTANCE, all their variables) with channels, lists, Loop, locks, workers and the messages to `shutdownCh` |
| `AVLTree`, `PQueue` | `pkg/avltree`, `pkg/pqueue` | the trees of each height, functions from tree to tree that call themselves for the children, operators on sequences |
| `Brute` | `knn/brute` on `AVLTree` and `PQueue` | one action per section under the mutex |
| `Lof` | `predictor/lof` on `Brute` | Predict as an operator: sums of distances, densities multiplied out |
| `Geom` | `geom/distance.go` | vectors as functions of their dimensions, the three distances |
| `KDTree` | `pkg/kdtree` on `Geom` and `PQueue` | the tree as a map from data points to places (the way from the root), the slices of a tree that is being built, the search with its path and queue; Insert, Balance, Build, a cut of a slice, the new root, KNN, each walk down and back by one node, and its return |
| `Dataset` | what a dataset promises that is searched in a tree of its own | what was added, is retained, is searched, comes too late for the build under way; Add, Remove, Start, Refresh, Rebalance |
| `Gbkd` | `knn/gbkd`, the calls of `lof` | retained and searched data points, the copy the scheduler works on, counters, the lock; the trees are sets here |
| `MC*` | instances for TLC | values of the constants |
| `*Proofs` | theorems | see "Proofs" |

How they fit together: `IQueue` implements `FIFO`, which justifies the sequences
`queue[e]` in `Dispatcher`. `Dispatcher` is composed with `TxExecutor`: a step is one of the buffer
or leaves its variables alone, so what `TxExecutorProofs` proves holds of the buffer in
the dispatcher (lemma `DispatcherUsesBuffer`). In the same way what `ShutdownProofs`
proves of `Alert` by itself holds of the service (lemma `ServiceUsesNotifier`).
`Alert` implements `Outbox`, directly and inside `Shutdown`, and `Gbkd` implements
`Dataset`. `Shutdown` repeats the steps of Loop, because at
shutdown workers reach into its list from outside, which `IQueue` excludes.
`Gbkd` takes its trees as sets of data points; that the trees behave like that
is what `KDTree` (`HoldsStored`, `NearestFound`) and `Brute` (`InTimeOrder`,
`OldestGo`) show, for distinct times.

`PROJECT.json` maps every definition to its lines. Definitions whose comment
starts with "Mutant" are deliberate errors, used to check that a property
notices them; no specification refers to them.

Conventions. Variables whose comment says "history" exist for properties only.
A goroutine is a record with a field `at`, or a string, that names the statement
it is about to execute. A call that may fail has an action or a disjunct for the
failure. A section under a mutex that ends without blocking is one step.

## 3. Runs

| Run | Distinct states | Question |
|---|---|---|
| `MCIQueue` | 1 392 | Is the queue a FIFO queue that delivers everything and never stops a sender? |
| `MCTxFlush` | 3 806 | Is every write in exactly one place under concurrent flushes, ticks, failures, shutdown and crashes, and does it leave memory? |
| `MCSchedulerSize` | 95 194 | Does the clean-up delete the right rows only, and enough of them, while late rows overwrite others? |
| `MCDispatcher` | 2 666 112 | Until it is told to stop: is each metric handled, appended and alerted once by racing workers, with a crash and a restart, do the datasets agree with the store though flushes overtake each other, and does a restart finish what was interrupted? |
| `MCDispatcherReadOnly` | 184 200 | With data not added, Predict racing a worker to create the predictor of its entity, and failed searches that keep the read lock: does every analysis end that does not wait for that lock? |
| `MCShutdown` | 307 385 | In both modes, through start, shutdown and next start: does the process end, without a send on the closed channel by Collect, without losing a metric between channels and lists, or an outlier between memory and store? |
| `MCBrute` | 31 702 | Do tree, clean-up and search do what they should with equal and unordered times, and is the verdict of `lof` right for far and for repeated vectors? |
| `MCKDTree` | 662 609 | Does the pruned search find the nearest, after any inserts, balances and builds? |
| `MCGbkd` | 108 252 | Do removed points leave the search, does the size come down, when does the lock stay taken, and what may a search miss or find too much? |
| `MCSchedulerPanic` | violation | `NeverPanics` |
| `MCDispatcherBulkLoad` | violation | `BulkLoadIsComplete` |
| `MCGbkdLost` | violation | `RetainedIsSearched` |

`TypeOK` of `IQueue`, `TxExecutor`, `DBScheduler` and `Gbkd` is a theorem; the runs no longer repeat it.

### The properties

*Queue.* `NothingLost` equates what was sent with what was received, followed by
the contents of channels, list and Loop's hands. `ImplementsFIFO` is the
refinement of `FIFO`; `DeliversAll` adds its fairness provided workers receive;
`SenderNotBlocked` needs no receiver at all.

*Buffer.* `BufferIsLatest`: the buffer is exactly the most recent writes in
order. `NothingMissing` and `NothingTwice`: buffer, batches, store, failed
batches and what died with the process partition the writes.
`FullBufferIsFlushed`: one started flush for every write above the size.
`Settles`: what is buffered or in flight leaves memory, except after shutdown.

*Clean-up.* `OnlyProcessedDeleted`, `KeepsNewest`, `DeletesOnlyOutdated` are
action properties that relate what is deleted to what was fetched earlier. Flushes are not
ordered, so a row that was fetched as processed may say new again when it is deleted, and
a deleted one may come back. The properties therefore speak of metrics
that were processed (`WasProcessed`), whatever their rows say by now.
`LimitsEnforced` is liveness, for listed entities.

*Dispatcher.* `OnceUntilStop`: until the process is told to stop, or dies, a metric is
handled, appended and alerted at most once. At the drain of a shutdown it is not so (observation 20).
`WarmUpIsBounded`: what was stored and what was appended without a verdict
(`Unjudged`) exceed the minimum by at most one per other worker, the price of checking
the length without a lock; nothing is appended without a verdict when what was stored
was enough (for an entity that has its predictor from the store; without one, two
workers may create a predictor each, and a restart joins their datasets).
`DatasetIsStored`: when all work is done and no append failed, a metric of a dataset has a
processed row, unless its rows were stored out of order (`Overtaken`: then it is read back as
new, observation 1), and a processed metric of a listed entity is in a dataset, unless it
is an outlier that is not to be added. `StoredIsFinished`: then no row of a listed entity says new, but for
overtaken ones, failed predictions and what is not to be kept: a restart finishes
what the death of the process interrupted. `EventuallySettled`: each collected
metric's final row is appended, unless its prediction failed, it is not to be kept, or
the worker that has it, or every worker that might take it, waits for a read lock that
a failed search kept (`Stuck`, observation 12).

*Start and shutdown.* `NoSendOnClosed`: whoever is inside Collect does not meet a
closed channel. `NothingVanishes`: what was accepted is in a channel, a list,
someone's hands or processed. `Terminates`: once the context is done the process
ends, even when the collector waits for a caller of Collect that waits for it, or
workers wait for the lock of a buffer whose last append failed; the only exception
is a scraper that a tick found first (observation 14). `ScraperEndsFirst`: in the
mode SCRAPE nobody's message overtakes the scraper's. `ImplementsOutbox`,
`StoppedIsKept`: the lock of the notifier separates Notify from
shutdown, though the look at `closed` and the call of Notify are apart; each
outlier notified of is in memory, in exactly one stored alert for good, or was lost
with a process; and when the notifier reports success, all it was told of by then
is stored.

*Datasets.* `TypeOK` of `Brute` includes the stored heights (`Tree` has only nodes whose
height is that of their children) and the length of the AVL tree, that of `KDTree` the split along each dimension. `InTimeOrder`, `OldestGo`
and `NearestFound` are about `brute`; `LofVerdict` says that a vector farther from all
stored ones than these are from each other is an outlier, that one stored at least
k times is not, and that there is no verdict with fewer than k points or k below three, over every
dataset that appends and clean-ups can leave; `HoldsStored` says that the k-d tree
holds the points it was given and counts them right, and its `NearestFound` that none it holds is nearer
than those a search returns, though the search leaves out sides of the tree. In `Gbkd`,
`StaleIsCounted` says that anything searched but not retained is known to
the counter that triggers the next build, `RemovedLeaves` and `SizeIsEnforced`
are its consequences over time, and `LockIsReleased` says when the read lock can
stay taken. `ImplementsDataset` is the refinement of `Dataset`: whatever becomes of the two
trees, the copies and the counters, a data point that is added is searched at once;
one that is retained leaves the search only if it was added between a copy and its switch
(finding 3 is that this happens at all); one that was removed is searched only until the
refresh that is due.

### Bounds, and why they are enough

* `MCIQueue`: two values, four sends. Five places (two channels, Loop's hands,
  two elements of the list) are occupied at once, so each order of Loop's
  operations against each other occurs.
  After the last send nothing keeps Loop from the list: `DeliversAll` says nothing of a
  stream of sends that never ends, which `select` may prefer by chance.
* `MCTxFlush`: flush size 2, four writes: two flush goroutines, the ticker and
  the shutdown hold batches at once, with writes above the flush size pending.
* `MCSchedulerSize`: three metrics of one entity (the listed one; another would never be
  cleaned), two of them created at the same instant; each is written as new and as
  processed in either order, and may be deleted by a worker; limit one item and one
  unit of age, one failing call, clock to 3.
  `MCSchedulerPanic` needs no failure.
* `MCDispatcher`: three new metrics and two stored ones of one entity, two
  workers, a minimum of three (the constant in `process`), four writes, one
  crash. The dataset reaches the minimum while both workers are at work; a crash
  comes between every two steps. The flush size is two, so that full buffers start
  goroutines that overtake each other and the ticker: a row "new" lands after the row
  "processed" of its metric, and `StoredIsFinished` fails without its exception for
  that. `SearchLeaks` is off: a lock that is kept only disables appends, so the
  behaviours without it are all that a safety property can see in the others.
  `MCDispatcherReadOnly` has it on, a second entity without a predictor, and
  `allowAppendData` off; its flush size is as large as its number of writes, so
  the last write starts a flush and what comes before waits for the ticker.
* `MCShutdown`: one client's metric, which is an outlier, one reloaded metric, two
  workers, both modes, the real capacities 2 and 3 of `shutdownCh`, two starts. Two
  workers are the fewest that drain one list together. The second start happens
  only when an alert is stored, since it is like the first otherwise, and reloads
  no metrics. There is one entity: more than one is covered by the theorems of
  `ShutdownProofs`, which hold for any number of metrics, entities, workers and starts.
* `MCBrute`: six data points with three times, at most four kept: rotations to both
  sides, equal times on both sides of a node and several removals at once. Three of
  the six vectors are equal, as many as k, so that densities are infinite; verdicts
  are asked for every vector and for one three times as far as the farthest (`MCQuery`).
* `MCKDTree`: up to six points of two coordinates that coincide, share one coordinate or
  differ in both; trees of depth six after inserts, with cuts that leave equal
  coordinates on either side after builds; k is 1 and 3, so that the queue overflows; three
  queries, one of them on a point; three distance functions.
* `MCGbkd`: four data points, one of which is there from the start and one of which
  ages; one is kept; two workers append; one client searches with a vector of
  a smaller dimension.

Deadlock is checked in `MCKDTree`. The others switch it off because they stop by
design: the client has no more metrics, the clock or the number of writes is at
its bound, the process has ended, or (`MCGbkd`) the lock is held for ever.

### Fairness

Weak fairness of a goroutine's actions says that the Go scheduler runs a
goroutine that can run, and that bbolt returns. Tickers tick. Strong fairness
appears where `select` chooses at random among ready cases: `Done` in
`TxExecutor` (a tick is not preferred to a done context for ever), `TickSize` and
`TickBuild` in `Gbkd`. Nothing is assumed of clients, signals, crashes or
failures. In `Shutdown` only main, the collector, Loop, the flusher and the scraper
have to run on: `Terminates` needs neither the workers nor the notifier, whose
messages may never come, nor the scraper's ticks. `DeliversAll` has the receivers' fairness as its hypothesis, and
`RemovedLeaves`/`SizeIsEnforced` have `[](leaked = {})` as theirs: with the lock
taken the scheduler goroutine is stuck.

## 4. Proofs

| Module | Theorem | For every |
|---|---|---|
| `IQueueProofs` | `TypeCorrect`, `ControlCorrect`, `NothingIsLost`, `QueueImplementsFIFO` | set of values, number of sends |
| `TxExecutorProofs` | `TypeCorrect`, `BufferHoldsLatest`, `FullBuffersAreFlushed`, `NothingIsMissing`, `NothingIsTwice`, `BatchesAreAscending`, `BufferIsAlwaysNewer` | flush size, number of writes |
| `DBSchedulerProofs` | `TypeCorrect`, `WaitingIsNeverDeleted`, `YoungAreNotDeleted`, `NewestAreKept` | metrics, entities, creation times, limits, number of failing calls |
| `GbkdProofs` | `TypeCorrect`, `StaleIsAlwaysCounted`, `LockIsAlwaysReleased`, `GbkdImplementsDataset`, `RemovedNeverReturns` | finite set of data points, workers, clients, maximum |
| `DispatcherProofs` | `DispatcherAccountsForRows`, `TypeCorrect`, `HandledOnceUntilStop`, `DatasetIsAlwaysStored`, `RestartFinishes`, `WarmUpIsAlwaysBounded`, `NothingIsForgotten`, `OneEntityIsLoaded` (this one with the hypothesis of one entity) | metrics, entities, workers, flush size, minimum, options, number of crashes |
| `KDTreeProofs` | `TypeCorrect`, `StoredHeld`, `NearestFirst` | set of data points, number of dimensions, integer vectors, queries, k |
| `BruteProofs` | `TypeCorrect`, `TimesInOrder`, `OldestAlwaysGo`, `NearestFirst`, `VerdictIsRight` | number of data points, times, vectors, queries, limits, k |
| `ShutdownProofs` | `AlertInvariant`, `StoppedIsAlwaysKept`, `NotifierImplementsOutbox` (of `Alert` by itself) | set of entities, number of notifications and of starts |
| | `TypeCorrect`, `ServiceKeepsWhatItStopped`, `ServiceImplementsOutbox`, `NeverSendsOnClosed`, `ScraperAlwaysEndsFirst`, `NothingEverVanishes` | metrics, entities, workers, modes, number of starts |

The assumptions are those the modules name: `MaxSendsAssumption`;
`FlushSizeAssumption` (positive) and `MaxWritesAssumption`; for the clean-up that limits and creation times are naturals; and for `Gbkd` that the
data points are finitely many, that `Ages` is closed under being older, that the
maximum is positive and that strange clients are clients; for the k-d tree that there is a dimension and k is
positive (`DimensionsAssumption`, `KDAssumption`), as `lof` refuses a smaller k than 3; for
`Brute` and `Lof` that k, the limit of points and the last time are positive and that vectors, queries and
the other options are naturals (`BruteAssumption`, `LofAssumption`). `Alert` assumes nothing;
`Shutdown` that finitely many metrics are reloaded, that these are not the clients', that
"none" is not a metric and that each worker works for an entity that has a metric; `Dispatcher` the same of its
workers, which are finitely many, and of "none", and that what is stored at first is
finite and of one entity. The bounds are
arbitrary naturals, so the proofs cover behaviours of any length.

* *Queue.* `TypeOK` with `ControlInv` is inductive. `NothingLost` is inductive
  relative to it: `ControlInv` gives that there is a front to hand out and that
  Loop's hands are empty unless it is about to push. The algebra of moving a value
  from one sequence to the next is in the lemmas `HandOver` and `AppendLast` and
  restated for an opaque concatenation, `Cat`, so that the step lemmas are equations. In
  the refinement a receive must deliver the oldest value that was not received,
  which is what `NothingLost` says (`ReceiveIsOldest`); every step of Loop stutters.
* *Buffer.* `NothingMissing` and `NothingTwice` are not inductive alone: a batch
  must be known to be without repetition before it is appended to the store, and
  the buffer to be a range of numbers above all earlier ones. `Accounted` joins
  the types, `BufferIsLatest`, `BatchesInjective` and both properties, with one
  lemma per action.
* *Clean-up.* Fetch and deletion are two transactions. `FetchedInv` says what stays of what
  was fetched: its metrics were stored as processed, are of the entity at hand, (in the
  pass over ages) too old, and the store still has a row for each (`Has`), which a late flush
  may have made one that says new. The rest is that nobody else deletes it: process
  deletes only what it never writes as processed. `StoreInv` says that a row that says processed
  belongs to a metric that was. For `NewestAreKept` the cardinalities are those of
  finite sets: what the store keeps of the entity is at least the keys fetched less the oldest.
* *Gbkd.* `Types` adds to `TypeOK` that a worker at the lock has a data point in
  its hands and that Balance installs a subset of what is searched. `Counted` adds
  to `StaleIsCounted` that what a build copied is still retained: the removals
  are made by the goroutine that builds. For `LockIsReleased` there are two
  cases: `NeverEmpty` (a data point that does not age is retained, counted on and
  searched, hence neither `rebuildSize`, which keeps a positive number of the latest,
  nor a build empties the index) and `NothingYet` (nothing ages, and as long as
  nothing was appended nothing is searched). The refinement of `Dataset` needs `Fresh`: what a worker
  has in its hands is neither in a tree nor in a copy, and in nobody else's hands; and a build
  goes on only as long as removals are counted. A step of the scheduler goroutine that
  takes a copy starts a build of the abstract dataset, the switch ends it; a
  removal of nothing and all searches stutter. `RemovedNeverReturns` follows from the
  refinement alone, with one look at each abstract action.

* *Alert* (in `ShutdownProofs`). That the notifier stored everything when it reports success is known only
  with `Halfway`: while shutdown goes through the map, an entity it has yet to store
  has nothing in the store, and one it has been at has everything there. The former
  needs `Unstored` (before shutdown nothing in memory is stored) and `Separate` (no
  notification belongs to two entities). The same invariant gives the refinement of
  `Outbox`: Notify, Store and the end of the process map to Accept, Keep and Lose,
  everything else stutters.
* *Shutdown.* The types, in four groups with one lemma each, say which places of a
  goroutine have a metric in hand. They are what `ServiceUsesNotifier` needs: each
  step is one of `Alert`, for an entity, or leaves its variables alone; then the
  theorems about `Alert` carry over. `LockInv` (closed before the
  channel is; no reader once closed is set), `ScrapeInv` (until the scraper sends,
  nobody has been told to stop, so nobody is in shutdown) and `HeldInv` are
  inductive relative to the types. `HeldInv` adds to `NothingVanishes` that what
  Loop is about to remove was received, or waits to be received, or was processed
  (`Handed`): Loop removes an element it looked at earlier from a list that workers
  change.
* *Dispatcher.* By `DispatcherUsesBuffer` what `TxExecutorProofs` proves of the
  buffer, instantiated, holds here. That is used at once: that a batch consists of
  writes that happened (`NothingMissing`) is why a commit brings only rows of
  collected metrics into the store. `OnceUntilStop` is proved from `PlaceInv` and `RowsInv`: a metric in
  a queue is in no dataset, no alert and no worker's hands; one in a worker's hands
  is in no dataset until the worker is at "finish", and in no alert until "after". A crash
  throws all of this away, and the restart needs what the store says: it has one row
  for an id (`StoreInv`, kept by `AppendMany` as the last of a batch wins, and by Delete), so no
  metric is loaded both as new and as processed.
* *Datasets and store* (`DispatcherProofs`). A metric and its rows are apart: the row
  "processed" is written after the append, lies in the buffer, flies in a batch, and is
  all that a restart finds. So `DatasetIsStored` is proved in two halves, each over
  `Rows`, the rows of the store and of the buffer and its batches, and neither has a
  hypothesis on the order of the batches.
  - *From dataset to store*: `DataIsFinal`. A metric of a dataset is in the hands of
    the worker that is about to write its final row, or it is `Final`: a processed row is
    on its way and was written after every row "new" that is; or the store has a processed row, and
    to each row "new" on its way there is a later one that was accepted as processed; or its rows
    were accepted out of order. The last two are apart so that a batch that lands
    shows which it is: the row of the metric that it puts into the store is the last
    one of the batch (`LatestExists`); if it says new, then either a later
    processed row is still on its way, or one was accepted before it,
    which is `Overtaken` (`FinalLands`). It rests on `DurableGrows`: what was accepted
    stays accepted in its order, over crashes as well.
  - *From store to dataset*: `ListedArrive`. Each processed row, of the listed entity or of any
    entity while none is, that is to be kept belongs to a metric that is in a dataset or about to be
    appended. A restart builds the datasets from the rows that bulkLoad finds, those of
    the listed entity; `KeyInv` says that there is at most one listed entity (finding 2),
    and that its rows are always found.

  `DatasetIsAlwaysStored` joins the halves, in every configuration. `OneEntityIsLoaded`
  shows what finding 2 takes: with one entity everything stored is read back.
* *No metric is forgotten.* `Traced`: as long as a metric's final row is not written it is in
  its queue, in a worker's hands, or excused, because its verdict was an error or it
  is not to be kept. `TraceInv` says so of collected metrics within one process, for every configuration:
  `NothingIsForgotten` is what is safety in `EventuallySettled` (liveness adds that the
  work gets done). `RowsTraced` says of the rows, through crashes, that their
  metrics are traced or `Final`: what was interrupted is read back as new and finished
  (`LoadedTraced`). With nothing left to do, that is `StoredIsFinished`, the theorem `RestartFinishes`.
* *Warm-up.* `WarmUpIsAlwaysBounded` has no hypothesis. `WarmInv` counts: unjudged metrics
  in the dataset and workers that saw it short (at "warm" or "warmAppend") are
  together at most `Room`, the minimum less what was stored plus the other workers. The last worker to
  look saw fewer than the minimum, and each worker can be past the check only once. A
  crash frees the workers' places, but the rows of the metrics they held at
  "warmAppend" may be stored, and become part of the dataset without the append: the count has
  to pay for them in advance. It needs that the stored entity keeps one dataset
  (`Home`) through every restart, hence that its rows are always listed and read back
  (`StoredInv`).

* *The k-d tree changes.* `TreeInv` says what a tree and its slices are in terms of places:
  every place above a node is occupied, and what is below a side of a node is not beyond the node along its dimension
  (`Splits`). It adds that during a build two points share a place only as long as nobody
  is below it (`Slices`), without which a cut could leave a point behind under another node.
  `Grows` is about a new leaf, `Halves` about a cut, whichever of the equal
  coordinates go to which side.
* *The k-d tree is searched.* Why may `knn` leave out a side? `Pending` is what the search may still come to:
  everything below the place it is at, and for each node of its path the node and its far side. `SearchInv`: each
  point is pending or `Settled`, that is, in the queue, or no nearer than the last of a
  full queue. Where the search leaves out the far side of a node, `GapBounds` settles
  all of it at once: nothing across the plane of a node is nearer than the gap along its dimension, for
  each of the three distances. It goes back to one fact about each loop over the
  coordinates, that it returns at least any one of its terms (`TotalBounds`, `GreatestBounds`). Later pushes
  keep what is settled, because the last of a full queue only gets nearer (`OfferMeans`, and
  `PushMeans` for the queue itself).
  Sums over coordinates need induction. The theorem of the library takes an operator, which
  the provers cannot instantiate; `Successors` has the same for a set instead, from the
  theorem that strict subsets of a finite set are well-founded, and `Loop` applies it to
  functions that are defined by their predecessors.

* *The AVL tree.* What the service sees of the tree is its walk. `BruteInv` says that the root is one of
  `AllTrees` (hence every stored height is right), that the walk is in the order of the times, that
  the length kept apart is that of the walk, and that only data points are in it.
  - The methods of a node call themselves for its children. `Fold` says that a function
    defined in this way over the trees of each height exists and meets its equation, and
    `SameAtLevels` that it does not matter from which height a tree is looked at. `TreeInduction` then
    proves a statement of all trees from that of the empty tree and of a node over two trees.
  - Rotations do not change the walk (`RotateRightKeeps`, `RotateLeftKeeps`), whatever the heights.
    So it remains to say what Insert and Delete do to the walk: Insert puts the item in one place
    (`InsertOrder`), before or after all equal ones as the rotations have it, and Delete takes one time out
    of the walk (`DeleteOrder`). It says *time* and not *item*: a node with two children is
    replaced by its predecessor, which is then removed by its time from a subtree where another item may have the
    same one (observation 11).
  - `FirstRemoved`: removing the first n items of the walk one after the other takes their times from its front,
    which gives `OldestAlwaysGo`; with distinct times a point is known by its time. `FilterWithin` says that the list for
    `rebuildOutdated` has places of the walk, so there is something to remove at each call and the
    length stays right.
* *The search of brute.* `Finding` says what the queue has after j points: each entry comes from a place of
  its own, and a place without an entry has nothing nearer than the last of a full queue.
  `PushFinds` is the step, over `PushMeans` for the queue itself.
* *The verdict.* `RSumMeans`: each term of a sum is the distance to a stored vector and at least that
  to the neighbour it belongs to. So, if a vector is farther from all stored ones than these are from each other, its sum
  exceeds that of each neighbour term by term (`SumLess`). Then the quotient of each is
  greater than one, and `FarIsDenser` adds them up, with the fractions multiplied out (`ProductMeans`: the
  product is a multiple of each factor, so the division leaves nothing). If a vector is stored k
  times, then all k nearest are at distance zero (`RepeatedFound`: if one were not, all the copies would be
  among the k - 1 others), its sum is zero and the comparison with NaN or zero fails.

Only model-checked: all liveness (`DeliversAll`, `SenderNotBlocked`, `Settles`,
`LimitsEnforced`, `EventuallySettled`, `Terminates`, `RemovedLeaves`,
`SizeIsEnforced`), which is beyond the prover. Every safety property that a passing run
checks is a theorem.

## 5. Findings

Three runs show a disagreement between the code and what the repository says of it.

1. `MCSchedulerPanic`: `CountByEntity` counts rows of every status and
   `FindByEntity` returns the processed ones; with more rows than the limit but
   fewer processed rows the slice bound at `db_scheduler.go:67` is negative and
   the process dies. The comment at `db_scheduler.go:27` says it maintains the
   required amount of data.
2. `MCDispatcherBulkLoad`: `AppendMany` lists an entity only in the call that creates
   the bucket of keys (`metric.go:108`). `FindAll` goes through the list, so after a
   restart the other entities have neither datasets nor their waiting metrics,
   though `manager.go:315` says "getting all metrics that are in the storage".
3. `MCGbkdLost`: points appended while the scheduler balances (`gbkd.go:177`) or builds
   (`gbkd.go:201`) without the lock are retained but not searched, and nothing
   triggers another build, though README.md:13 says that storage "automatically
   maintains the actual required range of the sample data".

### Observations without a run

Met while modelling and part of the models, or outside them. The formulas named
here are at the end of their modules; the runs do not check them.

1. Flush goroutines append their batches without the lock, in any order, so the
   row "new" of a metric can overwrite its row "processed" (`db_tx_executor.go:62-76`):
   `Overtaken`. At the next restart the metric is processed, and perhaps alerted, once more.
2. A failed append drops its batch (`db_tx_executor.go:76`); `dropped` holds such
   writes in `TxExecutor`. A failed append at shutdown returns with the mutex held (:42);
   `txLocked` in `Shutdown`: workers stop for good, and the process ends without them.
3. `bulkLoad` puts every processed metric into the dataset, outliers included,
   whatever `allowAppendOutlier` says (`manager.go:328`).
4. `normVectors` receives a field that nothing sets, so alerts never carry a
   normal vector (`manager.go:405`).
5. A worker, or Predict, may replace a predictor that another worker has just
   installed and appended to (`manager.go:358-371`): `Accumulates`.
6. A row that is deleted because it is not to be kept may still be in the buffer
   and be stored afterwards (`manager.go:410`): `JudgedIsForgotten`. `Store` after
   `Discard` in `DBScheduler`.
7. Entities that are not listed are never cleaned up either (`metric.go:108`).
8. A signal during the start lets `bulkLoad` send on the closed channel (`manager.go:349`):
   action `SendPanics`, statement `StartEndsInOrder`.
9. `run` returns on the first message (`main.go:111`), when other workers may still
   hold accepted metrics: `AcceptedIsProcessed`.
10. `brute.rebuildOutdated` removes what is not outdated (`brute.go:158`): `OutdatedGo`.
11. With equal times an AVL removal can take out another item than the one meant, so
    that one item is in the tree twice and another not at all (`node.go:145-151`). The
    checked properties therefore speak of times, and of items only when times are
    distinct. Removals look for imbalance on the side that became lighter, so
    they hardly ever rebalance.
12. `gbkd.KNN` returns an error with the read lock held (`gbkd.go:135-137`); a vector
    of fewer dimensions than the data is enough, and every append waits from then on:
    `leaked` in `Gbkd` and in `Dispatcher`. A vector of more dimensions, or of none, may index
    out of range instead (`kdtree/tree.go:110`) and end the process. Nothing looks at
    the dimensions of the first metrics of an entity (`manager.go:374-378`).
13. `alert` keeps its targets in `opts.targets` and goes through `targets`, which
    stays empty (`alert.go:52`, `:191`): no alert is ever sent, though the README of
    the repository says that "SOD sends a POST request with data": `AnomalyIsSent`.
14. `scrapping` ranges over its error channel before anything can send to it or close
    it (`scrape.go:186`): the first tick never ends, nothing is scraped, and a signal that
    comes later does not end the process.
15. Stored alerts are looked for in a bucket that is named by the value of the key,
    a zero byte (`alert/database/alert.go:116-121`): there is none, and every start
    after the first stored alert panics: `StartsAgain`.
16. An outlier that is notified of after the notifier stopped stays in memory and is
    lost with the process; one that is found when `closed` is set is not notified
    of at all (`manager.go:426-433`).
17. In the mode SCRAPE `run` returns on the scraper's message, which precedes
    `cancelOutlier` (`scrape.go:115-116`): the write-behind buffer may not be written.
18. `kDistance` takes the first of three neighbours, the nearest (`lof.go:175-193`), so
    `math.Max` nearly always is the plain distance.
19. `lof.New` replaces the distance that `WithDistance` set (`lof.go:78`).
20. At shutdown several workers may take the same front of a list, each processes it, and
    one removes it for both (`manager.go:437-455`): the metric is appended, written and
    alerted twice. `Drain` in `Shutdown` has it; `OnceUntilStop` excludes it.

## 6. What is left out

* Contents of metrics: vectors, extra data, JSON, keys as strings. What the
  predictor concludes is a free choice in `Dispatcher`, and the outliers are a
  constant in `Shutdown`; `Lof` has vectors of one dimension.
* Coordinates are integers; Euclidean distances, and the gaps they are compared to, are
  squared. Rounding, overflow and NaN are not considered.
* `Dispatcher` ends where the process is told to stop: the drain of the lists is in `Shutdown`. It
  leaves out the clean-ups of the datasets (in `Gbkd` and `Brute`) and of the store (in
  `DBScheduler`), so what it says of datasets and rows holds of a service without limits. `DBScheduler`
  leaves out the drain and the restart.
* Searches with a vector of more dimensions than the data, or of none, which may panic.
* The failure of an encoding or of a bbolt transaction is the failure of the call.
* Data races: the unsynchronised list and map of queues at shutdown are taken as atomic
  operations in any order. Balance's walk through the tree is a snapshot.
* In `KDTree` no insert falls between the copy of the points and the new root of Balance; what that
  does is in `Gbkd` (finding 3).
* Code that cannot be reached: the bodies of the loops over targets in `alert` and
  `scrape`, `do`, `scrape`, and `rworker.Job`, which only they call.
* Rounding in `lof`: its fractions are compared multiplied out. Its searches are taken
  from one dataset, while appends go on in between in the program.
* The handlers but for their calls of Collect and Predict, the
  construction of the parts from the configuration, HTTP, logging.
* In `Shutdown`, what the second start reloads, and clients that send a metric again.

## 7. Plan

Done: queue, buffer, store and clean-up, dispatcher, alert manager with its store,
scraper, start and shutdown, datasets, AVL tree, k-d tree, search and verdict, with a
proof of every safety property that a passing run checks. Next, in this order:

1. `Brute` as an implementation of `Dataset` for distinct times, where retained and
   searched are the same.
2. The searches of `lof` as steps of their own that see different datasets, and with them
   the predict handler, whose goroutines share a result.
