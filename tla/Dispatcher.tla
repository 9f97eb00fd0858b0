----------------------------- MODULE Dispatcher -----------------------------
(***************************************************************************)
(* The analysis of the collected metrics, internal/dispatcher/manager.go:  *)
(* Collect puts a metric into the queue of its entity; the workers of the  *)
(* entity take metrics from it and run process, which compares a metric to *)
(* the dataset of the entity's predictor, alerts, adds the metric to the   *)
(* dataset and writes it to the store through the write-behind buffer of   *)
(* TxExecutor.  When the process dies and starts again, bulkLoad rebuilds  *)
(* the datasets and the queues from the store.                             *)
(*                                                                         *)
(* The queue is the FIFO queue that IQueue implements.  The predictor is   *)
(* kept as the sequence of the metrics in its dataset; what it concludes   *)
(* is left open, but for the lock that a failed search may keep.           *)
(*                                                                         *)
(* The module speaks of a process until it is told to stop, or dies: the   *)
(* drain at shutdown is in Shutdown.  It leaves out the clean-ups of the   *)
(* datasets (Gbkd, Brute) and of the store (DBScheduler).                  *)
(***************************************************************************)
EXTENDS MetricDB, SequencesExt

CONSTANTS
  Metric,              \* the ids of the metrics
  Stored,              \* those that are in the store, processed, at the
                       \* first start; all of one entity
  EntityOf,            \* the entity of a metric
  Worker,              \* the workers
  WorksFor,            \* the entity whose queue a worker receives from
  MinItems,            \* process judges no metric while the dataset has fewer
                       \* items: the larger of skipItems and 3
  AllowAppendData,     \* Options.allowAppendData
  AllowAppendOutlier,  \* Options.allowAppendOutlier
  SearchLeaks,         \* a search that fails keeps the read lock of the
                       \* predictor: so with gbkd, the default, not with brute
  FlushSize,           \* dbTxExecutorOptions.flushSize
  MaxWrites,           \* bound: the number of writes
  MaxCrashes           \* bound: how often the process dies

ASSUME StoredAssumption ==
  /\ IsFiniteSet(Stored) /\ Stored \subseteq Metric
  /\ \A m, n \in Stored : EntityOf[m] = EntityOf[n]
ASSUME ConfigAssumption == /\ AllowAppendData \in BOOLEAN
                           /\ AllowAppendOutlier \in BOOLEAN
                           /\ SearchLeaks \in BOOLEAN
                           /\ MinItems \in Nat /\ MinItems >= 3
                           /\ FlushSize \in Nat \ {0}
                           /\ MaxWrites \in Nat
                           /\ MaxCrashes \in Nat

VARIABLES
  collected,   \* the metrics that were collected
  queue,       \* entity -> the ids in its queue
  work,        \* worker -> where it is in process, and its local variables
  predictors,  \* entity -> the number of its predictor, 0 if it has none
  data,        \* the datasets of all predictors created since the start
  leaked,      \* the predictors whose read lock is held for good
  normVectors, \* entity -> the vector in normVectors
  alerts,      \* the ids passed to notifier.Notify since the start
  judged,      \* history: the last verdict on a metric
  log,         \* history: the rows written to the buffer, in order
  db,          \* the store
  crashes,     \* how often the process died
  \* the variables of TxExecutor
  written, buf, pending, flying, flusher, ticked, locked, cancelled, durable,
  dropped, lost

txVars == <<written, buf, pending, flying, flusher, ticked, locked, cancelled,
            durable, dropped, lost>>

vars == <<collected, queue, work, predictors, data, leaked, normVectors, alerts,
          judged, log, db, crashes, txVars>>

Tx == INSTANCE TxExecutor

Entity == {EntityOf[m] : m \in Metric}
None == "none"

ASSUME WorkerAssumption == /\ None \notin Metric
                           /\ IsFiniteSet(Worker)
                           /\ \A w \in Worker : WorksFor[w] \in Entity

(* The vector of a metric is represented by its id, no vector by NilVec.   *)
NilVec == "nil"

(* "idle": in the select statement of receive; then the steps of process:  *)
(* "lookup" the predictor, "create" one, "check" its length; "warm" and    *)
(* "warmAppend" while it is short; else "new", "predict" and, as it        *)
(* concludes, "error", "outlier" or "normal"; "after" and "finish".        *)
WorkAt == {"idle", "lookup", "create", "check", "warm", "warmAppend", "new",
           "predict", "error", "outlier", "normal", "after", "finish"}

(* normVec stays NilVec: nothing sets metric.NormVec but a vector that was *)
(* read from normVectors.                                                  *)
Idle == [at |-> "idle", m |-> None, pred |-> 0, outlier |-> FALSE,
         normVec |-> NilVec]

Row(m, s, o) == [id |-> m, entity |-> EntityOf[m], status |-> s, outlier |-> o]

(* bulkLoad, at every start: a predictor for every entity it finds in the  *)
(* store, built from the processed metrics; the new ones go to the queues.  *)
Ids(rows) == {r.id : r \in rows}
Loaded(d, e) == {r \in FindAll(d) : r.entity = e}
LoadedEntities(d) == SetToSeq({e \in Entity : Loaded(d, e) # {}})

LoadedData(d) ==
  [i \in DOMAIN LoadedEntities(d) |->
     SetToSeq(Ids({r \in Loaded(d, LoadedEntities(d)[i]) : IsProcessed(r)}))]
LoadedPredictors(d) ==
  [e \in Entity |->
     IF Loaded(d, e) = {} THEN 0
     ELSE CHOOSE i \in DOMAIN LoadedEntities(d) : LoadedEntities(d)[i] = e]
(* Mutant: the metrics that are not processed yet are not queued again. *)
LoadedQueueLost(d) == [e \in Entity |-> <<>>]

LoadedQueue(d) ==
  [e \in Entity |-> SetToSeq(Ids({r \in Loaded(d, e) : IsNew(r)}))]

StoredDB ==
  AppendMany(EmptyDB, SetToSeq({Row(m, "processed", FALSE) : m \in Stored}))

Init == /\ collected = Stored
        /\ queue = LoadedQueue(StoredDB)
        /\ work = [w \in Worker |-> Idle]
        /\ predictors = LoadedPredictors(StoredDB)
        /\ data = LoadedData(StoredDB)
        /\ leaked = {}
        /\ normVectors = [e \in Entity |-> None]
        /\ alerts = <<>>
        /\ judged = [m \in Metric |-> None]
        /\ log = <<>>
        /\ db = StoredDB
        /\ crashes = 0
        /\ Tx!Init

-----------------------------------------------------------------------------
(* Collect and Predict, called by the HTTP handlers.                       *)

(* A metric is new: model.NewMetric gives it a fresh id.  The channel and  *)
(* the collector goroutine that sends it to the queue keep the order.      *)
Collect(m) ==
  /\ m \notin collected
  /\ collected' = collected \cup {m}
  /\ queue' = [queue EXCEPT ![EntityOf[m]] = Append(@, m)]
  /\ UNCHANGED <<work, predictors, data, leaked, normVectors, alerts, judged, log, db,
                 crashes, txVars>>

(* Predict creates the predictor if there is none, under the write lock;   *)
(* a verdict changes nothing.                                              *)
Predict(e) ==
  /\ predictors[e] = 0
  /\ data' = Append(data, <<>>)
  /\ predictors' = [predictors EXCEPT ![e] = Len(data')]
  /\ UNCHANGED <<collected, queue, work, leaked, normVectors, alerts, judged, log, db,
                 crashes, txVars>>

(* The search of a call of Predict fails, as it does for a vector with     *)
(* fewer dimensions than the data.  The predictor that it looked up, some  *)
(* time ago, may be one that was replaced since.                           *)
PredictFails(p) ==
  /\ SearchLeaks
  /\ data[p] # <<>>
  /\ leaked' = leaked \cup {p}
  /\ UNCHANGED <<collected, queue, work, predictors, data, normVectors, alerts,
                 judged, log, db, crashes, txVars>>

-----------------------------------------------------------------------------
(* process, in worker w.                                                   *)

Goto(w, at) == work' = [work EXCEPT ![w].at = at]
Finished(w) == work' = [work EXCEPT ![w] = Idle]

(* Mutant: the front is looked at, not taken. *)
ReceivePeek(w) ==
  LET e == WorksFor[w] IN
  /\ work[w].at = "idle"
  /\ queue[e] # <<>>
  /\ work' = [work EXCEPT ![w].at = "lookup", ![w].m = Head(queue[e])]
  /\ UNCHANGED <<collected, queue, predictors, data, leaked, normVectors, alerts,
                 judged, log, db, crashes, txVars>>

Receive(w) ==
  LET e == WorksFor[w] IN
  /\ work[w].at = "idle"
  /\ queue[e] # <<>>
  /\ queue' = [queue EXCEPT ![e] = Tail(@)]
  /\ work' = [work EXCEPT ![w].at = "lookup", ![w].m = Head(queue[e])]
  /\ UNCHANGED <<collected, predictors, data, leaked, normVectors, alerts, judged, log,
                 db, crashes, txVars>>

(* under the read lock *)
Lookup(w) ==
  LET p == predictors[WorksFor[w]] IN
  /\ work[w].at = "lookup"
  /\ work' = [work EXCEPT ![w].at = IF p = 0 THEN "create" ELSE "check",
                          ![w].pred = p]
  /\ UNCHANGED <<collected, queue, predictors, data, leaked, normVectors, alerts,
                 judged, log, db, crashes, txVars>>

(* Mutant: what is installed is not the new predictor. *)
CreateUnbuilt(w) ==
  /\ work[w].at = "create"
  /\ predictors' = [predictors EXCEPT ![WorksFor[w]] = Len(data) + 1]
  /\ work' = [work EXCEPT ![w].at = "check", ![w].pred = Len(data) + 1]
  /\ UNCHANGED <<collected, queue, data, leaked, normVectors, alerts, judged, log, db,
                 crashes, txVars>>

(* A new predictor is installed under the write lock, without looking      *)
(* again whether there is one by now.  (When the factory fails, process    *)
(* unlocks a mutex it does not hold and the program dies: a Crash.)        *)
Create(w) ==
  /\ work[w].at = "create"
  /\ data' = Append(data, <<>>)
  /\ predictors' = [predictors EXCEPT ![WorksFor[w]] = Len(data')]
  /\ work' = [work EXCEPT ![w].at = "check", ![w].pred = Len(data')]
  /\ UNCHANGED <<collected, queue, leaked, normVectors, alerts, judged, log, db,
                 crashes, txVars>>

(* Mutants: an off-by-one in the comparison; the write is forgotten. *)
CheckLate(w) ==
  /\ work[w].at = "check"
  /\ Goto(w, IF Len(data[work[w].pred]) <= MinItems THEN "warm" ELSE "new")
  /\ UNCHANGED <<collected, queue, predictors, data, leaked, normVectors, alerts,
                 judged, log, db, crashes, txVars>>

CheckUnwritten(w) ==
  /\ work[w].at = "check"
  /\ Goto(w, IF Len(data[work[w].pred]) < MinItems THEN "warmAppend" ELSE "new")
  /\ UNCHANGED <<collected, queue, predictors, data, leaked, normVectors, alerts,
                 judged, log, db, crashes, txVars>>

Check(w) ==
  /\ work[w].at = "check"
  /\ Goto(w, IF Len(data[work[w].pred]) < MinItems THEN "warm" ELSE "new")
  /\ UNCHANGED <<collected, queue, predictors, data, leaked, normVectors, alerts,
                 judged, log, db, crashes, txVars>>

(* dbTxExecutor.write of w's metric with status s *)
WriteRow(w, s) ==
  /\ Tx!Write
  /\ log' = Append(log, Row(work[w].m, s, work[w].outlier))
  /\ UNCHANGED <<collected, queue, predictors, data, leaked, normVectors, alerts,
                 judged, db, crashes>>

WarmWrite(w) == work[w].at = "warm" /\ WriteRow(w, "processed") /\ Goto(w, "warmAppend")

WriteNew(w) == work[w].at = "new" /\ WriteRow(w, "new") /\ Goto(w, "predict")

(* Mutant: the status is not changed before the second write. *)
WriteStale(w) == work[w].at = "finish" /\ WriteRow(w, "new") /\ Finished(w)

WriteProcessed(w) == work[w].at = "finish" /\ WriteRow(w, "processed") /\ Finished(w)

(* predictor.Append waits for the write lock of the predictor. *)
AppendData(w) ==
  /\ work[w].pred \notin leaked
  /\ data' = [data EXCEPT ![work[w].pred] = Append(@, work[w].m)]

(* Mutant: the return after the append is missing. *)
WarmAppendFallsThrough(w) ==
  /\ work[w].at = "warmAppend"
  /\ AppendData(w)
  /\ Goto(w, "new")
  /\ UNCHANGED <<collected, queue, predictors, leaked, normVectors, alerts, judged,
                 log, db, crashes, txVars>>

WarmAppend(w) ==
  /\ work[w].at = "warmAppend"
  /\ AppendData(w)
  /\ Finished(w)
  /\ UNCHANGED <<collected, queue, predictors, leaked, normVectors, alerts, judged,
                 log, db, crashes, txVars>>

(* The predictor finds an outlier or not, or returns an error, from its    *)
(* search or before it came to that.                                       *)
Judge(w) ==
  /\ work[w].at = "predict"
  /\ \E verdict \in {"outlier", "normal", "error"} :
       /\ work' = [work EXCEPT ![w].at = verdict,
                               ![w].outlier = (verdict = "outlier")]
       /\ judged' = [judged EXCEPT ![work[w].m] = verdict]
       /\ \/ UNCHANGED leaked
          \/ /\ verdict = "error" /\ SearchLeaks
             /\ leaked' = leaked \cup {work[w].pred}
  /\ UNCHANGED <<collected, queue, predictors, data, normVectors, alerts, log,
                 db, crashes, txVars>>

(* deleteMetric, directly in the store; it may fail. *)
DeleteRow(w) ==
  /\ db' = Delete(db, Row(work[w].m, "new", FALSE)) \/ UNCHANGED db
  /\ Finished(w)
  /\ UNCHANGED <<collected, queue, predictors, data, leaked, normVectors, alerts,
                 judged, log, crashes, txVars>>

JudgeFailed(w) == work[w].at = "error" /\ DeleteRow(w)

(* The last normal vector of the entity goes with the alert. *)
Alert(w) ==
  LET v == normVectors[WorksFor[w]] IN
  /\ work[w].at = "outlier"
  /\ work' = [work EXCEPT ![w].at = "after",
                          ![w].normVec = IF v = None THEN @ ELSE v]
  /\ alerts' = Append(alerts, work[w].m)
  /\ UNCHANGED <<collected, queue, predictors, data, leaked, normVectors, judged, log,
                 db, crashes, txVars>>

SetNormVector(w) ==
  /\ work[w].at = "normal"
  /\ normVectors' = [normVectors EXCEPT ![WorksFor[w]] = work[w].normVec]
  /\ Goto(w, "after")
  /\ UNCHANGED <<collected, queue, predictors, data, leaked, alerts, judged, log, db,
                 crashes, txVars>>

Forget(w) == ~AllowAppendData /\ work[w].at = "after" /\ DeleteRow(w)

Keep(w) ==
  /\ AllowAppendData
  /\ work[w].at = "after"
  /\ IF work[w].outlier /\ ~AllowAppendOutlier
       THEN UNCHANGED data
       ELSE AppendData(w)
  /\ Goto(w, "finish")
  /\ UNCHANGED <<collected, queue, predictors, leaked, normVectors, alerts, judged,
                 log, db, crashes, txVars>>

Process(w) ==
  \/ Receive(w) \/ Lookup(w) \/ Create(w) \/ Check(w)
  \/ WarmWrite(w) \/ WarmAppend(w)
  \/ WriteNew(w) \/ Judge(w) \/ JudgeFailed(w) \/ Alert(w) \/ SetNormVector(w)
  \/ Forget(w) \/ Keep(w) \/ WriteProcessed(w)

-----------------------------------------------------------------------------
(* The write-behind buffer and the store.                                  *)

Rest == UNCHANGED <<collected, queue, work, predictors, data, leaked, normVectors,
                    alerts, judged, log, crashes>>

RowsOf(b) == [i \in DOMAIN b |-> log[b[i]]]

Commit(b) == Tx!Commit(b) /\ db' = AppendMany(db, RowsOf(b)) /\ Rest
TickCommit == Tx!TickCommit /\ db' = AppendMany(db, RowsOf(ticked)) /\ Rest

(* Steps of the buffer that leave the store alone. *)
Take == Tx!Take /\ UNCHANGED db /\ Rest
Fail(b) == Tx!Fail(b) /\ UNCHANGED db /\ Rest
Ticking == (Tx!Tick \/ Tx!TickTake \/ Tx!TickFail) /\ UNCHANGED db /\ Rest

-----------------------------------------------------------------------------
(* The process dies, of a kill or a panic, and is started again. *)
Crash ==
  /\ crashes < MaxCrashes
  /\ crashes' = crashes + 1
  /\ Tx!Crash
  /\ data' = LoadedData(db)
  /\ leaked' = {}
  /\ predictors' = LoadedPredictors(db)
  /\ queue' = LoadedQueue(db)
  /\ work' = [w \in Worker |-> Idle]
  /\ normVectors' = [e \in Entity |-> None]
  /\ alerts' = <<>>
  /\ UNCHANGED <<collected, judged, log, db>>

Flush == \E b \in flying : Commit(b) \/ Fail(b)

Flusher == Ticking \/ TickCommit

Next == \/ \E m \in Metric : Collect(m)
        \/ \E e \in Entity : Predict(e)
        \/ \E p \in DOMAIN data : PredictFails(p)
        \/ \E w \in Worker : Process(w)
        \/ Take \/ Flush \/ Flusher
        \/ Crash

Spec == Init /\ [][Next]_vars

(* Where process calls its predictor, for the length, the verdict or to    *)
(* append, it waits for ever when the read lock was kept: to append, and   *)
(* otherwise as soon as anyone waits for the write lock, as the scheduler  *)
(* of the predictor does from time to time.                                *)
Blocked(w) ==
  /\ work[w].pred \in leaked
  /\ \/ work[w].at \in {"check", "predict", "warmAppend"}
     \/ work[w].at = "after" /\ AllowAppendData
          /\ (work[w].outlier => AllowAppendOutlier)

(* Every goroutine that can run does, and the ticker ticks. *)
FairSpec == /\ Spec
            /\ \A w \in Worker : WF_vars(Process(w) /\ ~Blocked(w))
            /\ WF_vars(Take)
            /\ WF_vars(Flush)
            /\ WF_vars(Flusher)

-----------------------------------------------------------------------------
(* Properties.                                                             *)

AnyRow == {Row(m, s, o) : m \in Metric, s \in {"new", "processed"},
                           o \in BOOLEAN}

TypeOK ==
  /\ collected \subseteq Metric
  /\ queue \in [Entity -> Seq(Metric)]
  /\ work \in [Worker -> [at : WorkAt, m : Metric \cup {None}, pred : Nat,
                          outlier : BOOLEAN, normVec : Metric \cup {NilVec}]]
  /\ predictors \in [Entity -> Nat]
  /\ \A e \in Entity : predictors[e] <= Len(data)
  /\ data \in Seq(Seq(Metric))
  /\ leaked \subseteq Nat
  /\ normVectors \in [Entity -> Metric \cup {NilVec, None}]
  /\ alerts \in Seq(Metric)
  /\ judged \in [Metric -> {None, "outlier", "normal", "error"}]
  /\ log \in Seq(AnyRow) /\ Len(log) = written
  /\ db \in [rows : SUBSET AnyRow, keys : SUBSET Entity]
  /\ crashes \in 0 .. MaxCrashes

(* Until the process is told to stop, or dies, a collected metric is in at *)
(* most one place of at most one queue, or in the hands of one worker,     *)
(* also when it was read back after a crash; so none is twice in a         *)
(* dataset, and none is alerted twice, though it may be processed again    *)
(* after a restart.  At the drain of a shutdown it does not hold: workers  *)
(* may take the same front of a list (Drain of Shutdown).                  *)
Held(m) == {w \in Worker : work[w].m = m}
Queued(m) == {q \in Entity \X (1 .. Cardinality(Metric)) :
                q[2] \in DOMAIN queue[q[1]] /\ queue[q[1]][q[2]] = m}
HandledOnce == \A m \in Metric : Cardinality(Held(m)) + Cardinality(Queued(m)) <= 1
AppendedOnce == \A i \in DOMAIN data : IsInjective(data[i])
AlertedOnce == IsInjective(alerts)
OnceUntilStop == HandledOnce /\ AppendedOnce /\ AlertedOnce

InDatasets == UNION {ToSet(data[i]) : i \in DOMAIN data}

(* While a dataset has fewer than MinItems items it grows by metrics that  *)
(* were never judged, and only so: they make it up to MinItems, but for    *)
(* what was under way when it got there, as each worker may overtake the   *)
(* check of the others once; and there are none when what was stored was   *)
(* enough.  This speaks of the entity that was in the store at the first   *)
(* start: for another one two workers may create a predictor each, whose   *)
(* datasets a restart joins.                                               *)
Unjudged(i) == {m \in ToSet(data[i]) \ Stored : judged[m] = None}
WarmUpIsBounded ==
  \A i \in DOMAIN data : \A s \in ToSet(data[i]) \cap Stored :
    Cardinality(Unjudged(i)) <=
      IF Cardinality(Stored) >= MinItems THEN 0
      ELSE MinItems - Cardinality(Stored)
             + Cardinality({w \in Worker : WorksFor[w] = EntityOf[s]}) - 1

(* When all work is done and every append succeeded, store and datasets    *)
(* agree.  A metric of a dataset has a row that says processed, unless the *)
(* goroutines that flush overtook each other, and its row that says new,   *)
(* written before, was stored after: then it is read back as new.  A       *)
(* processed metric of a listed entity is in a dataset, unless it is an    *)
(* outlier that is not to be added.                                        *)
Quiescent == /\ \A e \in Entity : queue[e] = <<>>
             /\ \A w \in Worker : work[w] = Idle
             /\ buf = <<>> /\ ticked = <<>> /\ flying = {}
RowOf(n, m, s) == log[n].id = m /\ log[n].status = s
Overtaken(m) ==
  \E i, j \in DOMAIN durable :
    /\ i < j /\ durable[j] < durable[i]
    /\ RowOf(durable[i], m, "processed") /\ RowOf(durable[j], m, "new")
Retained(r) == IsProcessed(r) /\ (r.outlier => AllowAppendOutlier)
DatasetIsStored ==
  Quiescent /\ dropped = {} =>
    /\ \A m \in InDatasets :
         \E r \in db.rows : r.id = m /\ (IsProcessed(r) \/ Overtaken(m))
    /\ \A r \in FindAll(db) : Retained(r) => r.id \in InDatasets

(* A restart finishes what the death of the process interrupted: then no   *)
(* row of a listed entity still says new, but where rows overtook each     *)
(* other, where the predictor failed (the deletion is given up, or undone  *)
(* by a late flush), or where judged metrics are not to be kept.           *)
Excused(m) == judged[m] = "error" \/ (~AllowAppendData /\ judged[m] # None)
StoredIsFinished ==
  Quiescent /\ dropped = {} =>
    \A r \in FindAll(db) : IsProcessed(r) \/ Overtaken(r.id) \/ Excused(r.id)

(* The analysis of every collected metric comes to its end: its final row  *)
(* reaches the store or is in a failed append, or it is to be forgotten.   *)
(* An error of the predictor or the death of the process excuses, and so   *)
(* does a read lock that a failed search kept: then the worker that has    *)
(* the metric, or every worker that might take it, waits for ever.         *)
Settled(m) ==
  \/ judged[m] = "error"
  \/ crashes > 0
  \/ ~AllowAppendData /\ judged[m] # None /\ \A w \in Worker : work[w].m # m
  \/ \E n \in Tx!Numbers(durable) \cup dropped :
       log[n].id = m /\ IsProcessed(log[n])
Stuck(m) ==
  \/ \E w \in Held(m) : Blocked(w)
  \/ \A w \in Worker : WorksFor[w] = EntityOf[m] => Blocked(w)
EventuallySettled ==
  \A m \in Metric \ Stored : m \in collected ~> Settled(m) \/ Stuck(m)

(* bulkLoad: "getting all metrics that are in the storage" *)
BulkLoadIsComplete ==
  [][Crash => Ids(db.rows) \subseteq
                InDatasets' \cup UNION {ToSet(queue'[e]) : e \in Entity}]_vars

-----------------------------------------------------------------------------
(* Statements that the code does not satisfy, kept for reference; no run   *)
(* checks them (see README, observations).                                 *)

(* "Allow adding data to the dataset": when it is not allowed, a judged    *)
(* metric does not stay in the store.                                      *)
JudgedIsForgotten ==
  ~AllowAppendData /\ Quiescent =>
    \A r \in db.rows : judged[r.id] \notin {"outlier", "normal"}

(* "accumulating the dataset": what was appended for an entity is in the   *)
(* dataset that the next metric is compared to.                            *)
Accumulates ==
  \A e \in Entity :
    LET current == IF predictors[e] = 0 THEN {} ELSE ToSet(data[predictors[e]])
    IN {m \in InDatasets : EntityOf[m] = e} \subseteq current

=============================================================================
