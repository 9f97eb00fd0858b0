------------------------------ MODULE Shutdown ------------------------------
(***************************************************************************)
(* How the program starts, stops and starts again.  At the start run       *)
(* brings up the dispatcher, the notifier and, in the mode "SCRAPE", the   *)
(* scraper.  When the context ends, Collect is closed, and the collector,  *)
(* the workers, the write-behind buffer and the notifier stop each on      *)
(* their own; run returns on the first message that any of them sends to   *)
(* shutdownCh, which ends the process.                                     *)
(*                                                                         *)
(* internal/dispatcher/manager.go (Run, Collect, bulkLoad, process, alert, *)
(* shutdown, receive, collector), cmd/sod-srv/main.go (run), and           *)
(* pkg/iqueue, whose list the workers read and change at shutdown while    *)
(* Loop still runs.  Nothing synchronises the two: the module takes the    *)
(* operations of the list as atomic, which is the best the race can do.    *)
(* The notifier and the scraper are the modules Alert and Scrape.          *)
(***************************************************************************)
EXTENDS Naturals, Sequences, FiniteSets, SequencesExt

CONSTANTS
  Metric,      \* the metrics that clients send
  Reloaded,    \* the metrics stored as new at the first start
  EntityOf,    \* the entity of a metric
  Outlier,     \* the metrics that Predict takes for outliers
  Worker,      \* the workers
  WorksFor,    \* the entity of a worker
  Modes,       \* SOD_SVC_MODE: among "COLLECT" and "SCRAPE"
  MaxStarts    \* bounds the number of starts

None == "none"

ASSUME MetricAssumption == /\ IsFiniteSet(Reloaded) /\ Metric \cap Reloaded = {}
                           /\ Outlier \subseteq Metric \cup Reloaded
                           /\ None \notin Metric \cup Reloaded
ASSUME WorkerAssumption == \A w \in Worker : \E m \in Metric \cup Reloaded : WorksFor[w] = EntityOf[m]
ASSUME ModeAssumption == Modes \subseteq {"COLLECT", "SCRAPE"}

VARIABLES
  mode,        \* the mode of the service, from the environment
  starts,      \* history: how often the program was started
  cancelled,   \* the context of run is done
  stopped,     \* the context of the dispatcher is done
  loading,     \* what bulkLoad has to send to collectCh, in order
  caller,      \* client's metric -> where the call of Collect for it is
  collectCh,   \* the channel, of capacity one
  chClosed,    \* collectCh is closed
  closed,      \* manager.closed
  collector,   \* where the collector goroutine is, and the metric it holds
  sendCh,      \* entity -> Queue.send, of capacity one
  list,        \* entity -> Queue.queue
  recvCh,      \* entity -> Queue.recv, of capacity one
  loop,        \* entity -> where Loop is, and the front element it looked at
  work,        \* worker -> where it is, the metric it processes, and
               \* whether it does so in shutdown
  flusher,     \* where the flusher is
  txLocked,    \* shutdown of the buffer returned with dbTxExecutor.mtx held
  shutdownCh,  \* the number of messages in shutdownCh
  exited,      \* "no", "returned" or "panic"
  sent,        \* history: what Collect accepted or bulkLoad sent
  processed,   \* history: the metrics that process is done with
  scraper,     \* the scraper, see Scrape
  count, alerts, notifier, notifierDone, loader, toStore, rows  \* see Alert

config == <<mode, starts>>
context == <<cancelled, stopped>>
queues == <<sendCh, list, recvCh, loop>>
front == <<loading, caller, collectCh, chClosed, closed, collector, sent>>
pool == <<work, processed>>
buffer == <<flusher, txLocked>>
alerting == <<count, alerts, notifier, notifierDone, loader, toStore, rows>>
ending == <<shutdownCh, exited>>
vars == <<config, context, front, queues, pool, buffer, alerting, scraper, ending>>

All == Metric \cup Reloaded
Entity == {EntityOf[m] : m \in All}

Al == INSTANCE Alert WITH ctxDone <- notifierDone
Scraper == INSTANCE Scrape WITH ctxDone <- cancelled, outlierDone <- stopped

Idle == [at |-> "select", m |-> None, draining |-> FALSE]
Unborn == [Idle EXCEPT !.at = "none"]
Top == [at |-> "top", front |-> None]
Boot == [collector |-> [at |-> "select", m |-> None],
         empty |-> [e \in Entity |-> <<>>],
         loop |-> [e \in Entity |-> Top],
         work |-> [w \in Worker |-> Unborn]]

Init == /\ mode \in Modes
        /\ starts = 1
        /\ cancelled = FALSE /\ stopped = FALSE
        /\ loading = SetToSeq(Reloaded)
        /\ caller = [m \in Metric |-> "none"]
        /\ collectCh = <<>> /\ chClosed = FALSE /\ closed = FALSE
        /\ collector = Boot.collector
        /\ sendCh = Boot.empty /\ list = Boot.empty /\ recvCh = Boot.empty
        /\ loop = Boot.loop
        /\ work = Boot.work
        /\ flusher = "select" /\ txLocked = FALSE
        /\ shutdownCh = 0
        /\ exited = "no"
        /\ sent = {} /\ processed = {}
        /\ scraper = "off"
        /\ Al!Init

Running == exited = "no"

(* The end of the process takes its memory with it.                        *)
Exit(how) ==
  /\ Running
  /\ exited' = how
  /\ cancelled' = FALSE /\ stopped' = FALSE
  /\ loading' = <<>>
  /\ caller' = [m \in Metric |-> IF caller[m] = "sending" THEN "refused" ELSE caller[m]]
  /\ collectCh' = <<>> /\ chClosed' = FALSE /\ closed' = FALSE
  /\ collector' = Boot.collector
  /\ sendCh' = Boot.empty /\ list' = Boot.empty /\ recvCh' = Boot.empty
  /\ loop' = Boot.loop
  /\ work' = Boot.work
  /\ flusher' = "select" /\ txLocked' = FALSE
  /\ shutdownCh' = 0
  /\ scraper' = "off"
  /\ Al!Die
  /\ UNCHANGED <<config, sent, processed>>

(* A new process finds in the store what it finds; clients do not send a   *)
(* metric again.  Bounds: without stored alerts a second start is like the *)
(* first, and is left out, and what it reloads is left out as well.        *)
Restart == /\ ~Running
           /\ starts < MaxStarts
           /\ rows # {}
           /\ exited' = "no"
           /\ starts' = starts + 1
           /\ sent' = {} /\ processed' = {}
           /\ caller' = [m \in Metric |-> IF caller[m] = "accepted" THEN "refused" ELSE caller[m]]
           /\ UNCHANGED <<mode, context, loading, collectCh, chClosed, closed, collector,
                          queues, work, buffer, alerting, scraper, shutdownCh>>

(* A signal, or a server that stops serving, ends the context.  The        *)
(* dispatcher's context is derived from it, unless the scraper runs it.    *)
Cancel == /\ Running
          /\ ~cancelled
          /\ cancelled' = TRUE
          /\ stopped' = (stopped \/ mode = "COLLECT")
          /\ UNCHANGED <<config, front, queues, pool, buffer, alerting, scraper, ending>>

-----------------------------------------------------------------------------
(* run and the Run methods it calls: bulkLoad, the notifier's Run, the     *)
(* scraper, and then it waits for the first message.                       *)

Up == loading = <<>> /\ loader = "done"

(* bulkLoad sends without a lock.  A send to a closed channel panics.      *)
Load == /\ Running
        /\ loading # <<>>
        /\ ~chClosed
        /\ collectCh = <<>>
        /\ collectCh' = <<Head(loading)>>
        /\ loading' = Tail(loading)
        /\ sent' = sent \cup {Head(loading)}
        /\ UNCHANGED <<config, context, caller, chClosed, closed, collector, queues,
                       pool, buffer, alerting, scraper, ending>>

RunNotifier == /\ Running
               /\ loading = <<>>
               /\ Al!Run
               /\ UNCHANGED <<config, context, front, queues, pool, buffer, scraper, ending>>

LoadAlerts == /\ Running
              /\ Al!BulkLoad
              /\ UNCHANGED <<config, context, front, queues, pool, buffer, scraper, ending>>

LoadAlertsPanics == Exit("panic") /\ Al!BulkLoadPanics

LaunchScraper == /\ Running
                 /\ Up
                 /\ mode = "SCRAPE"
                 /\ Scraper!Launch
                 /\ UNCHANGED <<config, front, queues, pool, buffer, alerting, ending>>

(* return <-shutdownCh *)
Return == /\ Up
          /\ mode = "SCRAPE" => scraper # "off"
          /\ shutdownCh > 0
          /\ Exit("returned")

Main == Load \/ RunNotifier \/ LoadAlerts \/ LoadAlertsPanics \/ LaunchScraper \/ Return

-----------------------------------------------------------------------------
(* manager.mtx.  A call of Collect holds the read lock while it sends; the *)
(* collector wants the write lock to close.  A waiting writer keeps new    *)
(* readers out.  Other holders release the lock in the step that takes it. *)
Readers == {m \in Metric : caller[m] = "sending"}
WriterWaits == collector.at = "closing"
MayRLock == ~WriterWaits

(* Collect, in a goroutine of the handler; the server starts after Run and *)
(* has this handler in the mode "COLLECT" only.                            *)
Enter(m) == /\ Running
            /\ Up
            /\ mode = "COLLECT"
            /\ caller[m] = "none"
            /\ MayRLock
            /\ caller' = [caller EXCEPT ![m] = IF closed THEN "refused" ELSE "sending"]
            /\ UNCHANGED <<config, context, loading, collectCh, chClosed, closed,
                           collector, sent, queues, pool, buffer, alerting, scraper, ending>>

Send(m) == /\ Running
           /\ caller[m] = "sending"
           /\ ~chClosed
           /\ collectCh = <<>>
           /\ collectCh' = <<m>>
           /\ caller' = [caller EXCEPT ![m] = "accepted"]
           /\ sent' = sent \cup {m}
           /\ UNCHANGED <<config, context, loading, chClosed, closed, collector,
                          queues, pool, buffer, alerting, scraper, ending>>

SendPanics == /\ chClosed
              /\ \/ loading # <<>>
                 \/ Readers # {}
              /\ Exit("panic")

-----------------------------------------------------------------------------
(* The collector goroutine.                                                *)

Collector(from, to) ==
  /\ Running
  /\ collector.at = from
  /\ collector' = to
  /\ UNCHANGED <<config, context, loading, caller, sent, processed, buffer,
                 alerting, scraper, ending>>

(* The first metric of an entity creates its queue and starts its workers. *)
Started(e) ==
  [w \in Worker |-> IF work[w].at = "none" /\ WorksFor[w] = e
                    THEN Idle ELSE work[w]]

CollectorReceive ==
  /\ collectCh # <<>>
  /\ Collector("select", [at |-> "send", m |-> Head(collectCh)])
  /\ collectCh' = <<>>
  /\ work' = Started(EntityOf[Head(collectCh)])
  /\ UNCHANGED <<chClosed, closed, queues>>

(* Mutant: the send does not wait for room in the channel. *)
CollectorSendNow ==
  LET e == EntityOf[collector.m] IN
  /\ Collector("send", [at |-> "select", m |-> None])
  /\ sendCh' = [sendCh EXCEPT ![e] = Append(@, collector.m)]
  /\ UNCHANGED <<collectCh, chClosed, closed, work, list, recvCh, loop>>

CollectorSend ==
  LET e == EntityOf[collector.m] IN
  /\ Collector("send", [at |-> "select", m |-> None])
  /\ sendCh[e] = <<>>
  /\ sendCh' = [sendCh EXCEPT ![e] = <<collector.m>>]
  /\ UNCHANGED <<collectCh, chClosed, closed, work, list, recvCh, loop>>

(* case <-ctx.Done(): Lock; closed = true; Unlock; and the deferred close  *)
(* of the channel, which keeps what is in it.                              *)
CollectorDone ==
  /\ stopped
  /\ Collector("select", [at |-> "closing", m |-> None])
  /\ UNCHANGED <<collectCh, chClosed, closed, work, queues>>

(* Mutant: closed is set without the lock. *)
CollectorLockFree ==
  /\ Collector("closing", [at |-> "closed", m |-> None])
  /\ closed' = TRUE
  /\ UNCHANGED <<collectCh, chClosed, work, queues>>

CollectorLock ==
  /\ Collector("closing", [at |-> "closed", m |-> None])
  /\ Readers = {}
  /\ closed' = TRUE
  /\ UNCHANGED <<collectCh, chClosed, work, queues>>

CollectorClose ==
  /\ Collector("closed", [at |-> "ended", m |-> None])
  /\ chClosed' = TRUE
  /\ UNCHANGED <<collectCh, closed, work, queues>>

-----------------------------------------------------------------------------
(* Queue.Loop of the queue of entity e, as in IQueue.                      *)

Loop(e, from, to) ==
  /\ Running
  /\ loop[e].at = from
  /\ loop' = [loop EXCEPT ![e] = to]
  /\ UNCHANGED <<config, context, front, pool, buffer, alerting, scraper, ending>>

LoopFront(e) ==
  /\ Loop(e, "top", IF list[e] = <<>> THEN [at |-> "wait", front |-> None]
                    ELSE [at |-> "select", front |-> Head(list[e])])
  /\ UNCHANGED <<sendCh, list, recvCh>>

LoopTake(e) ==
  /\ Loop(e, "wait", Top) \/ Loop(e, "select", Top)
  /\ sendCh[e] # <<>>
  /\ list' = [list EXCEPT ![e] = @ \o sendCh[e]]
  /\ sendCh' = [sendCh EXCEPT ![e] = <<>>]
  /\ UNCHANGED recvCh

(* The element it hands out is the one it looked at; a worker may have     *)
(* removed it from the list since.                                         *)
LoopHand(e) ==
  /\ Loop(e, "select", [at |-> "remove", front |-> loop[e].front])
  /\ recvCh[e] = <<>>
  /\ recvCh' = [recvCh EXCEPT ![e] = <<loop[e].front>>]
  /\ UNCHANGED <<sendCh, list>>

Without(s, m) == IF m \in ToSet(s) THEN RemoveAt(s, CHOOSE i \in DOMAIN s : s[i] = m) ELSE s

(* Mutant: the front is removed, whatever it is by now. *)
LoopRemoveFront(e) ==
  /\ Loop(e, "remove", Top)
  /\ list' = [list EXCEPT ![e] = IF @ = <<>> THEN @ ELSE Tail(@)]
  /\ UNCHANGED <<sendCh, recvCh>>

LoopRemove(e) ==
  /\ Loop(e, "remove", Top)
  /\ list' = [list EXCEPT ![e] = Without(@, loop[e].front)]
  /\ UNCHANGED <<sendCh, recvCh>>

-----------------------------------------------------------------------------
(* The workers: receive, process, alert and shutdown.                      *)

Working(w, from, to) ==
  /\ Running
  /\ work[w].at = from
  /\ work' = [work EXCEPT ![w] = to]
  /\ UNCHANGED <<config, context, front, sendCh, loop, buffer, scraper>>

On(w, at) == [work[w] EXCEPT !.at = at]

Receive(w) ==
  LET e == WorksFor[w] IN
  /\ recvCh[e] # <<>>
  /\ Working(w, "select", [at |-> "process", m |-> Head(recvCh[e]), draining |-> FALSE])
  /\ recvCh' = [recvCh EXCEPT ![e] = <<>>]
  /\ UNCHANGED <<list, processed, alerting, ending>>

(* process is done with the metric.  In shutdown, an error of process ends *)
(* the worker, with the metric in the list; otherwise it is only logged.   *)
Finish(w, from) ==
  LET e == WorksFor[w] IN
  /\ ~txLocked
  /\ processed' = processed \cup {work[w].m}
  /\ UNCHANGED <<recvCh, ending>>
  /\ \/ ~work[w].draining /\ Working(w, from, Idle) /\ UNCHANGED list
     \/ /\ work[w].draining
        /\ Working(w, from, [Idle EXCEPT !.at = "drain"])
        /\ list' = [list EXCEPT ![e] = Without(@, work[w].m)]
     \/ /\ work[w].draining
        /\ Working(w, from, [Idle EXCEPT !.at = "report"])
        /\ UNCHANGED list

(* process writes to the buffer, and takes the read lock for the predictor *)
(* and for closed.  (For normVectors it may take the write lock as well,   *)
(* and wait longer.)  An outlier is notified of unless closed is set.      *)
Notifies(m) == m \in Outlier /\ ~closed

Process(w) ==
  /\ MayRLock
  /\ ~Notifies(work[w].m)
  /\ Finish(w, "process")
  /\ UNCHANGED alerting

ProcessOutlier(w) ==
  /\ MayRLock
  /\ ~txLocked
  /\ Notifies(work[w].m)
  /\ Working(w, "process", On(w, "notify"))
  /\ UNCHANGED <<list, recvCh, processed, alerting, ending>>

(* By now the notifier may have stopped.                                   *)
Notify(w) ==
  /\ Working(w, "notify", On(w, "finish"))
  /\ Al!Notify(EntityOf[work[w].m])
  /\ UNCHANGED <<list, recvCh, processed, ending>>

FinishOutlier(w) == Finish(w, "finish") /\ UNCHANGED alerting

(* The context is done, or a metric of the list is dealt with: the next    *)
(* one is front := q.Queue().Front().                                      *)
Drain(w) ==
  LET l == list[WorksFor[w]] IN
  /\ \E from \in {"drain"} \cup IF stopped THEN {"select"} ELSE {} :
       Working(w, from, IF l = <<>> THEN On(w, "check")
                        ELSE [at |-> "process", m |-> Head(l), draining |-> TRUE])
  /\ UNCHANGED <<list, recvCh, processed, alerting, ending>>

(* recvShutdown looks at the lists of all entities.                        *)
RecvShutdown == \A e \in Entity : list[e] = <<>>

CheckLists(w) ==
  /\ Working(w, "check", On(w, "report"))
  /\ IF RecvShutdown THEN Al!Cancel ELSE UNCHANGED alerting
  /\ UNCHANGED <<list, recvCh, processed, ending>>

(* shutDownCh <- the result, nil or an error.  run makes room for two      *)
(* messages, and for three in the mode "SCRAPE".                           *)
ShutdownCap == IF mode = "SCRAPE" THEN 3 ELSE 2

SendResult == /\ shutdownCh < ShutdownCap
              /\ shutdownCh' = shutdownCh + 1
              /\ UNCHANGED exited

Report(w) ==
  /\ SendResult
  /\ Working(w, "report", On(w, "ended"))
  /\ UNCHANGED <<list, recvCh, processed, alerting>>

-----------------------------------------------------------------------------
(* The write-behind buffer, the notifier and the scraper.                  *)

Flusher(from, to) ==
  /\ Running
  /\ flusher = from
  /\ flusher' = to
  /\ UNCHANGED <<config, context, front, queues, pool, alerting, scraper>>

(* Mutant: the flusher waits for the collector to close the channel. *)
FlusherWaits == /\ chClosed
                /\ Flusher("select", "ended")
                /\ txLocked' \in BOOLEAN
                /\ SendResult

(* The deferred shutdown keeps dbTxExecutor.mtx when the append fails.     *)
(* The result goes to shutdownCh in the same step: nobody waits for the    *)
(* append to return.  When the channel is full the flusher waits for the   *)
(* end of the process, since run receives only once.                       *)
FlusherStop == /\ stopped
               /\ Flusher("select", "ended")
               /\ txLocked' \in BOOLEAN
               /\ \/ SendResult
                  \/ shutdownCh = ShutdownCap /\ UNCHANGED ending

NotifierShutdown == /\ Running
                    /\ Al!Shutdown
                    /\ UNCHANGED <<config, context, front, queues, pool, buffer, scraper, ending>>

NotifierReport == /\ Running
                  /\ Al!Report
                  /\ SendResult
                  /\ UNCHANGED <<config, context, front, queues, pool, buffer, scraper>>

AtScraper == Running /\ UNCHANGED <<config, front, queues, pool, buffer, alerting>>

ScraperTick == AtScraper /\ Scraper!Tick /\ UNCHANGED ending
ScraperDone == AtScraper /\ Scraper!Done /\ UNCHANGED ending
ScraperReport == AtScraper /\ Scraper!Report /\ SendResult
CancelOutlier == AtScraper /\ Scraper!CancelOutlier /\ UNCHANGED ending

-----------------------------------------------------------------------------
Collecting == CollectorReceive \/ CollectorSend \/ CollectorDone
                \/ CollectorLock \/ CollectorClose
Looping(e) == LoopFront(e) \/ LoopTake(e) \/ LoopHand(e) \/ LoopRemove(e)
Receiving(w) == Receive(w) \/ Process(w) \/ ProcessOutlier(w) \/ Notify(w)
                  \/ FinishOutlier(w) \/ Drain(w) \/ CheckLists(w)
                  \/ Report(w)
Notifying == NotifierShutdown \/ NotifierReport
Scraping == ScraperDone \/ ScraperReport \/ CancelOutlier

Next == \/ Cancel \/ Restart
        \/ Main
        \/ \E m \in Metric : Enter(m) \/ Send(m)
        \/ SendPanics
        \/ Collecting
        \/ \E e \in Entity : Looping(e)
        \/ \E w \in Worker : Receiving(w)
        \/ FlusherStop \/ Notifying
        \/ Scraping \/ ScraperTick

Spec == Init /\ [][Next]_vars

(* The goroutines of run, the collector, the queues, the buffer and the    *)
(* scraper run on when they can; ticks need not come, and nothing below    *)
(* needs the workers or the notifier to run.                               *)
FairSpec == /\ Spec
            /\ WF_vars(Main \/ SendPanics)
            /\ WF_vars(Collecting)
            /\ \A e \in Entity : WF_vars(Looping(e))
            /\ WF_vars(FlusherStop)
            /\ WF_vars(Scraping)

-----------------------------------------------------------------------------
(* Properties.                                                             *)

ControlOK ==
  /\ mode \in Modes /\ starts \in Nat
  /\ {cancelled, stopped, chClosed, closed, txLocked} \subseteq BOOLEAN
  /\ flusher \in {"select", "ended"}
  /\ scraper \in Scraper!ScraperAt
  /\ shutdownCh \in 0 .. ShutdownCap
  /\ exited \in {"no", "returned", "panic"}

FrontOK ==
  /\ loading \in Seq(Reloaded)
  /\ caller \in [Metric -> {"none", "refused", "sending", "accepted"}]
  /\ collectCh \in Seq(All) /\ Len(collectCh) <= 1
  /\ collector \in [at : {"select", "closing", "closed", "ended"}, m : {None}]
                    \cup [at : {"send"}, m : All]
  /\ sent \subseteq All

QueuesOK ==
  /\ \A ch \in {sendCh, recvCh} :
       ch \in [Entity -> Seq(All)] /\ \A e \in Entity : Len(ch[e]) <= 1
  /\ list \in [Entity -> Seq(All)]
  /\ loop \in [Entity -> [at : {"top", "wait"}, front : {None}]
                          \cup [at : {"select", "remove"}, front : All]]

PoolOK ==
  /\ work \in [Worker -> [at : {"none", "select", "drain", "check", "report", "ended"},
                          m : {None}, draining : BOOLEAN]
                         \cup [at : {"process", "notify", "finish"},
                               m : All, draining : BOOLEAN]]
  /\ processed \subseteq All

TypeOK == ControlOK /\ FrontOK /\ QueuesOK /\ PoolOK /\ Al!TypeOK

(* No call of Collect sends to the channel that the collector closed: who  *)
(* sends holds the read lock, and closed is set under the write lock.      *)
NoSendOnClosed == chClosed => Readers = {}

(* A metric that Collect accepted, or that bulkLoad sent, is in one of the *)
(* channels or lists, in the hands of a goroutine, or processed, however   *)
(* the workers drain the lists that Loop empties at the same time.         *)
Held == ToSet(collectCh) \cup {collector.m}
          \cup {work[w].m : w \in Worker}
          \cup UNION {ToSet(sendCh[e]) \cup ToSet(list[e]) \cup ToSet(recvCh[e]) :
                       e \in Entity}
NothingVanishes == Running => sent \subseteq Held \cup processed

(* The program ends when it is told to, though the collector may wait for  *)
(* ever for a caller of Collect that waits for the collector, and workers  *)
(* for the lock of a buffer whose last append failed: the flusher needs    *)
(* neither, and its message is enough.  Only a scraper that a tick found   *)
(* first keeps it up.                                                      *)
Terminates == cancelled ~> ~Running \/ scraper = "scrapping"

(* Every outlier notified of is in memory, in one stored alert, or lost    *)
(* with a process, over the shutdown of one process and the start of the   *)
(* next.                                                                   *)
ImplementsOutbox == Al!ImplementsOutbox

(* When the notifier reports success, all that it was told of by then is   *)
(* in the store, though workers are still draining.                        *)
StoppedIsKept == Al!StoppedIsKept

(* In the mode "SCRAPE" the first message is the scraper's: neither the    *)
(* flusher nor a worker nor the notifier stops before it, so run returns   *)
(* without an error and may do so before the buffer is written.            *)
ScraperEndsFirst == mode = "SCRAPE" /\ shutdownCh > 0 => scraper \in {"cancel", "ended"}

-----------------------------------------------------------------------------
(* Statements that the code does not satisfy, kept for reference; no run   *)
(* checks them (see README, observations).                                 *)

(* "Collect(read write) - To save the value in SOD, recognize it, and      *)
(* inform your applications about the outlier": what Collect accepted is   *)
(* processed before the program returns.                                   *)
AcceptedIsProcessed == exited = "returned" => sent \subseteq processed

(* A signal during the start is handled as one later is.                   *)
StartEndsInOrder == exited # "panic"
=============================================================================
