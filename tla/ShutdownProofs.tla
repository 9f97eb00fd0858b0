--------------------------- MODULE ShutdownProofs ---------------------------
(***************************************************************************)
(* What holds of the start and the end of the service for all metrics,     *)
(* workers, modes and numbers of starts.                                   *)
(*                                                                         *)
(* The service is a composition: the steps of the notifier and the store   *)
(* of alerts are those of Alert.  ServiceUsesNotifier shows that every     *)
(* step of the service is one of Alert or leaves its variables alone; what *)
(* is proved of Alert by itself then holds of the service.                 *)
(*                                                                         *)
(* For what the service does itself there are three invariants besides the *)
(* types: LockInv (the collector, Collect and the lock), ScrapeInv (nobody *)
(* is ahead of the scraper) and HeldInv (where the metrics are).           *)
(***************************************************************************)
EXTENDS Shutdown, FiniteSetTheorems, TLAPS

(* A channel of capacity one is empty or holds its head alone.             *)
LEMMA Channel ==
  ASSUME NEW S, NEW s \in Seq(S), Len(s) <= 1, s # <<>>
  PROVE  Head(s) \in S /\ ToSet(s) = {Head(s)}
<1>1. Len(s) = 1 /\ s[1] \in S /\ Head(s) = s[1]
  OBVIOUS
<1>2. DOMAIN s = {1}
  BY <1>1
<1> QED BY <1>1, <1>2 DEF ToSet

LEMMA Singletons == ToSet(<<>>) = {} /\ \A x : ToSet(<<x>>) = {x}
<1>1. ToSet(<<>>) = {}
  BY DEF ToSet
<1>2. ASSUME NEW x PROVE ToSet(<<x>>) = {x}
  <2>1. DOMAIN <<x>> = {1} /\ <<x>>[1] = x
    OBVIOUS
  <2> QED BY <2>1 DEF ToSet
<1> QED BY <1>1, <1>2

LEMMA HeadInSet ==
  ASSUME NEW S, NEW s \in Seq(S), s # <<>>
  PROVE  Head(s) \in S /\ Head(s) \in ToSet(s) /\ Tail(s) \in Seq(S)
<1>1. 1 \in DOMAIN s /\ Head(s) = s[1]
  OBVIOUS
<1> QED BY <1>1 DEF ToSet

LEMMA ConcatSet ==
  ASSUME NEW S, NEW s \in Seq(S), NEW t \in Seq(S)
  PROVE  s \o t \in Seq(S) /\ ToSet(s \o t) = ToSet(s) \cup ToSet(t)
<1>1. /\ s \o t \in Seq(S) /\ Len(s \o t) = Len(s) + Len(t)
      /\ \A i \in 1 .. Len(s) : (s \o t)[i] = s[i]
      /\ \A i \in 1 .. Len(t) : (s \o t)[Len(s) + i] = t[i]
  OBVIOUS
<1>2. ToSet(s) \subseteq ToSet(s \o t)
  BY <1>1 DEF ToSet
<1>3. ToSet(t) \subseteq ToSet(s \o t)
  <2> SUFFICES ASSUME NEW i \in 1 .. Len(t) PROVE t[i] \in ToSet(s \o t)
    BY SMTT(30) DEF ToSet
  <2>1. Len(s) + i \in 1 .. Len(s \o t)
    BY <1>1
  <2> QED BY <1>1, <2>1 DEF ToSet
<1>4. ToSet(s \o t) \subseteq ToSet(s) \cup ToSet(t)
  <2> SUFFICES ASSUME NEW i \in 1 .. Len(s) + Len(t)
               PROVE  (s \o t)[i] \in ToSet(s) \cup ToSet(t)
    BY <1>1 DEF ToSet
  <2>1. CASE i \in 1 .. Len(s)
    BY <1>1, <2>1 DEF ToSet
  <2>2. CASE i \notin 1 .. Len(s)
    <3>1. i - Len(s) \in 1 .. Len(t) /\ i = Len(s) + (i - Len(s))
      BY <2>2
    <3>2. (s \o t)[i] = t[i - Len(s)]
      BY <1>1, <3>1
    <3> QED BY <3>1, <3>2 DEF ToSet
  <2> QED BY <2>1, <2>2
<1> QED BY <1>1, <1>2, <1>3, <1>4

LEMMA WithoutFacts ==
  ASSUME NEW S, NEW s \in Seq(S), NEW m
  PROVE  /\ Without(s, m) \in Seq(S)
         /\ ToSet(s) \ {m} \subseteq ToSet(Without(s, m))
<1>1. CASE m \notin ToSet(s)
  BY <1>1 DEF Without
<1>2. CASE m \in ToSet(s)
  <2> DEFINE i == CHOOSE j \in DOMAIN s : s[j] = m
             a == SubSeq(s, 1, i - 1)
             b == SubSeq(s, i + 1, Len(s))
  <2>1. i \in 1 .. Len(s) /\ s[i] = m
    BY <1>2 DEF ToSet
  <2>2. Without(s, m) = a \o b
    BY <1>2 DEF Without, RemoveAt
  <2> HIDE DEF i
  <2>3. a \in Seq(S) /\ Len(a) = i - 1 /\ \A j \in 1 .. i - 1 : a[j] = s[j]
    BY <2>1
  <2>4. b \in Seq(S) /\ Len(b) = Len(s) - i /\ \A j \in 1 .. Len(s) - i : b[j] = s[i + j]
    BY <2>1
  <2> HIDE DEF a, b
  <2>5. a \o b \in Seq(S) /\ ToSet(a \o b) = ToSet(a) \cup ToSet(b)
    BY <2>3, <2>4, ConcatSet
  <2>6. ASSUME NEW j \in 1 .. Len(s), j # i PROVE s[j] \in ToSet(a) \cup ToSet(b)
    <3>1. CASE j < i
      BY <3>1, <2>1, <2>3 DEF ToSet
    <3>2. CASE j > i
      <4>1. j - i \in 1 .. Len(s) - i /\ b[j - i] = s[j]
        BY <3>2, <2>1, <2>4
      <4> QED BY <4>1, <2>4 DEF ToSet
    <3> QED BY <3>1, <3>2, <2>1, <2>6
  <2>7. ToSet(s) \ {m} \subseteq ToSet(a) \cup ToSet(b)
    BY <2>1, <2>6 DEF ToSet
  <2> QED BY <2>2, <2>5, <2>7
<1> QED BY <1>1, <1>2

LEMMA ReloadedInOrder == SetToSeq(Reloaded) \in Seq(Reloaded)
<1>1. Cardinality(Reloaded) \in Nat /\ ExistsBijection(1 .. Cardinality(Reloaded), Reloaded)
  BY MetricAssumption, FS_CardinalityType
<1>2. PICK f \in [1 .. Cardinality(Reloaded) -> Reloaded] : IsInjective(f)
  BY <1>1 DEF ExistsBijection, Bijection, Injection, IsInjective
<1>3. SetToSeq(Reloaded) \in [1 .. Cardinality(Reloaded) -> Reloaded]
  BY <1>2 DEF SetToSeq
<1> QED BY <1>1, <1>3

LEMMA WorkersHaveQueues == \A w \in Worker : WorksFor[w] \in Entity
BY WorkerAssumption DEF Entity, All

-----------------------------------------------------------------------------
(* The steps, by the part of the service that takes them, and what each    *)
(* part leaves alone.                                                      *)

Ends == \E how \in {"returned", "panic"} : Exit(how)
Clients == \E m \in Metric : Enter(m) \/ Send(m)
Starting == RunNotifier \/ LoadAlerts

LEMMA Steps ==
  ASSUME Next
  PROVE  \/ Ends \/ Cancel \/ Restart \/ Load \/ Starting \/ LaunchScraper
         \/ Clients \/ Collecting
         \/ (\E e \in Entity : Looping(e)) \/ (\E w \in Worker : Receiving(w))
         \/ FlusherStop \/ Notifying \/ Scraping \/ ScraperTick
<1>1. Return \/ LoadAlertsPanics \/ SendPanics => Ends
  BY DEF Return, LoadAlertsPanics, SendPanics, Ends
<1>2. Main => Ends \/ Load \/ Starting \/ LaunchScraper
  BY <1>1 DEF Main, Starting
<1> QED BY <1>1, <1>2 DEF Next, Clients

LEMMA StartingLeaves ==
  Starting \/ Notifying => UNCHANGED <<config, context, front, queues, pool, buffer, scraper>>
BY DEF Starting, RunNotifier, LoadAlerts, Notifying, NotifierShutdown, NotifierReport

LEMMA ScraperLeaves ==
  LaunchScraper \/ Scraping \/ ScraperTick
    => UNCHANGED <<config, front, queues, pool, buffer, alerting>>
BY DEF LaunchScraper, Scraping, ScraperTick, ScraperDone, ScraperReport, CancelOutlier, AtScraper

LEMMA CancelLeaves ==
  Cancel => UNCHANGED <<config, front, queues, pool, buffer, alerting, scraper, ending>>
BY DEF Cancel

LEMMA LoadLeaves ==
  Load => UNCHANGED <<config, context, queues, pool, buffer, alerting, scraper, ending>>
BY DEF Load

LEMMA ClientsLeave ==
  Clients => UNCHANGED <<config, context, queues, pool, buffer, alerting, scraper, ending>>
BY DEF Clients, Enter, Send

LEMMA CollectingLeaves ==
  Collecting => UNCHANGED <<config, context, list, recvCh, loop, processed, buffer, alerting,
                            scraper, ending>>
BY DEF Collecting, CollectorReceive, CollectorSend, CollectorDone, CollectorLock,
       CollectorClose, Collector, queues

LEMMA LoopingLeaves ==
  ASSUME NEW e \in Entity, Looping(e)
  PROVE  UNCHANGED <<config, context, front, pool, buffer, alerting, scraper, ending>>
BY DEF Looping, LoopFront, LoopTake, LoopHand, LoopRemove, Loop

LEMMA ReceivingLeaves ==
  ASSUME NEW w \in Worker, Receiving(w)
  PROVE  UNCHANGED <<config, context, front, sendCh, loop, buffer, scraper>>
BY DEF Receiving, Receive, Process, ProcessOutlier, Notify, FinishOutlier, Finish, Drain,
       CheckLists, Report, Working

LEMMA FlusherLeaves ==
  FlusherStop => UNCHANGED <<config, context, front, queues, pool, alerting, scraper>>
BY DEF FlusherStop, Flusher

LEMMA RestartLeaves ==
  Restart => UNCHANGED <<mode, context, loading, collectCh, chClosed, closed, collector,
                         queues, work, buffer, alerting, scraper, shutdownCh>>
BY DEF Restart

-----------------------------------------------------------------------------
(* Types, but for the variables of the alert manager.                      *)

LEMMA Capacity == ShutdownCap \in Nat /\ 0 \in 0 .. ShutdownCap
<1>1. ShutdownCap = 3 \/ ShutdownCap = 2
  BY DEF ShutdownCap
<1> QED BY <1>1

LEMMA InitTypes == Init => ControlOK /\ FrontOK /\ QueuesOK /\ PoolOK
<1> SUFFICES ASSUME Init PROVE ControlOK /\ FrontOK /\ QueuesOK /\ PoolOK
  OBVIOUS
<1>1. ControlOK
  BY Capacity DEF Init, ControlOK, Scraper!ScraperAt
<1>2. FrontOK
  BY ReloadedInOrder DEF Init, Boot, FrontOK
<1>3. QueuesOK
  BY DEF Init, Boot, Top, QueuesOK
<1>4. PoolOK
  BY DEF Init, Boot, Unborn, Idle, PoolOK
<1> QED BY <1>1, <1>2, <1>3, <1>4

LEMMA EndsTypes ==
  ASSUME FrontOK, ControlOK, PoolOK, Ends
  PROVE  ControlOK' /\ FrontOK' /\ QueuesOK' /\ PoolOK'
<1> PICK how \in {"returned", "panic"} : Exit(how)
  BY DEF Ends
<1>1. ControlOK'
  <2>1. shutdownCh' = 0 /\ ShutdownCap' = ShutdownCap
    BY DEF Exit, ShutdownCap, config
  <2> QED BY <2>1, Capacity DEF Exit, ControlOK, Scraper!ScraperAt, config
<1>2. FrontOK'
  <2>1. caller' \in [Metric -> {"none", "refused", "sending", "accepted"}]
    BY DEF Exit, FrontOK
  <2> QED BY <2>1 DEF Exit, Boot, FrontOK
<1>3. QueuesOK'
  BY DEF Exit, Boot, Top, QueuesOK
<1>4. PoolOK'
  BY DEF Exit, Boot, Unborn, Idle, PoolOK
<1> QED BY <1>1, <1>2, <1>3, <1>4

LEMMA Reports == SendResult /\ ControlOK => shutdownCh' \in 0 .. ShutdownCap /\ exited' = exited
BY DEF SendResult, ControlOK, ShutdownCap

LEMMA ControlStep == ControlOK /\ FrontOK /\ PoolOK /\ [Next]_vars => ControlOK'
<1> SUFFICES ASSUME ControlOK, FrontOK, PoolOK, [Next]_vars PROVE ControlOK'
  OBVIOUS
<1> USE DEF config, context, ending, buffer, front
<1>1. ShutdownCap' = ShutdownCap \/ mode' # mode
  BY DEF ShutdownCap
<1>2. CASE Ends
  BY <1>2, EndsTypes
<1>3. CASE UNCHANGED <<config, context, front, buffer, scraper, ending>>
  BY <1>1, <1>3 DEF ControlOK
<1>4. CASE UNCHANGED vars
  BY <1>4, <1>3 DEF vars
<1>5. CASE Cancel
  BY <1>1, <1>5, CancelLeaves DEF ControlOK, Cancel
<1>6. CASE Restart
  BY <1>1, <1>6 DEF ControlOK, Restart
<1>7. CASE Load \/ Clients
  BY <1>1, <1>7 DEF ControlOK, Load, Clients, Enter, Send
<1>8. CASE Starting \/ Notifying
  <2>1. shutdownCh' \in 0 .. ShutdownCap /\ exited' = exited
    BY <1>8, Reports DEF Starting, RunNotifier, LoadAlerts, Notifying, NotifierShutdown,
                         NotifierReport, ControlOK
  <2> QED BY <1>1, <1>8, <2>1, StartingLeaves DEF ControlOK
<1>9. CASE LaunchScraper \/ Scraping \/ ScraperTick
  <2>1. shutdownCh' \in 0 .. ShutdownCap /\ exited' = exited
    BY <1>9, Reports DEF LaunchScraper, Scraping, ScraperTick, ScraperDone, ScraperReport,
                         CancelOutlier, ControlOK
  <2>2. scraper' \in Scraper!ScraperAt /\ {cancelled', stopped'} \subseteq BOOLEAN
    BY <1>9 DEF LaunchScraper, Scraping, ScraperTick, ScraperDone, ScraperReport,
                CancelOutlier, ControlOK, Scraper!ScraperAt, Scraper!At, Scraper!Launch,
                Scraper!Tick, Scraper!Done, Scraper!Report, Scraper!CancelOutlier
  <2> QED BY <1>1, <1>9, <2>1, <2>2, ScraperLeaves DEF ControlOK
<1>10. CASE Collecting
  BY <1>1, <1>10, CollectingLeaves DEF ControlOK, Collecting, CollectorReceive, CollectorSend,
                  CollectorDone, CollectorLock, CollectorClose, Collector
<1>11. ASSUME NEW e \in Entity, Looping(e) PROVE ControlOK'
  BY <1>3, <1>11, LoopingLeaves
<1>12. ASSUME NEW w \in Worker, Receiving(w) PROVE ControlOK'
  <2>1. shutdownCh' \in 0 .. ShutdownCap /\ exited' = exited
    BY <1>12, Reports DEF Receiving, Receive, Process, ProcessOutlier, Notify, FinishOutlier,
                          Finish, Drain, CheckLists, Report, ControlOK
  <2> QED BY <1>1, <1>12, <2>1, ReceivingLeaves DEF ControlOK
<1>13. CASE FlusherStop
  <2>1. shutdownCh' \in 0 .. ShutdownCap /\ exited' = exited
    BY <1>13, Reports DEF FlusherStop, ControlOK
  <2> QED BY <1>1, <1>13, <2>1, FlusherLeaves DEF ControlOK, FlusherStop, Flusher
<1> QED BY <1>2, <1>4, <1>5, <1>6, <1>7, <1>8, <1>9, <1>10, <1>11, <1>12, <1>13, Steps

LEMMA FrontStep == ControlOK /\ FrontOK /\ PoolOK /\ [Next]_vars => FrontOK'
<1> SUFFICES ASSUME ControlOK, FrontOK, PoolOK, [Next]_vars PROVE FrontOK'
  OBVIOUS
<1>1. ASSUME UNCHANGED front PROVE FrontOK'
  BY <1>1 DEF front, FrontOK
<1>2. CASE Ends
  BY <1>2, EndsTypes
<1>3. CASE UNCHANGED vars
  BY <1>1, <1>3 DEF vars
<1>4. CASE Cancel \/ Starting \/ Notifying \/ LaunchScraper \/ Scraping \/ ScraperTick \/ FlusherStop
  BY <1>1, <1>4, CancelLeaves, StartingLeaves, ScraperLeaves, FlusherLeaves
<1>5. CASE \/ \E e \in Entity : Looping(e)
           \/ \E w \in Worker : Receiving(w)
  BY <1>1, <1>5, LoopingLeaves, ReceivingLeaves
<1>6. CASE Restart
  <2>1. caller' \in [Metric -> {"none", "refused", "sending", "accepted"}]
    BY <1>6 DEF Restart, FrontOK
  <2> QED BY <1>6, <2>1 DEF Restart, FrontOK
<1>7. CASE Load
  <2>1. Head(loading) \in Reloaded /\ Tail(loading) \in Seq(Reloaded)
    BY <1>7, HeadInSet DEF Load, FrontOK
  <2>2. <<Head(loading)>> \in Seq(All) /\ Len(<<Head(loading)>>) = 1
    BY <2>1 DEF All
  <2> QED BY <1>7, <2>1, <2>2 DEF Load, FrontOK, All
<1>8. ASSUME NEW m \in Metric, Enter(m) PROVE FrontOK'
  BY <1>8 DEF Enter, FrontOK
<1>9. ASSUME NEW m \in Metric, Send(m) PROVE FrontOK'
  <2>1. <<m>> \in Seq(All) /\ Len(<<m>>) = 1 /\ m \in All
    BY DEF All
  <2> QED BY <1>9, <2>1 DEF Send, FrontOK
<1>10. CASE Collecting
  <2>1. UNCHANGED <<loading, caller, sent>>
    BY <1>10 DEF Collecting, CollectorReceive, CollectorSend, CollectorDone, CollectorLock,
                 CollectorClose, Collector
  <2>2. CASE CollectorReceive
    <3>1. Head(collectCh) \in All
      BY <2>2, HeadInSet DEF CollectorReceive, FrontOK
    <3>2. collector' = [at |-> "send", m |-> Head(collectCh)] /\ collectCh' = <<>>
      BY <2>2 DEF CollectorReceive, Collector
    <3> QED BY <2>1, <3>1, <3>2 DEF FrontOK
  <2>3. CASE CollectorSend \/ CollectorDone \/ CollectorLock \/ CollectorClose
    BY <2>1, <2>3 DEF CollectorSend, CollectorDone, CollectorLock, CollectorClose, Collector, FrontOK
  <2> QED BY <1>10, <2>2, <2>3 DEF Collecting
<1> QED BY <1>2, <1>3, <1>4, <1>5, <1>6, <1>7, <1>8, <1>9, <1>10, Steps DEF Clients

LEMMA CollectorHolds ==
  ASSUME FrontOK, collector.at = "send"
  PROVE  collector.m \in All /\ EntityOf[collector.m] \in Entity
BY DEF FrontOK, Entity

LEMMA LoopHolds ==
  ASSUME QueuesOK, NEW e \in Entity
  PROVE  /\ loop[e].at \in {"select", "remove"} => loop[e].front \in All
         /\ list[e] \in Seq(All)
         /\ sendCh[e] \in Seq(All) /\ Len(sendCh[e]) <= 1
         /\ recvCh[e] \in Seq(All) /\ Len(recvCh[e]) <= 1
BY DEF QueuesOK

LEMMA WorkerHolds ==
  ASSUME PoolOK, NEW w \in Worker
  PROVE  /\ work[w].m \in All \cup {None}
         /\ work[w].at \in {"process", "notify", "finish"} <=> work[w].m \in All
         /\ work[w].draining \in BOOLEAN
         /\ work[w].m \in All => EntityOf[work[w].m] \in Entity
<1>1. None \notin All
  BY MetricAssumption DEF All
<1> QED BY <1>1 DEF PoolOK, Entity

LEMMA QueuesStep ==
  ControlOK /\ FrontOK /\ QueuesOK /\ PoolOK /\ [Next]_vars => QueuesOK'
<1> SUFFICES ASSUME ControlOK, FrontOK, QueuesOK, PoolOK, [Next]_vars PROVE QueuesOK'
  OBVIOUS
<1>1. ASSUME UNCHANGED queues PROVE QueuesOK'
  BY <1>1 DEF queues, QueuesOK
<1>2. CASE Ends
  BY <1>2, EndsTypes
<1>3. CASE UNCHANGED vars
  BY <1>1, <1>3 DEF vars
<1>4. CASE \/ Cancel \/ Restart \/ Load \/ Clients \/ Starting \/ Notifying \/ LaunchScraper
           \/ Scraping \/ ScraperTick \/ FlusherStop
  BY <1>1, <1>4, CancelLeaves, RestartLeaves, LoadLeaves, ClientsLeave, StartingLeaves,
     ScraperLeaves, FlusherLeaves
<1>5. CASE Collecting
  <2>1. UNCHANGED <<list, recvCh, loop>>
    BY <1>5, CollectingLeaves
  <2>2. CASE CollectorReceive \/ CollectorDone \/ CollectorLock \/ CollectorClose
    BY <1>1, <2>2 DEF CollectorReceive, CollectorDone, CollectorLock, CollectorClose
  <2>3. CASE CollectorSend
    <3>1. collector.m \in All /\ EntityOf[collector.m] \in Entity
      BY <2>3, CollectorHolds DEF CollectorSend, Collector
    <3>2. <<collector.m>> \in Seq(All) /\ Len(<<collector.m>>) = 1
      BY <3>1
    <3> QED BY <2>1, <2>3, <3>1, <3>2 DEF CollectorSend, QueuesOK
  <2> QED BY <1>5, <2>2, <2>3 DEF Collecting
<1>6. ASSUME NEW e \in Entity, Looping(e) PROVE QueuesOK'
  <2> USE LoopHolds
  <2>1. CASE LoopFront(e)
    <3>1. list[e] # <<>> => Head(list[e]) \in All
      BY HeadInSet
    <3> QED BY <2>1, <3>1 DEF LoopFront, Loop, QueuesOK
  <2>2. CASE LoopTake(e)
    <3>1. list[e] \o sendCh[e] \in Seq(All)
      BY ConcatSet
    <3>2. loop' = [loop EXCEPT ![e] = Top]
      BY <2>2 DEF LoopTake, Loop
    <3> QED BY <2>2, <3>1, <3>2 DEF LoopTake, Top, QueuesOK
  <2>3. CASE LoopHand(e)
    <3>1. loop[e].front \in All /\ <<loop[e].front>> \in Seq(All) /\ Len(<<loop[e].front>>) = 1
      BY <2>3 DEF LoopHand, Loop
    <3> QED BY <2>3, <3>1 DEF LoopHand, Loop, QueuesOK
  <2>4. CASE LoopRemove(e)
    <3>1. Without(list[e], loop[e].front) \in Seq(All)
      BY WithoutFacts
    <3> QED BY <2>4, <3>1 DEF LoopRemove, Loop, Top, QueuesOK
  <2> QED BY <1>6, <2>1, <2>2, <2>3, <2>4 DEF Looping
<1>7. ASSUME NEW w \in Worker, Receiving(w) PROVE QueuesOK'
  <2>1. UNCHANGED <<sendCh, loop>>
    BY <1>7, ReceivingLeaves
  <2>2. WorksFor[w] \in Entity
    BY WorkersHaveQueues
  <2>3. ASSUME UNCHANGED <<list, recvCh>> PROVE QueuesOK'
    BY <1>1, <2>1, <2>3 DEF queues
  <2>4. CASE Receive(w)
    BY <2>1, <2>2, <2>4 DEF Receive, QueuesOK
  <2>5. CASE ProcessOutlier(w) \/ Notify(w) \/ Drain(w) \/ CheckLists(w) \/ Report(w)
    BY <2>3, <2>5 DEF ProcessOutlier, Notify, Drain, CheckLists, Report
  <2>6. CASE Process(w) \/ FinishOutlier(w)
    <3>1. \/ UNCHANGED <<list, recvCh>>
          \/ /\ list' = [list EXCEPT ![WorksFor[w]] = Without(@, work[w].m)]
             /\ UNCHANGED recvCh
      BY <2>6 DEF Process, FinishOutlier, Finish
    <3>2. Without(list[WorksFor[w]], work[w].m) \in Seq(All)
      BY <2>2, LoopHolds, WithoutFacts
    <3> QED BY <2>1, <2>2, <2>3, <3>1, <3>2 DEF QueuesOK
  <2> QED BY <1>7, <2>4, <2>5, <2>6 DEF Receiving
<1> QED BY <1>2, <1>3, <1>4, <1>5, <1>6, <1>7, Steps

(* A worker that is moved to one of these places keeps the types.          *)
Places == [at : {"none", "select", "drain", "check", "report", "ended"},
           m : {None}, draining : BOOLEAN]
            \cup [at : {"process", "notify", "finish"}, m : All, draining : BOOLEAN]

LEMMA MovePlaces ==
  ASSUME PoolOK, NEW w \in Worker, NEW to \in Places, work' = [work EXCEPT ![w] = to],
         processed' \subseteq All
  PROVE  PoolOK'
BY DEF PoolOK, Places

LEMMA IdlePlaces == \A a \in {"none", "select", "drain", "check", "report", "ended"} :
                      [Idle EXCEPT !.at = a] \in Places
BY DEF Idle, Places

LEMMA PoolStep ==
  ControlOK /\ FrontOK /\ QueuesOK /\ PoolOK /\ [Next]_vars => PoolOK'
<1> SUFFICES ASSUME ControlOK, FrontOK, QueuesOK, PoolOK, [Next]_vars PROVE PoolOK'
  OBVIOUS
<1>1. ASSUME UNCHANGED pool PROVE PoolOK'
  BY <1>1 DEF pool, PoolOK
<1>2. CASE Ends
  BY <1>2, EndsTypes
<1>3. CASE UNCHANGED vars
  BY <1>1, <1>3 DEF vars
<1>4. CASE \/ Cancel \/ Load \/ Clients \/ Starting \/ Notifying \/ LaunchScraper
           \/ Scraping \/ ScraperTick \/ FlusherStop
  BY <1>1, <1>4, CancelLeaves, LoadLeaves, ClientsLeave, StartingLeaves, ScraperLeaves,
     FlusherLeaves
<1>5. CASE Restart
  BY <1>5 DEF Restart, PoolOK
<1>6. CASE Collecting
  <2>1. processed' = processed
    BY <1>6, CollectingLeaves
  <2>2. CASE CollectorReceive
    BY <2>1, <2>2 DEF CollectorReceive, Started, Idle, PoolOK
  <2>3. CASE CollectorSend \/ CollectorDone \/ CollectorLock \/ CollectorClose
    BY <2>1, <2>3 DEF CollectorSend, CollectorDone, CollectorLock, CollectorClose, PoolOK
  <2> QED BY <1>6, <2>2, <2>3 DEF Collecting
<1>7. ASSUME NEW e \in Entity, Looping(e) PROVE PoolOK'
  BY <1>1, <1>7, LoopingLeaves
<1>8. ASSUME NEW w \in Worker, Receiving(w) PROVE PoolOK'
  <2>1. WorksFor[w] \in Entity
    BY WorkersHaveQueues
  <2>2. /\ work[w].m \in All \cup {None} /\ work[w].draining \in BOOLEAN
        /\ work[w].at \in {"process", "notify", "finish"} <=> work[w].m \in All
    BY WorkerHolds
  <2>3. CASE Receive(w)
    <3>1. Head(recvCh[WorksFor[w]]) \in All
      BY <2>1, <2>3, LoopHolds, HeadInSet DEF Receive
    <3> QED BY <2>3, <3>1 DEF Receive, Working, PoolOK
  <2>4. CASE ProcessOutlier(w) \/ Notify(w)
    BY <2>4 DEF ProcessOutlier, Notify, Working, On, PoolOK
  <2>5. CASE Process(w) \/ FinishOutlier(w)
    <3>1. work[w].m \in All
      BY <2>2, <2>5 DEF Process, FinishOutlier, Finish, Working
    <3>2. Idle \in Places
      BY DEF Idle, Places
    <3>3. \E to \in Places : work' = [work EXCEPT ![w] = to]
      BY <2>5, <3>2, IdlePlaces DEF Process, FinishOutlier, Finish, Working
    <3>4. processed' \subseteq All
      BY <2>5, <3>1 DEF Process, FinishOutlier, Finish, PoolOK
    <3> QED BY <3>3, <3>4, MovePlaces
  <2>6. CASE Drain(w)
    <3>1. list[WorksFor[w]] # <<>> => Head(list[WorksFor[w]]) \in All
      BY <2>1, LoopHolds, HeadInSet
    <3>2. work[w].at \in {"select", "drain"} /\ work[w].m = None
      BY <2>6 DEF Drain, Working, PoolOK
    <3>3. /\ processed' = processed
          /\ \/ work' = [work EXCEPT ![w] = On(w, "check")]
             \/ /\ list[WorksFor[w]] # <<>>
                /\ work' = [work EXCEPT ![w] = [at |-> "process", draining |-> TRUE,
                                                m |-> Head(list[WorksFor[w]])]]
      BY <2>6 DEF Drain, Working
    <3>4. On(w, "check") \in Places
      BY <3>2 DEF On, Places, PoolOK
    <3>5. list[WorksFor[w]] # <<>> =>
            [at |-> "process", draining |-> TRUE, m |-> Head(list[WorksFor[w]])] \in Places
      BY <3>1 DEF Places
    <3>6. processed' \subseteq All
      BY <3>3 DEF PoolOK
    <3> QED BY <3>3, <3>4, <3>5, <3>6, MovePlaces
  <2>7. CASE CheckLists(w) \/ Report(w)
    <3>1. work[w].at \in {"check", "report"} /\ work[w].m = None
      BY <2>7 DEF CheckLists, Report, Working, PoolOK
    <3> QED BY <2>7, <3>1 DEF CheckLists, Report, Working, On, PoolOK
  <2> QED BY <1>8, <2>3, <2>4, <2>5, <2>6, <2>7 DEF Receiving
<1> QED BY <1>2, <1>3, <1>4, <1>5, <1>6, <1>7, <1>8, Steps

-----------------------------------------------------------------------------
(* The alert manager, by itself: what Alert does for every set of entities *)
(* and any number of notifications and starts.                             *)
(*                                                                         *)
(* It has to be known, while shutdown goes through the map, that an entity *)
(* it has yet to store has nothing in the store, and that one it has been  *)
(* at has everything there (Halfway); and so, before shutdown, that what   *)
(* is in memory is not in the store (Unstored).                            *)

Separate == \A e, f \in Entity : e # f => alerts[e] \cap alerts[f] = {}

Unstored == notifier \in {"off", "select"} => Al!Memory \cap Al!Kept = {}

Halfway == notifier = "storing" =>
             /\ \A e \in toStore : alerts[e] # {} /\ alerts[e] \cap Al!Kept = {}
             /\ \A e \in Entity \ toStore : alerts[e] \subseteq Al!Kept

StopsOnce == /\ loader = "off" => notifier = "off"
             /\ notifier # "storing" => toStore = {}

AlertInv == Al!TypeOK /\ Separate /\ Unstored /\ Halfway /\ StopsOnce

-----------------------------------------------------------------------------
(* What is in memory and in the store, element by element.                 *)

LEMMA InMemory == \A x : x \in Al!Memory <=> \E e \in Entity : x \in alerts[e]
BY DEF Al!Memory

LEMMA InKept == \A x : x \in Al!Kept <=> \E r \in rows : x \in r.metrics
BY DEF Al!Kept

LEMMA OnlyNumbers == Al!TypeOK => Al!Memory \subseteq 1 .. count /\ Al!Kept \subseteq 1 .. count
<1>1. Al!TypeOK => Al!Memory \subseteq 1 .. count
  BY InMemory DEF Al!TypeOK
<1>2. Al!TypeOK => Al!Kept \subseteq 1 .. count
  BY InKept DEF Al!TypeOK
<1> QED BY <1>1, <1>2

(* A new notification is in neither.                                       *)
LEMMA NewNumber == Al!TypeOK => count + 1 \notin Al!Memory \cup Al!Kept
<1> SUFFICES ASSUME Al!TypeOK, count + 1 \in 1 .. count PROVE FALSE
  BY OnlyNumbers
<1> QED BY DEF Al!TypeOK

(* What Notify, Store and the end of the process do to both.               *)
LEMMA NotifyAdds ==
  ASSUME Al!TypeOK, NEW e \in Entity, Al!Notify(e)
  PROVE  Al!Memory' = Al!Memory \cup {count + 1} /\ Al!Kept' = Al!Kept
<1>1. \A f \in Entity : alerts'[f] = IF f = e THEN alerts[e] \cup {count + 1} ELSE alerts[f]
  BY DEF Al!TypeOK, Al!Notify
<1>2. Al!Memory' = Al!Memory \cup {count + 1}
  BY <1>1 DEF Al!Memory
<1>3. Al!Kept' = Al!Kept
  BY DEF Al!Kept, Al!Notify
<1> QED BY <1>2, <1>3

LEMMA StoreKeeps ==
  ASSUME NEW e \in Entity, Al!Store(e)
  PROVE  Al!Memory' = Al!Memory /\ Al!Kept' = Al!Kept \cup alerts[e]
<1>1. Al!Memory' = Al!Memory
  BY DEF Al!Memory, Al!Store
<1>2. Al!Kept' = Al!Kept \cup alerts[e]
  <2> DEFINE row == [entity |-> e, metrics |-> alerts[e]]
  <2>1. rows' = rows \cup {row} /\ row.metrics = alerts[e]
    BY DEF Al!Store
  <2> HIDE DEF row
  <2> QED BY <2>1 DEF Al!Kept
<1> QED BY <1>1, <1>2

LEMMA DieForgets == Al!Die => Al!Memory' = {} /\ Al!Kept' = Al!Kept
<1>1. Al!Die => Al!Memory' = {}
  BY DEF Al!Die, Al!Nothing, Al!Memory
<1>2. Al!Die => Al!Kept' = Al!Kept
  BY DEF Al!Die, Al!Kept
<1> QED BY <1>1, <1>2

LEMMA SameRows == UNCHANGED <<alerts, rows>> => UNCHANGED <<Al!Memory, Al!Kept>>
BY DEF Al!Memory, Al!Kept

(* The steps that touch neither the alerts in memory nor those stored.     *)
NotifierElsewhere ==
  \/ Al!Cancel \/ Al!Run \/ Al!BulkLoad \/ Al!Stop
  \/ (\E e \in Entity : Al!StoreFails(e)) \/ Al!Stored \/ Al!Report

LEMMA AlertSteps ==
  ASSUME Al!Next
  PROVE  \/ \E e \in Entity : Al!Notify(e)
         \/ \E e \in Entity : Al!Store(e)
         \/ NotifierElsewhere
         \/ Al!Die
BY DEF Al!Next, Al!Shutdown, NotifierElsewhere, Al!BulkLoadPanics

LEMMA NotifierElsewhereLeaves == NotifierElsewhere => UNCHANGED <<count, alerts, rows>>
BY DEF NotifierElsewhere, Al!Cancel, Al!Run, Al!BulkLoad, Al!Stop, Al!StoreFails, Al!Stored,
       Al!Report

-----------------------------------------------------------------------------
LEMMA AlertTypeStep == Al!TypeOK /\ [Al!Next]_(Al!vars) => Al!TypeOK'
<1> SUFFICES ASSUME Al!TypeOK, [Al!Next]_(Al!vars) PROVE Al!TypeOK'
  OBVIOUS
<1> USE DEF Al!TypeOK, Al!NotifierAt
<1>1. ASSUME NEW e \in Entity, Al!Notify(e) PROVE Al!TypeOK'
  <2>1. 1 .. count \subseteq 1 .. count' /\ count' \in Nat /\ count + 1 \in 1 .. count'
    BY <1>1 DEF Al!Notify
  <2>2. alerts' \in [Entity -> SUBSET (1 .. count')]
    BY <1>1, <2>1 DEF Al!Notify
  <2>3. rows' \subseteq [entity : Entity, metrics : SUBSET (1 .. count')]
    BY <1>1, <2>1 DEF Al!Notify
  <2> QED BY <1>1, <2>1, <2>2, <2>3 DEF Al!Notify
<1>2. ASSUME NEW e \in Entity, Al!Store(e) PROVE Al!TypeOK'
  BY <1>2 DEF Al!Store
<1>3. ASSUME NotifierElsewhere PROVE Al!TypeOK'
  BY <1>3 DEF NotifierElsewhere, Al!Cancel, Al!Run, Al!BulkLoad, Al!Stop, Al!StoreFails,
              Al!Stored, Al!Report
<1>4. ASSUME Al!Die PROVE Al!TypeOK'
  BY <1>4 DEF Al!Die, Al!Nothing
<1>5. CASE UNCHANGED Al!vars
  BY <1>5 DEF Al!vars
<1> QED BY <1>1, <1>2, <1>3, <1>4, <1>5, AlertSteps

LEMMA AlertInitInv == Al!Init => AlertInv
<1> SUFFICES ASSUME Al!Init PROVE AlertInv
  OBVIOUS
<1>1. Al!TypeOK
  BY DEF Al!Init, Al!Nothing, Al!TypeOK, Al!NotifierAt
<1>2. Separate
  BY DEF Al!Init, Al!Nothing, Separate
<1>3. Al!Memory = {}
  BY DEF Al!Init, Al!Nothing, Al!Memory
<1> QED BY <1>1, <1>2, <1>3 DEF Al!Init, AlertInv, Unstored, Halfway, StopsOnce

LEMMA AlertInvStep == AlertInv /\ [Al!Next]_(Al!vars) => AlertInv'
<1> SUFFICES ASSUME AlertInv, [Al!Next]_(Al!vars) PROVE AlertInv'
  OBVIOUS
<1>1. Al!TypeOK'
  BY AlertTypeStep DEF AlertInv
<1>2. ASSUME NEW e \in Entity, Al!Notify(e) PROVE AlertInv'
  <2>1. /\ Al!Memory' = Al!Memory \cup {count + 1}
        /\ Al!Kept' = Al!Kept
        /\ count + 1 \notin Al!Memory \cup Al!Kept
    BY <1>2, NotifyAdds, NewNumber DEF AlertInv
  <2>2. \A f \in Entity : alerts'[f] = IF f = e THEN alerts[e] \cup {count + 1} ELSE alerts[f]
    BY <1>2 DEF AlertInv, Al!TypeOK, Al!Notify
  <2>3. \A f \in Entity : count + 1 \notin alerts[f]
    BY <2>1, InMemory
  <2>4. Separate'
    BY <2>2, <2>3 DEF AlertInv, Separate
  <2>5. Unstored' /\ Halfway' /\ StopsOnce'
    BY <1>2, <2>1 DEF AlertInv, Unstored, Halfway, StopsOnce, Al!Notify
  <2> QED BY <1>1, <2>4, <2>5 DEF AlertInv
<1>3. ASSUME NEW e \in Entity, Al!Store(e) PROVE AlertInv'
  <2>1. Al!Kept' = Al!Kept \cup alerts[e]
    BY <1>3, StoreKeeps
  <2>2. \A f \in toStore \ {e} : alerts[f] \cap alerts[e] = {}
    BY <1>3 DEF AlertInv, Al!TypeOK, Separate
  <2>3. Halfway'
    BY <1>3, <2>1, <2>2 DEF AlertInv, Halfway, Al!Store
  <2>4. Separate' /\ Unstored' /\ StopsOnce'
    BY <1>3 DEF AlertInv, Separate, Unstored, StopsOnce, Al!Store
  <2> QED BY <1>1, <2>3, <2>4 DEF AlertInv
<1>4. ASSUME NotifierElsewhere PROVE AlertInv'
  <2>1. UNCHANGED <<alerts, Al!Memory, Al!Kept>>
    BY <1>4, NotifierElsewhereLeaves, SameRows
  <2>2. Separate'
    BY <2>1 DEF AlertInv, Separate
  <2>3. Unstored'
    BY <1>4, <2>1 DEF AlertInv, Unstored, StopsOnce, NotifierElsewhere, Al!Cancel, Al!Run,
                      Al!BulkLoad, Al!Stop, Al!StoreFails, Al!Stored, Al!Report
  <2>4. StopsOnce'
    BY <1>4 DEF AlertInv, StopsOnce, NotifierElsewhere, Al!Cancel, Al!Run, Al!BulkLoad,
                Al!Stop, Al!StoreFails, Al!Stored, Al!Report
  <2>5. Halfway'
    <3>1. CASE Al!Stop
      <4>1. \A f \in Entity : alerts[f] \cap Al!Kept = {}
        BY <3>1, InMemory DEF AlertInv, Unstored, Al!Stop
      <4> QED BY <3>1, <4>1, <2>1 DEF Halfway, Al!Stop
    <3>2. CASE ~Al!Stop
      BY <1>4, <3>2, <2>1 DEF AlertInv, Halfway, StopsOnce, NotifierElsewhere, Al!Cancel,
                              Al!Run, Al!BulkLoad, Al!StoreFails, Al!Stored, Al!Report
    <3> QED BY <3>1, <3>2
  <2> QED BY <1>1, <2>2, <2>3, <2>4, <2>5 DEF AlertInv
<1>5. ASSUME Al!Die PROVE AlertInv'
  <2>1. Al!Memory' = {}
    BY <1>5, DieForgets
  <2> QED BY <1>1, <1>5, <2>1 DEF AlertInv, Separate, Unstored, Halfway, StopsOnce, Al!Die,
                                  Al!Nothing
<1>6. CASE UNCHANGED Al!vars
  <2>1. UNCHANGED <<Al!Memory, Al!Kept>>
    BY <1>6, SameRows DEF Al!vars
  <2> QED BY <1>1, <1>6, <2>1 DEF Al!vars, AlertInv, Separate, Unstored, Halfway, StopsOnce
<1> QED BY <1>2, <1>3, <1>4, <1>5, <1>6, AlertSteps

(* The invariant that the theorems below rest on, for every set of         *)
(* entities.                                                               *)
THEOREM AlertInvariant == Al!Spec => []AlertInv
BY AlertInitInv, AlertInvStep, PTL DEF Al!Spec

(* Every variable keeps its type: in particular, nothing is ever stored    *)
(* that nobody notified of.                                                *)
THEOREM AlertTypeCorrect == Al!Spec => []Al!TypeOK
<1>1. AlertInv => Al!TypeOK
  BY DEF AlertInv
<1> QED BY <1>1, AlertInvariant, PTL

(* When the notifier reports success, each outlier it was told of by then  *)
(* is in the store.                                                        *)
THEOREM StoppedIsAlwaysKept == Al!Spec => Al!StoppedIsKept
<1>1. AlertInv /\ [Al!Next]_(Al!vars) /\ notifier # "stored" /\ notifier' = "stored"
        => Al!Memory \subseteq Al!Kept
  <2> SUFFICES ASSUME AlertInv, [Al!Next]_(Al!vars), notifier # "stored", notifier' = "stored"
               PROVE  Al!Memory \subseteq Al!Kept
    OBVIOUS
  <2>1. Al!Stored
    BY DEF Al!Next, Al!vars, Al!Notify, Al!Cancel, Al!Run, Al!BulkLoad, Al!Shutdown, Al!Stop,
           Al!Store, Al!StoreFails, Al!Report, Al!BulkLoadPanics, Al!Die
  <2> QED BY <2>1, InMemory DEF AlertInv, Halfway, Al!Stored
<1>2. AlertInv /\ [Al!Next]_(Al!vars)
        => [notifier # "stored" /\ notifier' = "stored" => Al!Memory \subseteq Al!Kept]_(Al!vars)
  BY <1>1
<1> QED BY <1>2, AlertInvariant, PTL DEF Al!Spec, Al!StoppedIsKept

-----------------------------------------------------------------------------
LEMMA OutboxStep == AlertInv /\ [Al!Next]_(Al!vars) => [Al!Box!Next]_(Al!Box!vars)
<1> SUFFICES ASSUME AlertInv, [Al!Next]_(Al!vars) PROVE [Al!Box!Next]_(Al!Box!vars)
  OBVIOUS
<1>1. ASSUME NEW e \in Entity, Al!Notify(e) PROVE Al!Box!Accept
  <2>1. /\ Al!Memory' = Al!Memory \cup {count + 1}
        /\ Al!Kept' = Al!Kept
        /\ count + 1 \notin Al!Memory \cup Al!Kept
    BY <1>1, NotifyAdds, NewNumber DEF AlertInv
  <2>2. count' = count + 1 /\ rows' = rows
    BY <1>1 DEF Al!Notify
  <2>3. Al!Memory' \ Al!Kept' = (Al!Memory \ Al!Kept) \cup {count + 1}
    BY <2>1
  <2>4. (1 .. count') = (1 .. count) \cup {count + 1}
    BY <2>2 DEF AlertInv, Al!TypeOK
  <2>5. (1 .. count') \ (Al!Memory' \cup Al!Kept') = (1 .. count) \ (Al!Memory \cup Al!Kept)
    BY <2>1, <2>4 DEF AlertInv, Al!TypeOK
  <2> QED BY <2>2, <2>3, <2>5 DEF Al!Box!Accept
<1>2. ASSUME NEW e \in Entity, Al!Store(e)
      PROVE  \E S \in SUBSET (Al!Memory \ Al!Kept) : Al!Box!Keep(S)
  <2>1. Al!Memory' = Al!Memory /\ Al!Kept' = Al!Kept \cup alerts[e]
    BY <1>2, StoreKeeps
  <2>2. alerts[e] # {} /\ alerts[e] \subseteq Al!Memory \ Al!Kept
    BY <1>2, InMemory DEF AlertInv, Halfway, Al!Store
  <2>3. {r.metrics : r \in rows'} = {r.metrics : r \in rows} \cup {alerts[e]}
    <3> DEFINE row == [entity |-> e, metrics |-> alerts[e]]
    <3>1. rows' = rows \cup {row} /\ row.metrics = alerts[e]
      BY <1>2 DEF Al!Store
    <3> HIDE DEF row
    <3> QED BY <3>1
  <2>4. Al!Memory' \ Al!Kept' = (Al!Memory \ Al!Kept) \ alerts[e]
    BY <2>1
  <2>5. count' = count
    BY <1>2 DEF Al!Store
  <2>6. (1 .. count') \ (Al!Memory' \cup Al!Kept') = (1 .. count) \ (Al!Memory \cup Al!Kept)
    BY <2>1, <2>2, <2>5
  <2>7. alerts[e] \in SUBSET (Al!Memory \ Al!Kept)
    BY <2>2
  <2> QED BY <2>2, <2>3, <2>4, <2>5, <2>6, <2>7 DEF Al!Box!Keep
<1>3. ASSUME Al!Die PROVE Al!Box!Lose
  <2>1. Al!Memory' = {} /\ Al!Kept' = Al!Kept /\ count' = count /\ rows' = rows
    BY <1>3, DieForgets DEF Al!Die
  <2>2. (1 .. count) \ Al!Kept
          = ((1 .. count) \ (Al!Memory \cup Al!Kept)) \cup (Al!Memory \ Al!Kept)
    BY OnlyNumbers DEF AlertInv
  <2>3. (1 .. count') \ (Al!Memory' \cup Al!Kept')
          = ((1 .. count) \ (Al!Memory \cup Al!Kept)) \cup (Al!Memory \ Al!Kept)
    BY <2>1, <2>2
  <2> QED BY <2>1, <2>3 DEF Al!Box!Lose
<1>4. ASSUME UNCHANGED <<count, alerts, rows>> PROVE UNCHANGED Al!Box!vars
  <2>1. UNCHANGED <<Al!Memory, Al!Kept>>
    BY <1>4, SameRows
  <2> QED BY <1>4, <2>1 DEF Al!Box!vars
<1>5. CASE NotifierElsewhere
  BY <1>4, <1>5, NotifierElsewhereLeaves
<1>6. CASE UNCHANGED Al!vars
  BY <1>4, <1>6 DEF Al!vars
<1> QED BY <1>1, <1>2, <1>3, <1>5, <1>6, AlertSteps DEF Al!Box!Next

(* The alert manager and its store implement the outbox: each outlier is   *)
(* in memory, in one stored alert for good, or was lost with a process     *)
(* that ended, through any interleaving of workers and shutdown.           *)
THEOREM NotifierImplementsOutbox == Al!Spec => Al!ImplementsOutbox
<1>1. Al!Init => Al!Box!Init
  <2> SUFFICES ASSUME Al!Init PROVE Al!Box!Init
    OBVIOUS
  <2>1. Al!Memory = {} /\ rows = {} /\ count = 0
    BY DEF Al!Init, Al!Nothing, Al!Memory
  <2>2. (1 .. count) = {}
    BY <2>1
  <2> QED BY <2>1, <2>2 DEF Al!Box!Init
<1> QED BY <1>1, OutboxStep, AlertInvariant, PTL DEF Al!Spec, Al!ImplementsOutbox, Al!Box!Spec

-----------------------------------------------------------------------------
(* The alert manager as the service uses it.                               *)

LEMMA AlertStep ==
  ControlOK /\ FrontOK /\ QueuesOK /\ PoolOK /\ [Next]_vars => [Al!Next]_(Al!vars)
<1> SUFFICES ASSUME ControlOK, FrontOK, QueuesOK, PoolOK, [Next]_vars
             PROVE  Al!Next \/ UNCHANGED alerting
  BY DEF alerting, Al!vars
<1>1. CASE Ends
  <2>1. Al!Die
    BY <1>1 DEF Ends, Exit
  <2> QED BY <2>1 DEF Al!Next
<1>2. CASE UNCHANGED vars
  BY <1>2 DEF vars
<1>3. CASE \/ Cancel \/ Restart \/ Load \/ LaunchScraper \/ Clients \/ Collecting \/ FlusherStop
           \/ Scraping \/ ScraperTick
  BY <1>3, CancelLeaves, RestartLeaves, LoadLeaves, ScraperLeaves, ClientsLeave,
     CollectingLeaves, FlusherLeaves
<1>4. CASE Starting \/ Notifying
  <2>1. Al!Run \/ Al!BulkLoad \/ Al!Shutdown \/ Al!Report
    BY <1>4 DEF Starting, RunNotifier, LoadAlerts, Notifying, NotifierShutdown, NotifierReport
  <2> QED BY <2>1 DEF Al!Next
<1>5. ASSUME NEW e \in Entity, Looping(e) PROVE UNCHANGED alerting
  BY <1>5, LoopingLeaves
<1>6. ASSUME NEW w \in Worker, Receiving(w) PROVE Al!Next \/ UNCHANGED alerting
  <2>1. CASE Notify(w)
    <3>1. Al!Notify(EntityOf[work[w].m]) /\ EntityOf[work[w].m] \in Entity
      BY <2>1, WorkerHolds DEF Notify, Working
    <3> QED BY <3>1 DEF Al!Next
  <2>2. CASE CheckLists(w)
    BY <2>2 DEF CheckLists, Al!Next
  <2>3. CASE \/ Receive(w) \/ Process(w) \/ ProcessOutlier(w) \/ FinishOutlier(w)
             \/ Drain(w) \/ Report(w)
    BY <2>3 DEF Receive, Process, ProcessOutlier, FinishOutlier, Drain, Report
  <2> QED BY <1>6, <2>1, <2>2, <2>3 DEF Receiving
<1> QED BY <1>1, <1>2, <1>3, <1>4, <1>5, <1>6, Steps

LEMMA InitTypeOK == Init => TypeOK
<1>1. Init => Al!Init
  BY DEF Init
<1>2. Al!Init => Al!TypeOK
  BY AlertInitInv DEF AlertInv
<1> QED BY <1>1, <1>2, InitTypes DEF TypeOK

LEMMA TypeStep == TypeOK /\ [Next]_vars => TypeOK'
BY ControlStep, FrontStep, QueuesStep, PoolStep, AlertStep, AlertTypeStep DEF TypeOK

(* Every variable keeps its type: no channel ever holds more than it has   *)
(* room for, and whoever has a metric in hand has one that was sent.       *)
THEOREM TypeCorrect == Spec => []TypeOK
BY InitTypeOK, TypeStep, PTL DEF Spec

(* The service uses the notifier as its own specification has it, for any  *)
(* metrics, workers and starts.                                            *)
LEMMA ServiceUsesNotifier == Spec => Al!Spec
<1>1. Init => Al!Init
  BY DEF Init
<1>2. TypeOK /\ [Next]_vars => [Al!Next]_(Al!vars)
  BY AlertStep DEF TypeOK
<1> QED BY <1>1, <1>2, TypeCorrect, PTL DEF Spec, Al!Spec

(* Hence the notifier keeps its promise inside the service: when it        *)
(* reports success, every outlier that a worker told it of is stored.      *)
THEOREM ServiceKeepsWhatItStopped == Spec => StoppedIsKept
BY ServiceUsesNotifier, StoppedIsAlwaysKept DEF StoppedIsKept

(* And so does the store: over any number of starts, each outlier notified *)
(* of is in memory, in one stored alert, or was lost with a process.       *)
THEOREM ServiceImplementsOutbox == Spec => ImplementsOutbox
BY ServiceUsesNotifier, NotifierImplementsOutbox DEF ImplementsOutbox

-----------------------------------------------------------------------------
(* manager.mtx.  The channel is closed after closed is set; closed is set  *)
(* when no call of Collect holds the read lock, and none takes it to send  *)
(* from then on.                                                           *)

LockInv == /\ chClosed => closed
           /\ collector.at = "closed" => closed
           /\ closed => Readers = {}

LEMMA LockInit == Init => LockInv
BY DEF Init, Boot, LockInv

LEMMA LockStep == TypeOK /\ LockInv /\ [Next]_vars => LockInv'
<1> SUFFICES ASSUME TypeOK, LockInv, [Next]_vars PROVE LockInv'
  OBVIOUS
<1>1. ASSUME UNCHANGED front PROVE LockInv'
  BY <1>1 DEF front, LockInv, Readers
<1>2. CASE Ends
  BY <1>2 DEF Ends, Exit, Boot, LockInv
<1>3. CASE UNCHANGED vars
  BY <1>1, <1>3 DEF vars
<1>4. CASE Cancel \/ Starting \/ Notifying \/ LaunchScraper \/ Scraping \/ ScraperTick \/ FlusherStop
  BY <1>1, <1>4, CancelLeaves, StartingLeaves, ScraperLeaves, FlusherLeaves
<1>5. CASE \/ \E e \in Entity : Looping(e)
           \/ \E w \in Worker : Receiving(w)
  BY <1>1, <1>5, LoopingLeaves, ReceivingLeaves
<1>6. CASE Restart \/ Load
  BY <1>6 DEF Restart, Load, LockInv, Readers
<1>7. ASSUME NEW m \in Metric, Enter(m) \/ Send(m) PROVE LockInv'
  <2>1. \A n \in Metric : caller'[n] = "sending" => caller[n] = "sending" \/ ~closed
    BY <1>7 DEF Enter, Send, TypeOK, FrontOK
  <2> QED BY <1>7, <2>1 DEF Enter, Send, LockInv, Readers
<1>8. CASE Collecting
  <2>1. UNCHANGED <<caller, Readers>>
    BY <1>8 DEF Collecting, CollectorReceive, CollectorSend, CollectorDone, CollectorLock,
                CollectorClose, Collector, Readers
  <2> QED BY <1>8, <2>1 DEF Collecting, CollectorReceive, CollectorSend, CollectorDone,
                            CollectorLock, CollectorClose, Collector, LockInv
<1> QED BY <1>2, <1>3, <1>4, <1>5, <1>6, <1>7, <1>8, Steps DEF Clients

(* No call of Collect meets the closed channel, however many clients call  *)
(* while the collector stops.                                              *)
THEOREM NeverSendsOnClosed == Spec => []NoSendOnClosed
<1>1. LockInv => NoSendOnClosed
  BY DEF LockInv, NoSendOnClosed
<1> QED BY <1>1, LockInit, LockStep, TypeCorrect, PTL DEF Spec

-----------------------------------------------------------------------------
(* The mode "SCRAPE".  Until the scraper sends its message nobody stops    *)
(* the dispatcher, so nobody who waits for that has got anywhere.          *)

ScraperAhead == mode = "SCRAPE" /\ scraper \notin {"cancel", "ended"}

Quiet == /\ ~stopped
         /\ shutdownCh = 0
         /\ flusher = "select"
         /\ ~notifierDone
         /\ notifier \in {"off", "select"}
         /\ \A w \in Worker : /\ work[w].at \in {"none", "select", "process", "notify", "finish"}
                              /\ ~work[w].draining

ScrapeInv == ScraperAhead => Quiet

LEMMA ScrapeInit == Init => ScrapeInv
BY DEF Init, Boot, Unborn, Idle, Al!Init, ScrapeInv, Quiet

LEMMA ScrapeStep == TypeOK /\ ScrapeInv /\ [Next]_vars => ScrapeInv'
<1> SUFFICES ASSUME TypeOK, ScrapeInv, [Next]_vars PROVE ScrapeInv'
  OBVIOUS
<1> USE DEF ScrapeInv, ScraperAhead, Quiet
<1>1. ASSUME UNCHANGED <<mode, stopped, shutdownCh, flusher, notifierDone, notifier, work, scraper>>
      PROVE  ScrapeInv'
  BY <1>1
<1>2. CASE Ends
  BY <1>2 DEF Ends, Exit, Boot, Unborn, Idle, Al!Die, config
<1>3. CASE UNCHANGED vars
  BY <1>1, <1>3 DEF vars, config, context, ending, buffer, alerting, pool
<1>4. CASE Load \/ Clients \/ Restart \/ \E e \in Entity : Looping(e)
  BY <1>1, <1>4, LoadLeaves, ClientsLeave, RestartLeaves, LoopingLeaves
     DEF config, context, ending, buffer, alerting, pool
<1>5. CASE Cancel
  BY <1>5, CancelLeaves DEF Cancel, config, ending, buffer, alerting, pool
<1>6. CASE Starting
  BY <1>6 DEF Starting, RunNotifier, LoadAlerts, Al!Run, Al!BulkLoad, config, context, ending, buffer,
              pool
<1>7. CASE Notifying
  BY <1>7 DEF Notifying, NotifierShutdown, NotifierReport, Al!Shutdown, Al!Stop, Al!Store,
              Al!StoreFails, Al!Stored, Al!Report, config, context, pool, buffer, ending
<1>8. CASE LaunchScraper \/ Scraping \/ ScraperTick
  <2>1. UNCHANGED <<mode, flusher, notifierDone, notifier, work>>
    BY <1>8, ScraperLeaves DEF config, buffer, alerting, pool
  <2>2. scraper' \notin {"cancel", "ended"} =>
          UNCHANGED <<stopped, shutdownCh>> /\ scraper \notin {"cancel", "ended"}
    BY <1>8 DEF LaunchScraper, Scraping, ScraperTick, ScraperDone, ScraperReport, CancelOutlier,
                Scraper!Launch, Scraper!At, Scraper!Tick, Scraper!Done, Scraper!Report,
                Scraper!CancelOutlier, ending
  <2> QED BY <2>1, <2>2
<1>9. CASE Collecting
  <2>1. \A w \in Worker : work'[w] = work[w] \/ (work'[w] = Idle /\ work[w].at = "none")
    BY <1>9 DEF Collecting, CollectorReceive, CollectorSend, CollectorDone, CollectorLock,
                CollectorClose, Started, TypeOK, PoolOK
  <2> QED BY <1>9, <2>1, CollectingLeaves DEF Idle, config, context, ending, buffer, alerting
<1>10. ASSUME NEW w \in Worker, Receiving(w) PROVE ScrapeInv'
  <2>1. UNCHANGED <<mode, stopped, flusher, scraper>>
    BY <1>10, ReceivingLeaves DEF config, context, buffer
  <2>2. SUFFICES ASSUME Quiet PROVE Quiet'
    BY <2>1
  <2>3. work[w].at \notin {"drain", "check", "report"} /\ ~work[w].draining
    BY <2>2
  <2>4. UNCHANGED <<shutdownCh, notifierDone, notifier>>
    BY <1>10, <2>2, <2>3 DEF Receiving, Receive, Process, ProcessOutlier, Notify, FinishOutlier,
          Finish, Drain, CheckLists, Report, Working, Al!Notify, ending, alerting
  <2>5. work \in [Worker -> Places]
    BY DEF TypeOK, PoolOK, Places
  <2>6. /\ \A v \in Worker \ {w} : work'[v] = work[v]
        /\ work'[w].at \in {"select", "process", "notify", "finish"} /\ ~work'[w].draining
    <3>1. CASE Receive(w)
      BY <3>1, <2>5 DEF Receive, Working
    <3>2. CASE Process(w) \/ FinishOutlier(w)
      BY <3>2, <2>3, <2>5 DEF Process, FinishOutlier, Finish, Working, Idle
    <3>3. CASE ProcessOutlier(w) \/ Notify(w)
      <4>1. /\ work'[w] = On(w, "notify") \/ work'[w] = On(w, "finish")
            /\ \A v \in Worker \ {w} : work'[v] = work[v]
        BY <3>3, <2>5 DEF ProcessOutlier, Notify, Working
      <4>2. ASSUME NEW a PROVE On(w, a).at = a /\ On(w, a).draining = work[w].draining
        BY <2>5 DEF On, Places
      <4> HIDE DEF Quiet
      <4> QED BY <4>1, <4>2, <2>3
    <3>4. CASE Drain(w) \/ CheckLists(w) \/ Report(w)
      BY <3>4, <2>2, <2>3 DEF Drain, CheckLists, Report, Working
    <3> QED BY <1>10, <3>1, <3>2, <3>3, <3>4 DEF Receiving
  <2> QED BY <2>1, <2>2, <2>4, <2>6
<1>11. CASE FlusherStop
  BY <1>11, FlusherLeaves DEF FlusherStop, config, context
<1> QED BY <1>2, <1>3, <1>4, <1>5, <1>6, <1>7, <1>8, <1>9, <1>10, <1>11, Steps

(* In the mode "SCRAPE" run returns on the scraper's message, for any      *)
(* number of workers: no other can come first.                             *)
THEOREM ScraperAlwaysEndsFirst == Spec => []ScraperEndsFirst
<1>1. TypeOK /\ ScrapeInv => ScraperEndsFirst
  BY DEF TypeOK, ControlOK, ScrapeInv, ScraperAhead, Quiet, ScraperEndsFirst
<1> QED BY <1>1, ScrapeInit, ScrapeStep, TypeCorrect, PTL DEF Spec

-----------------------------------------------------------------------------
(* Where the metrics are.  Loop looks at the front of the list, hands it   *)
(* out and removes it later, while workers in shutdown remove what they    *)
(* are done with.  Nothing vanishes since what Loop is about to remove is  *)
(* with a worker or processed already (Handed).                            *)

Has(x) == \/ x \in ToSet(collectCh) \/ x = collector.m
          \/ \E e \in Entity : x \in ToSet(sendCh[e]) \/ x \in ToSet(list[e]) \/ x \in ToSet(recvCh[e])
          \/ \E w \in Worker : x = work[w].m
          \/ x \in processed

LEMMA HasHeld == NothingVanishes <=> (Running => \A x \in sent : Has(x))
<1>1. \A x : Has(x) <=> x \in Held \cup processed
  BY DEF Has, Held
<1> QED BY <1>1 DEF NothingVanishes

Passed(e, x) == \/ x \in ToSet(recvCh[e])
                \/ \E w \in Worker : x = work[w].m
                \/ x \in processed

Handed == /\ \A e \in Entity : loop[e].at = "remove" => Passed(e, loop[e].front)
          /\ ~Running => \A e \in Entity : loop[e].at # "remove"

Found == Running => \A x \in sent : Has(x)

HeldInv == Handed /\ Found

LEMMA HeldInit == Init => HeldInv
BY DEF Init, Boot, Top, HeldInv, Handed, Found

(* The steps between the clients and the queues.                           *)
LEMMA CollectingKeeps ==
  ASSUME TypeOK, HeldInv, Load \/ Clients \/ Collecting
  PROVE  HeldInv'
<1> USE DEF HeldInv
<1>1. UNCHANGED <<list, recvCh, loop, processed, exited>> /\ Running
  BY CollectingLeaves DEF Load, Clients, Enter, Send, Collecting, CollectorReceive, CollectorSend,
        CollectorDone, CollectorLock, CollectorClose, Collector, queues, pool, ending
<1>2. \A w \in Worker : work'[w].m = work[w].m
  <2>1. CASE ~CollectorReceive
    BY <2>1 DEF Load, Clients, Enter, Send, Collecting, CollectorSend, CollectorDone, CollectorLock,
                CollectorClose, pool
  <2>2. CASE CollectorReceive
    BY <2>2 DEF CollectorReceive, Started, Idle, TypeOK, PoolOK
  <2> QED BY <2>1, <2>2
<1>3. Handed'
  BY <1>1, <1>2 DEF Handed, Passed, Running
<1>4. ASSUME NEW x \in sent', x \in sent => Has(x) PROVE Has(x)'
  <2>1. CASE Load
    <3>1. Head(loading) \in Reloaded
      BY <2>1, HeadInSet DEF Load, TypeOK, FrontOK
    <3>2. ToSet(collectCh) = {} /\ ToSet(collectCh') = {Head(loading)}
      BY <2>1, Singletons DEF Load
    <3>3. UNCHANGED <<collector, sendCh>> /\ sent' = sent \cup {Head(loading)}
      BY <2>1 DEF Load, queues
    <3> QED BY <1>1, <1>2, <1>4, <3>2, <3>3 DEF Has
  <2>2. ASSUME NEW m \in Metric, Enter(m) PROVE Has(x)'
    BY <1>1, <1>2, <1>4, <2>2 DEF Enter, Has, queues
  <2>3. ASSUME NEW m \in Metric, Send(m) PROVE Has(x)'
    <3>1. ToSet(collectCh) = {} /\ ToSet(collectCh') = {m}
      BY <2>3, Singletons DEF Send
    <3>2. UNCHANGED <<collector, sendCh>> /\ sent' = sent \cup {m}
      BY <2>3 DEF Send, queues
    <3> QED BY <1>1, <1>2, <1>4, <3>1, <3>2 DEF Has
  <2>4. CASE Collecting
    <3>1. x \in sent /\ x # None
      BY <1>4, <2>4, MetricAssumption DEF Collecting, CollectorReceive, CollectorSend, CollectorDone,
         CollectorLock, CollectorClose, Collector, TypeOK, FrontOK, All
    <3>2. CASE CollectorReceive
      <4>1. ToSet(collectCh) = {Head(collectCh)}
        BY <3>2, Channel DEF CollectorReceive, TypeOK, FrontOK
      <4>2. collector.m = None
        BY <3>2 DEF CollectorReceive, Collector, TypeOK, FrontOK
      <4>3. UNCHANGED sendCh /\ collector'.m = Head(collectCh)
        BY <3>2 DEF CollectorReceive, Collector, queues
      <4> QED BY <1>1, <1>2, <1>4, <3>1, <4>1, <4>2, <4>3 DEF Has
    <3>3. CASE CollectorSend
      <4>1. EntityOf[collector.m] \in Entity
        BY <3>3, CollectorHolds DEF CollectorSend, Collector, TypeOK
      <4>2. sendCh' = [sendCh EXCEPT ![EntityOf[collector.m]] = <<collector.m>>]
            /\ sendCh[EntityOf[collector.m]] = <<>> /\ collectCh' = collectCh
        BY <3>3 DEF CollectorSend
      <4>3. /\ ToSet(sendCh'[EntityOf[collector.m]]) = {collector.m}
            /\ ToSet(sendCh[EntityOf[collector.m]]) = {}
            /\ \A e \in Entity \ {EntityOf[collector.m]} : sendCh'[e] = sendCh[e]
        BY <4>1, <4>2, Singletons DEF TypeOK, QueuesOK
      <4> QED BY <1>1, <1>2, <1>4, <3>1, <4>1, <4>2, <4>3 DEF Has
    <3>4. CASE CollectorDone \/ CollectorLock \/ CollectorClose
      <4>1. UNCHANGED <<collectCh, sendCh>> /\ collector.m = None
        BY <3>4 DEF CollectorDone, CollectorLock, CollectorClose, Collector, queues, TypeOK, FrontOK
      <4> QED BY <1>1, <1>2, <1>4, <3>1, <4>1 DEF Has
    <3> QED BY <2>4, <3>2, <3>3, <3>4 DEF Collecting
  <2> QED BY <2>1, <2>2, <2>3, <2>4 DEF Clients
<1>5. Found'
  BY <1>1, <1>4 DEF Found
<1> QED BY <1>3, <1>5

(* Loop, of the queue of one entity.                                       *)
LEMMA LoopingKeeps ==
  ASSUME TypeOK, HeldInv, NEW e \in Entity, Looping(e)
  PROVE  HeldInv'
<1> USE DEF HeldInv
<1>1. /\ UNCHANGED <<collectCh, collector, work, processed, sent, exited>> /\ Running
      /\ loop \in [Entity -> [at : {"top", "wait", "select", "remove"}, front : All \cup {None}]]
      /\ \A f \in Entity : sendCh[f] \in Seq(All) /\ list[f] \in Seq(All) /\ recvCh[f] \in Seq(All)
  BY LoopingLeaves DEF Looping, LoopFront, LoopTake, LoopHand, LoopRemove, Loop, front, pool, ending,
                       TypeOK, QueuesOK
<1>2. \A f \in Entity \ {e} : UNCHANGED <<sendCh[f], list[f], recvCh[f], loop[f]>>
  BY <1>1 DEF Looping, LoopFront, LoopTake, LoopHand, LoopRemove, Loop, TypeOK, QueuesOK
<1>3. /\ (loop[e].at = "remove" => Passed(e, loop[e].front))'
      /\ \A x : Passed(e, x) => Passed(e, x)'
      /\ \A x \in ToSet(sendCh[e]) \cup ToSet(list[e]) :
           x \in ToSet(sendCh'[e]) \cup ToSet(list'[e]) \/ Passed(e, x)
  <2>1. CASE LoopFront(e)
    <3>1. loop'[e].at # "remove" /\ UNCHANGED <<sendCh, list, recvCh>>
      BY <2>1, <1>1 DEF LoopFront, Loop
    <3> QED BY <1>1, <3>1 DEF Passed
  <2>2. CASE LoopTake(e)
    <3>1. loop'[e].at # "remove" /\ recvCh' = recvCh /\ list'[e] = list[e] \o sendCh[e]
      BY <2>2, <1>1 DEF LoopTake, Loop, Top, TypeOK, QueuesOK
    <3> QED BY <1>1, <3>1, ConcatSet DEF Passed
  <2>3. CASE LoopHand(e)
    <3>1. /\ loop'[e].front = loop[e].front /\ UNCHANGED <<sendCh, list>>
          /\ recvCh[e] = <<>> /\ recvCh'[e] = <<loop[e].front>>
      BY <2>3, <1>1 DEF LoopHand, Loop, TypeOK, QueuesOK
    <3> QED BY <1>1, <3>1, Singletons DEF Passed
  <2>4. CASE LoopRemove(e)
    <3>1. /\ loop[e].at = "remove" /\ loop'[e].at # "remove" /\ UNCHANGED <<sendCh, recvCh>>
          /\ list'[e] = Without(list[e], loop[e].front)
      BY <2>4, <1>1 DEF LoopRemove, Loop, Top, TypeOK, QueuesOK
    <3>2. Passed(e, loop[e].front)
      BY <3>1 DEF Handed
    <3> QED BY <1>1, <3>1, <3>2, WithoutFacts DEF Passed
  <2> QED BY <2>1, <2>2, <2>3, <2>4 DEF Looping
<1>4. Handed'
  <2>1. \A f \in Entity \ {e} : (loop[f].at = "remove" => Passed(f, loop[f].front))'
    BY <1>1, <1>2 DEF Handed, Passed
  <2> QED BY <1>1, <1>3, <2>1 DEF Handed, Running
<1>5. ASSUME NEW x \in sent PROVE Has(x)'
  <2>1. Has(x)
    BY <1>1 DEF Found
  <2>2. Passed(e, x) => Has(x)'
    BY <1>3 DEF Passed, Has
  <2>3. CASE x \in ToSet(sendCh[e]) \cup ToSet(list[e])
    BY <2>2, <2>3, <1>3 DEF Has
  <2>4. CASE \E f \in Entity \ {e} : x \in ToSet(sendCh[f]) \/ x \in ToSet(list[f]) \/ x \in ToSet(recvCh[f])
    BY <1>2, <2>4 DEF Has
  <2> QED BY <1>1, <2>1, <2>2, <2>3, <2>4 DEF Has, Passed
<1>6. Found'
  BY <1>1, <1>5 DEF Found
<1> QED BY <1>4, <1>6

(* The workers, in shutdown or not.                                        *)
LEMMA ReceivingKeeps ==
  ASSUME TypeOK, HeldInv, NEW w \in Worker, Receiving(w)
  PROVE  HeldInv'
<1> USE DEF HeldInv
<1> DEFINE e == WorksFor[w]
<1>1. /\ UNCHANGED <<collectCh, collector, sendCh, loop, sent>> /\ Running
      /\ e \in Entity /\ work \in [Worker -> Places]
      /\ \A f \in Entity : sendCh[f] \in Seq(All) /\ list[f] \in Seq(All) /\ recvCh[f] \in Seq(All)
  BY ReceivingLeaves, WorkersHaveQueues
     DEF Receiving, Receive, Process, ProcessOutlier, Notify, FinishOutlier, Finish, Drain, CheckLists,
         Report, Working, front, TypeOK, QueuesOK, PoolOK, Places
<1>2. Running'
  BY <1>1 DEF Receiving, Receive, Process, ProcessOutlier, Notify, FinishOutlier, Finish, Drain,
              CheckLists, Report, SendResult, Running, ending
<1>3. /\ \A f \in Entity \ {e} : UNCHANGED <<list[f], recvCh[f]>>
      /\ \A v \in Worker \ {w} : UNCHANGED work[v]
  BY <1>1 DEF Receiving, Receive, Process, ProcessOutlier, Notify, FinishOutlier, Finish, Drain,
              CheckLists, Report, Working, TypeOK, QueuesOK, PoolOK
<1>4. ASSUME NEW x \in All
      PROVE  /\ x \in ToSet(recvCh[e]) => x \in ToSet(recvCh'[e]) \/ x = work'[w].m
             /\ x = work[w].m => x = work'[w].m \/ x \in processed'
  <2>1. x # None
    BY MetricAssumption DEF All
  <2>2. CASE Receive(w)
    <3>1. ToSet(recvCh[e]) = {Head(recvCh[e])}
      BY <2>2, <1>1, LoopHolds, Channel DEF Receive, TypeOK
    <3>2. work[w].m = None /\ work'[w].m = Head(recvCh[e]) /\ processed' = processed
      BY <2>2, <1>1 DEF Receive, Working, Places
    <3> QED BY <2>1, <3>1, <3>2
  <2>3. CASE Process(w) \/ FinishOutlier(w)
    BY <2>3 DEF Process, FinishOutlier, Finish
  <2>4. CASE ProcessOutlier(w) \/ Notify(w) \/ CheckLists(w) \/ Report(w)
    <3>1. /\ UNCHANGED <<recvCh, processed>>
          /\ \E a \in {"notify", "finish", "report", "ended"} : work'[w] = On(w, a)
      BY <2>4, <1>1 DEF ProcessOutlier, Notify, CheckLists, Report, Working
    <3>2. work'[w].m = work[w].m
      BY <3>1, <1>1 DEF On, Places
    <3> QED BY <3>1, <3>2
  <2>5. CASE Drain(w)
    <3>1. UNCHANGED <<recvCh, processed>> /\ work[w].m = None
      BY <2>5, <1>1 DEF Drain, Working, Places
    <3> QED BY <2>1, <3>1
  <2> QED BY <2>2, <2>3, <2>4, <2>5 DEF Receiving
<1>5. ASSUME NEW x \in ToSet(list[e]) PROVE x \in ToSet(list'[e]) \/ x \in processed'
  <2>1. CASE Process(w) \/ FinishOutlier(w)
    <3>1. /\ \/ list' = list
             \/ list' = [list EXCEPT ![e] = Without(@, work[w].m)]
          /\ work[w].m \in processed'
      BY <2>1 DEF Process, FinishOutlier, Finish
    <3>2. list'[e] = list[e] \/ list'[e] = Without(list[e], work[w].m)
      BY <3>1, <1>1 DEF TypeOK, QueuesOK
    <3> QED BY <1>1, <3>1, <3>2, WithoutFacts
  <2>2. CASE \/ Receive(w) \/ ProcessOutlier(w) \/ Notify(w) \/ Drain(w) \/ CheckLists(w) \/ Report(w)
    BY <2>2 DEF Receive, ProcessOutlier, Notify, Drain, CheckLists, Report
  <2> QED BY <2>1, <2>2 DEF Receiving
<1>6. processed \subseteq processed'
  BY DEF Receiving, Receive, Process, ProcessOutlier, Notify, FinishOutlier, Finish, Drain,
         CheckLists, Report
<1> HIDE DEF e
<1>7. ASSUME NEW f \in Entity, NEW x \in All, Passed(f, x) PROVE Passed(f, x)'
  <2>1. CASE x \in ToSet(recvCh[f])
    BY <2>1, <1>3, <1>4 DEF Passed
  <2>2. ASSUME NEW v \in Worker, x = work[v].m PROVE Passed(f, x)'
    <3>1. CASE v = w
      BY <2>2, <3>1, <1>4 DEF Passed
    <3>2. CASE v # w
      BY <2>2, <3>2, <1>3 DEF Passed
    <3> QED BY <3>1, <3>2
  <2>3. CASE x \in processed
    BY <2>3, <1>6 DEF Passed
  <2> QED BY <1>7, <2>1, <2>2, <2>3 DEF Passed
<1>8. Handed'
  <2> SUFFICES ASSUME NEW f \in Entity, loop[f].at = "remove"
               PROVE  Passed(f, loop[f].front)'
    BY <1>1, <1>2 DEF Handed
  <2>1. loop[f].front \in All /\ Passed(f, loop[f].front)
    BY LoopHolds DEF TypeOK, Handed
  <2>2. loop'[f].front = loop[f].front
    BY <1>1
  <2> QED BY <2>1, <2>2, <1>7 DEF Passed
<1>9. ASSUME NEW x \in sent PROVE Has(x)'
  <2>1. x \in All /\ Has(x)
    BY <1>1 DEF Found, TypeOK, FrontOK
  <2>2. CASE x \in ToSet(list[e])
    BY <1>1, <1>5, <2>2 DEF Has
  <2>3. CASE \E f \in Entity : Passed(f, x)
    BY <1>7, <2>1, <2>3 DEF Passed, Has
  <2>4. CASE \E f \in Entity \ {e} : x \in ToSet(list[f])
    BY <1>3, <2>4 DEF Has
  <2>5. CASE \/ x \in ToSet(collectCh) \/ x = collector.m
             \/ \E f \in Entity : x \in ToSet(sendCh[f])
    BY <1>1, <2>5 DEF Has
  <2> QED BY <1>1, <2>1, <2>2, <2>3, <2>4, <2>5 DEF Has, Passed
<1>10. Found'
  BY <1>1, <1>9 DEF Found
<1> QED BY <1>8, <1>10

LEMMA HeldStep == TypeOK /\ HeldInv /\ [Next]_vars => HeldInv'
<1> SUFFICES ASSUME TypeOK, HeldInv, [Next]_vars PROVE HeldInv'
  OBVIOUS
<1>1. ASSUME UNCHANGED <<collectCh, collector, sent, queues, pool, exited>> PROVE HeldInv'
  BY <1>1 DEF HeldInv, Handed, Found, Passed, Has, Running, queues, pool
<1>2. CASE Ends
  BY <1>2 DEF Ends, Exit, Boot, Top, Running, HeldInv, Handed, Found
<1>3. CASE Restart
  <2>1. sent' = {} /\ loop' = loop /\ \A e \in Entity : loop[e].at # "remove"
    BY <1>3 DEF Restart, queues, HeldInv, Handed
  <2> QED BY <2>1 DEF HeldInv, Handed, Found
<1>4. CASE UNCHANGED vars
  BY <1>1, <1>4 DEF vars, front, ending
<1>5. CASE \/ Cancel \/ Starting \/ Notifying \/ LaunchScraper \/ Scraping \/ ScraperTick
           \/ FlusherStop
  <2>1. UNCHANGED <<front, queues, pool>>
    BY <1>5, CancelLeaves, StartingLeaves, ScraperLeaves, FlusherLeaves
  <2>2. exited' = exited
    BY <1>5 DEF Cancel, Starting, RunNotifier, LoadAlerts, Notifying, NotifierShutdown,
       NotifierReport, LaunchScraper, Scraping, ScraperDone, ScraperReport, CancelOutlier, ScraperTick,
       FlusherStop, SendResult, ending
  <2> QED BY <1>1, <2>1, <2>2 DEF front
<1> QED BY <1>2, <1>3, <1>4, <1>5, Steps, CollectingKeeps, LoopingKeeps, ReceivingKeeps

(* What Collect accepted or bulkLoad sent never vanishes between channels, *)
(* lists and goroutines, for any number of workers that drain one list     *)
(* while Loop empties it.                                                  *)
THEOREM NothingEverVanishes == Spec => []NothingVanishes
<1>1. HeldInv => NothingVanishes
  BY HasHeld DEF HeldInv, Found
<1> QED BY <1>1, HeldInit, HeldStep, TypeCorrect, PTL DEF Spec
=============================================================================
