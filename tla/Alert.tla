-------------------------------- MODULE Alert --------------------------------
(***************************************************************************)
(* The alert manager, internal/alert/alert.go, and its store,              *)
(* internal/alert/database/alert.go: Notify collects outliers in memory;   *)
(* when the notifier's context is done, its goroutine stores them, one     *)
(* alert per entity; at the next start bulkLoad looks for stored alerts.   *)
(*                                                                         *)
(* WithTargets sets opts.targets, while New and notifier go through        *)
(* m.targets, which stays empty.  So a tick does nothing: the body of the  *)
(* loop over the targets, rworker.Job and do are never reached and have no *)
(* action here.  A notification is the number of its call; the order of    *)
(* the metrics in an alert does not matter to anything below.              *)
(***************************************************************************)
EXTENDS Naturals, FiniteSets

CONSTANT Entity

VARIABLES
  count,     \* history: the number of notifications
  alerts,    \* entity -> its notifications in manager.alerts
  notifier,  \* the goroutine: "off", at "select", in shutdown ("storing",
             \* with m.mtx held), with a result to send, or "ended"
  ctxDone,   \* the context given to Run is done
  loader,    \* where Run is: "off", in bulkLoad ("loading"), "done"
  toStore,   \* the entities that shutdown has yet to go through
  rows       \* the alerts in the store; each has an id of its own

vars == <<count, alerts, notifier, ctxDone, loader, toStore, rows>>

NotifierAt == {"off", "select", "storing", "stored", "failed", "ended"}

Nothing == [e \in Entity |-> {}]

Init == /\ count = 0
        /\ alerts = Nothing
        /\ notifier = "off"
        /\ ctxDone = FALSE
        /\ loader = "off"
        /\ toStore = {}
        /\ rows = {}

-----------------------------------------------------------------------------
(* Mutant: without the lock, shutdown may be going through the map. *)
NotifyUnlocked(e) ==
  /\ count' = count + 1
  /\ alerts' = [alerts EXCEPT ![e] = @ \cup {count + 1}]
  /\ UNCHANGED <<notifier, ctxDone, loader, toStore, rows>>

(* Notify, called by a worker, waits for m.mtx. *)
Notify(e) ==
  /\ notifier # "storing"
  /\ count' = count + 1
  /\ alerts' = [alerts EXCEPT ![e] = @ \cup {count + 1}]
  /\ UNCHANGED <<notifier, ctxDone, loader, toStore, rows>>

(* cancelNotifier, called by the dispatcher. *)
Cancel == ctxDone' = TRUE /\ UNCHANGED <<count, alerts, notifier, loader, toStore, rows>>

(* Run starts the goroutine first and then goes on to bulkLoad. *)
Run == /\ loader = "off"
       /\ loader' = "loading"
       /\ notifier' = "select"
       /\ UNCHANGED <<count, alerts, ctxDone, toStore, rows>>

(* FindAll opens a bucket for every listed entity, and uses it without     *)
(* looking whether it is there.  It takes the value of the key, always a   *)
(* zero byte, for the name, and there is no such bucket: the program dies  *)
(* as soon as an entity is listed.  So bulkLoad never has an alert to      *)
(* notify of and to delete.                                                *)
Keys == {r.entity : r \in rows}

(* The start goes on when FindAll finds no entity, and also when its       *)
(* transaction cannot begin, which is only logged: no condition.           *)
BulkLoad == /\ loader = "loading"
            /\ loader' = "done"
            /\ UNCHANGED <<count, alerts, notifier, ctxDone, toStore, rows>>

(* The process ends, for whatever reason; the store remains. *)
Die == /\ alerts' = Nothing
       /\ notifier' = "off"
       /\ ctxDone' = FALSE
       /\ loader' = "off"
       /\ toStore' = {}
       /\ UNCHANGED <<count, rows>>

BulkLoadPanics == loader = "loading" /\ Keys # {} /\ Die

-----------------------------------------------------------------------------
(* case <-ctx.Done(): the deferred shutdown locks and stores, per entity.  *)
Stop == /\ notifier = "select"
        /\ ctxDone
        /\ notifier' = "storing"
        /\ toStore' = {e \in Entity : alerts[e] # {}}
        /\ UNCHANGED <<count, alerts, ctxDone, loader, rows>>

Store(e) == /\ notifier = "storing"
            /\ e \in toStore
            /\ rows' = rows \cup {[entity |-> e, metrics |-> alerts[e]]}
            /\ toStore' = toStore \ {e}
            /\ UNCHANGED <<count, alerts, notifier, ctxDone, loader>>

(* An error ends the loop, with the other entities not stored. *)
StoreFails(e) == /\ notifier = "storing"
                 /\ e \in toStore
                 /\ notifier' = "failed"
                 /\ toStore' = {}
                 /\ UNCHANGED <<count, alerts, ctxDone, loader, rows>>

(* Mutant: the select statement is entered again. *)
StoredAgain == /\ notifier = "storing"
               /\ toStore = {}
               /\ notifier' = "select"
               /\ UNCHANGED <<count, alerts, ctxDone, loader, toStore, rows>>

Stored == /\ notifier = "storing"
          /\ toStore = {}
          /\ notifier' = "stored"
          /\ UNCHANGED <<count, alerts, ctxDone, loader, toStore, rows>>

(* m.shutdownCh <- the result *)
Report == /\ notifier \in {"stored", "failed"}
          /\ notifier' = "ended"
          /\ UNCHANGED <<count, alerts, ctxDone, loader, toStore, rows>>

Shutdown == Stop \/ (\E e \in Entity : Store(e) \/ StoreFails(e)) \/ Stored

Next == \/ \E e \in Entity : Notify(e)
        \/ Cancel \/ Run \/ BulkLoad
        \/ Shutdown \/ Report
        \/ BulkLoadPanics \/ Die

Spec == Init /\ [][Next]_vars

-----------------------------------------------------------------------------
(* Properties.                                                             *)

TypeOK ==
  /\ count \in Nat
  /\ alerts \in [Entity -> SUBSET (1 .. count)]
  /\ notifier \in NotifierAt
  /\ ctxDone \in BOOLEAN
  /\ loader \in {"off", "loading", "done"}
  /\ toStore \subseteq Entity
  /\ rows \subseteq [entity : Entity, metrics : SUBSET (1 .. count)]

Memory == UNION {alerts[e] : e \in Entity}
Kept == UNION {r.metrics : r \in rows}

(* Every notification is in memory, in one stored alert, or lost with a    *)
(* process: none vanishes while the process runs, none is stored twice     *)
(* and none leaves the store.                                              *)
Box == INSTANCE Outbox
         WITH held <- Memory \ Kept,
              kept <- {r.metrics : r \in rows},
              lost <- (1 .. count) \ (Memory \cup Kept)
ImplementsOutbox == Box!Spec

(* When shutdown of the notifier reports success, every outlier that it    *)
(* was told of by then is in the store, though workers go on notifying     *)
(* while it stores one entity after the other.                             *)
StoppedIsKept == [][notifier # "stored" /\ notifier' = "stored" => Memory \subseteq Kept]_vars

-----------------------------------------------------------------------------
(* Statements that the code does not satisfy, kept for reference; no run   *)
(* checks them (see README, observations).                                 *)

(* "To notify about an anomaly found, SOD sends a POST request with data": *)
(* there is no action by which a notification leaves memory and store.     *)
AnomalyIsSent == \A n \in Nat : n \in Memory ~> n \notin Memory \cup Kept

(* What is stored does not keep the next start from coming up. *)
StartsAgain == loader = "loading" ~> loader = "done"
=============================================================================
