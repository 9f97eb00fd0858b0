----------------------------- MODULE TxExecutor -----------------------------
(***************************************************************************)
(* The write-behind buffer of internal/dispatcher/db_tx_executor.go.       *)
(* Workers append metrics to a buffer; a full buffer starts a goroutine    *)
(* that swaps it out and appends it to the store; so does a ticker, in the *)
(* goroutine flusher, which empties the buffer once more at shutdown.      *)
(*                                                                         *)
(* A metric that was written is represented by its number: the position    *)
(* of its write in the order of all writes.                                *)
(***************************************************************************)
EXTENDS Naturals, Sequences, FiniteSets

CONSTANTS FlushSize,   \* dbTxExecutorOptions.flushSize
          MaxWrites    \* bound: the number of calls of write

ASSUME FlushSizeAssumption == FlushSize \in Nat \ {0}
ASSUME MaxWritesAssumption == MaxWrites \in Nat

VARIABLES
  written,   \* history: the number of writes so far
  buf,       \* buf, as the numbers of the metrics in it
  pending,   \* how many goroutines started by write did not take the lock yet
  flying,    \* the batches these goroutines took, being appended to the store
  flusher,   \* where flusher is
  ticked,    \* the batch flusher took at a tick, being appended
  locked,    \* mtx is held by shutdown
  cancelled, \* the context is done
  durable,   \* history: what the store accepted, in the order of acceptance
  dropped,   \* history: what a failed append lost
  lost       \* history: what was lost when the process died

vars == <<written, buf, pending, flying, flusher, ticked, locked, cancelled,
          durable, dropped, lost>>

(* "select": waiting for a tick or the end of the context; "flush": about  *)
(* to take the lock; "append": appending the batch it took; "shutdown":    *)
(* the deferred call is about to take the lock; "saving": it holds the     *)
(* lock; "saved" and "failed": it sent its result to shutdownCh.           *)
FlusherAt == {"select", "flush", "append", "shutdown", "saving", "saved",
              "failed"}

Numbers(s) == {s[i] : i \in DOMAIN s}
Injective(s) == \A i, j \in DOMAIN s : s[i] = s[j] => i = j

Init == /\ written = 0
        /\ buf = <<>>
        /\ pending = 0
        /\ flying = {}
        /\ flusher = "select"
        /\ ticked = <<>>
        /\ locked = FALSE
        /\ cancelled = FALSE
        /\ durable = <<>>
        /\ dropped = {}
        /\ lost = {}

(* Mutant: a flush starts one write too late. *)
WriteLate == /\ ~locked
             /\ written < MaxWrites
             /\ written' = written + 1
             /\ buf' = Append(buf, written + 1)
             /\ pending' = IF Len(buf') > FlushSize THEN pending + 1 ELSE pending
             /\ UNCHANGED <<flying, flusher, ticked, locked, cancelled, durable,
                            dropped, lost>>

(* write: append under the lock; start a flush when the buffer is full.    *)
Write == /\ ~locked
         /\ written < MaxWrites
         /\ written' = written + 1
         /\ buf' = Append(buf, written + 1)
         /\ pending' = IF Len(buf') >= FlushSize THEN pending + 1 ELSE pending
         /\ UNCHANGED <<flying, flusher, ticked, locked, cancelled, durable,
                        dropped, lost>>

(* Mutant: the batch is taken without its first metric. *)
TakeTail == /\ pending > 0
            /\ ~locked
            /\ pending' = pending - 1
            /\ flying' = IF buf = <<>> THEN flying ELSE flying \cup {Tail(buf)}
            /\ buf' = <<>>
            /\ UNCHANGED <<written, flusher, ticked, locked, cancelled, durable,
                           dropped, lost>>

(* flush, in a goroutine of its own: take the buffer under the lock.  An   *)
(* empty buffer leaves nothing to append.                                  *)
Take == /\ pending > 0
        /\ ~locked
        /\ pending' = pending - 1
        /\ flying' = IF buf = <<>> THEN flying ELSE flying \cup {buf}
        /\ buf' = <<>>
        /\ UNCHANGED <<written, flusher, ticked, locked, cancelled, durable,
                       dropped, lost>>

(* ... and append it to the store, without the lock: when this fails the   *)
(* error is logged and the batch is gone.                                  *)
Commit(b) == /\ b \in flying
             /\ flying' = flying \ {b}
             /\ durable' = durable \o b
             /\ UNCHANGED <<written, buf, pending, flusher, ticked, locked,
                            cancelled, dropped, lost>>

(* Mutant: a batch that failed goes back to the end of the buffer. *)
FailRequeues(b) == /\ b \in flying
                   /\ flying' = flying \ {b}
                   /\ buf' = buf \o b
                   /\ UNCHANGED <<written, pending, flusher, ticked, locked,
                                  cancelled, durable, dropped, lost>>

Fail(b) == /\ b \in flying
           /\ flying' = flying \ {b}
           /\ dropped' = dropped \cup Numbers(b)
           /\ UNCHANGED <<written, buf, pending, flusher, ticked, locked,
                          cancelled, durable, lost>>

-----------------------------------------------------------------------------
(* The goroutine flusher.                                                  *)

Tick == /\ flusher = "select"
        /\ flusher' = "flush"
        /\ UNCHANGED <<written, buf, pending, flying, ticked, locked,
                       cancelled, durable, dropped, lost>>

(* Mutant: a tick flushes only a full buffer. *)
TickTakeFull == /\ flusher = "flush"
                /\ ~locked
                /\ IF Len(buf) < FlushSize
                     THEN flusher' = "select" /\ UNCHANGED <<ticked, buf>>
                     ELSE flusher' = "append" /\ ticked' = buf /\ buf' = <<>>
                /\ UNCHANGED <<written, pending, flying, locked, cancelled,
                               durable, dropped, lost>>

TickTake == /\ flusher = "flush"
            /\ ~locked
            /\ flusher' = "append"
            /\ ticked' = buf
            /\ buf' = <<>>
            /\ UNCHANGED <<written, pending, flying, locked, cancelled,
                           durable, dropped, lost>>

TickCommit == /\ flusher = "append"
              /\ flusher' = "select"
              /\ durable' = durable \o ticked
              /\ ticked' = <<>>
              /\ UNCHANGED <<written, buf, pending, flying, locked, cancelled,
                             dropped, lost>>

TickFail == /\ flusher = "append"
            /\ flusher' = "select"
            /\ dropped' = dropped \cup Numbers(ticked)
            /\ ticked' = <<>>
            /\ UNCHANGED <<written, buf, pending, flying, locked, cancelled,
                           durable, lost>>

(* The context of the application ends. *)
Cancel == /\ ~cancelled
          /\ cancelled' = TRUE
          /\ UNCHANGED <<written, buf, pending, flying, flusher, ticked,
                         locked, durable, dropped, lost>>

(* case <-ctx.Done(); the select statement may still prefer a tick *)
Done == /\ flusher = "select"
        /\ cancelled
        /\ flusher' = "shutdown"
        /\ UNCHANGED <<written, buf, pending, flying, ticked, locked,
                       cancelled, durable, dropped, lost>>

(* shutdown: append the buffer while holding the lock ... *)
ShutdownLock == /\ flusher = "shutdown"
                /\ ~locked
                /\ flusher' = "saving"
                /\ locked' = TRUE
                /\ UNCHANGED <<written, buf, pending, flying, ticked,
                               cancelled, durable, dropped, lost>>

(* Mutant: the buffer is not emptied at shutdown. *)
ShutdownSaveKeeps == /\ flusher = "saving"
                     /\ flusher' = "saved"
                     /\ durable' = durable \o buf
                     /\ locked' = FALSE
                     /\ UNCHANGED <<written, buf, pending, flying, ticked,
                                    cancelled, dropped, lost>>

ShutdownSave == /\ flusher = "saving"
                /\ flusher' = "saved"
                /\ durable' = durable \o buf
                /\ buf' = <<>>
                /\ locked' = FALSE
                /\ UNCHANGED <<written, pending, flying, ticked, cancelled,
                               dropped, lost>>

(* ... and return the error of a failed append without releasing it. *)
ShutdownFail == /\ flusher = "saving"
                /\ flusher' = "failed"
                /\ UNCHANGED <<written, buf, pending, flying, ticked, locked,
                               cancelled, durable, dropped, lost>>

-----------------------------------------------------------------------------
(* The process dies, and starts again with empty memory. *)
Crash == /\ lost' = lost \cup Numbers(buf) \cup Numbers(ticked)
                         \cup (UNION {Numbers(b) : b \in flying})
         /\ buf' = <<>>
         /\ pending' = 0
         /\ flying' = {}
         /\ flusher' = "select"
         /\ ticked' = <<>>
         /\ locked' = FALSE
         /\ cancelled' = FALSE
         /\ UNCHANGED <<written, durable, dropped>>

Flush == Take \/ (\E b \in flying : Commit(b) \/ Fail(b))

Flusher == TickTake \/ TickCommit \/ TickFail \/ ShutdownLock \/ ShutdownSave
             \/ ShutdownFail

Next == Write \/ Flush \/ Tick \/ Flusher \/ Cancel \/ Done \/ Crash

Spec == Init /\ [][Next]_vars

(* Goroutines that can run do run, the ticker ticks, and bbolt returns; a  *)
(* select statement does not prefer ticks to a done context for ever.      *)
(* Nothing makes clients write, the context end or the process die.        *)
FairSpec == /\ Spec
            /\ WF_vars(Take)
            /\ WF_vars(\E b \in flying : Commit(b) \/ Fail(b))
            /\ WF_vars(Tick)
            /\ WF_vars(Flusher)
            /\ SF_vars(Done)
-----------------------------------------------------------------------------
(* Properties.                                                             *)

InFlight == (UNION {Numbers(b) : b \in flying}) \cup Numbers(ticked)

Gone == dropped \cup lost

TypeOK == /\ written \in Nat
          /\ buf \in Seq(Nat)
          /\ pending \in Nat
          /\ flying \subseteq Seq(Nat)
          /\ flusher \in FlusherAt
          /\ ticked \in Seq(Nat)
          /\ locked \in BOOLEAN
          /\ cancelled \in BOOLEAN
          /\ durable \in Seq(Nat)
          /\ dropped \subseteq Nat
          /\ lost \subseteq Nat

(* The buffer holds exactly the latest writes, in the order of writing. *)
BufferIsLatest == buf = [i \in 1 .. Len(buf) |-> written - Len(buf) + i]

(* Every write is accounted for: it is in the buffer, in a batch that is   *)
(* being appended, in the store, in a batch whose append failed, or it was *)
(* in memory when the process died.                                        *)
NothingMissing ==
  1 .. written = Numbers(buf) \cup InFlight \cup Numbers(durable) \cup Gone

(* ... in only one of these places, so that no flush, tick or shutdown     *)
(* appends what another one appends.                                       *)
NothingTwice ==
  /\ Injective(durable)
  /\ Numbers(buf) \cap (InFlight \cup Numbers(durable) \cup Gone) = {}
  /\ InFlight \cap (Numbers(durable) \cup Gone) = {}
  /\ Numbers(durable) \cap Gone = {}
  /\ \A b \in flying : Numbers(b) \cap Numbers(ticked) = {}
  /\ \A b, c \in flying : Numbers(b) \cap Numbers(c) # {} => b = c

(* A buffer that reached the flush size has a flush on its way for every   *)
(* write from then on.                                                     *)
FullBufferIsFlushed ==
  Len(buf) >= FlushSize => pending >= Len(buf) - FlushSize + 1

(* What is buffered does not stay in memory for ever, unless shutdown is   *)
(* over: then nothing but a full buffer starts a flush.                    *)
Settles ==
  \A n \in 1 .. MaxWrites :
    n \in Numbers(buf) \cup InFlight ~>
      n \notin Numbers(buf) \cup InFlight \/ flusher \in {"saved", "failed"}

=============================================================================
