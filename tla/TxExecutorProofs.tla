-------------------------- MODULE TxExecutorProofs --------------------------
(* Proofs about the write-behind buffer: for every flush size, whatever    *)
(* the interleaving of workers, flush goroutines, ticker, shutdown and     *)
(* crashes, each write is in exactly one place.                            *)
EXTENDS TxExecutor, SequenceTheorems, TLAPS

-----------------------------------------------------------------------------
(* Lemmas on the numbers of a sequence.                                    *)

LEMMA NumbersEmpty == Numbers(<<>>) = {} /\ Injective(<<>>)
BY DEF Numbers, Injective

LEMMA NumbersConcat ==
  ASSUME NEW s \in Seq(Nat), NEW t \in Seq(Nat)
  PROVE  Numbers(s \o t) = Numbers(s) \cup Numbers(t)
<1>1. /\ DOMAIN s = 1 .. Len(s) /\ DOMAIN t = 1 .. Len(t)
      /\ Len(s) \in Nat /\ Len(t) \in Nat
      /\ DOMAIN (s \o t) = 1 .. Len(s) + Len(t)
      /\ \A i \in 1 .. Len(s) + Len(t) :
           (s \o t)[i] = IF i <= Len(s) THEN s[i] ELSE t[i - Len(s)]
  BY LenProperties, ConcatProperties
<1>2. ASSUME NEW i \in DOMAIN (s \o t)
      PROVE  (s \o t)[i] \in Numbers(s) \cup Numbers(t)
  <2>1. CASE i <= Len(s)
    BY <1>1, <2>1 DEF Numbers
  <2>2. CASE ~(i <= Len(s))
    <3>1. i - Len(s) \in 1 .. Len(t)
      BY <1>1, <2>2
    <3>2. QED
      BY <1>1, <2>2, <3>1 DEF Numbers
  <2>3. QED
    BY <2>1, <2>2
<1>3. ASSUME NEW i \in DOMAIN s
      PROVE  s[i] \in Numbers(s \o t)
  BY <1>1 DEF Numbers
<1>4. ASSUME NEW i \in DOMAIN t
      PROVE  t[i] \in Numbers(s \o t)
  <2>1. /\ Len(s) + i \in 1 .. Len(s) + Len(t)
        /\ ~(Len(s) + i <= Len(s))
        /\ Len(s) + i - Len(s) = i
    BY <1>1
  <2>2. (s \o t)[Len(s) + i] = t[i]
    BY <1>1, <2>1
  <2>3. QED
    BY <1>1, <2>1, <2>2 DEF Numbers
<1>5. QED
  BY <1>2, <1>3, <1>4 DEF Numbers

LEMMA InjectiveConcat ==
  ASSUME NEW s \in Seq(Nat), NEW t \in Seq(Nat),
         Injective(s), Injective(t), Numbers(s) \cap Numbers(t) = {}
  PROVE  Injective(s \o t)
<1>1. /\ DOMAIN s = 1 .. Len(s) /\ DOMAIN t = 1 .. Len(t)
      /\ Len(s) \in Nat /\ Len(t) \in Nat
      /\ DOMAIN (s \o t) = 1 .. Len(s) + Len(t)
      /\ \A i \in 1 .. Len(s) + Len(t) :
           (s \o t)[i] = IF i <= Len(s) THEN s[i] ELSE t[i - Len(s)]
  BY LenProperties, ConcatProperties
<1> SUFFICES ASSUME NEW i \in 1 .. Len(s) + Len(t), NEW j \in 1 .. Len(s) + Len(t),
                    (s \o t)[i] = (s \o t)[j]
             PROVE  i = j
  BY <1>1 DEF Injective
<1>2. CASE i <= Len(s) /\ j <= Len(s)
  <2>1. i \in DOMAIN s /\ j \in DOMAIN s /\ s[i] = s[j]
    BY <1>1, <1>2
  <2>2. QED
    BY <2>1 DEF Injective
<1>3. CASE ~(i <= Len(s)) /\ ~(j <= Len(s))
  <2>1. i - Len(s) \in DOMAIN t /\ j - Len(s) \in DOMAIN t
    BY <1>1, <1>3
  <2>2. t[i - Len(s)] = t[j - Len(s)]
    BY <1>1, <1>3
  <2>3. i - Len(s) = j - Len(s)
    BY <2>1, <2>2 DEF Injective
  <2>4. QED
    BY <1>1, <2>3
<1>4. ASSUME NEW k \in 1 .. Len(s), NEW l \in 1 .. Len(t)
      PROVE  s[k] # t[l]
  BY <1>1 DEF Numbers
<1>5. CASE i <= Len(s) /\ ~(j <= Len(s))
  <2>1. j - Len(s) \in 1 .. Len(t) /\ i \in 1 .. Len(s)
    BY <1>1, <1>5
  <2>2. s[i] = t[j - Len(s)]
    BY <1>1, <1>5
  <2>3. QED
    BY <1>4, <2>1, <2>2
<1>6. CASE ~(i <= Len(s)) /\ j <= Len(s)
  <2>1. i - Len(s) \in 1 .. Len(t) /\ j \in 1 .. Len(s)
    BY <1>1, <1>6
  <2>2. s[j] = t[i - Len(s)]
    BY <1>1, <1>6
  <2>3. QED
    BY <1>4, <2>1, <2>2
<1>7. QED
  BY <1>2, <1>3, <1>5, <1>6

(* The buffer, being the latest writes, is injective, and its numbers are  *)
(* an interval.                                                            *)
LEMMA LatestNumbers ==
  ASSUME NEW w \in Nat, NEW s \in Seq(Nat),
         s = [i \in 1 .. Len(s) |-> w - Len(s) + i]
  PROVE  /\ Injective(s)
         /\ Numbers(s) = w - Len(s) + 1 .. w
         /\ Len(s) \in Nat
<1>1. Len(s) \in Nat /\ DOMAIN s = 1 .. Len(s)
  BY LenProperties
<1>2. \A i \in 1 .. Len(s) : s[i] = w - Len(s) + i
  OBVIOUS
<1>3. Injective(s)
  BY <1>1, <1>2 DEF Injective
<1>4. ASSUME NEW n \in w - Len(s) + 1 .. w
      PROVE  n \in Numbers(s)
  <2>1. n - (w - Len(s)) \in 1 .. Len(s)
    BY <1>1
  <2>2. s[n - (w - Len(s))] = n
    BY <1>1, <1>2, <2>1
  <2>3. QED
    BY <1>1, <2>1, <2>2 DEF Numbers
<1>5. ASSUME NEW i \in DOMAIN s
      PROVE  s[i] \in w - Len(s) + 1 .. w
  BY <1>1, <1>2
<1>6. QED
  BY <1>1, <1>3, <1>4, <1>5 DEF Numbers

-----------------------------------------------------------------------------
(* Types.                                                                  *)

(* TypeOK is inductive by itself. *)
LEMMA TypeNext == TypeOK /\ [Next]_vars => TypeOK'
<1> SUFFICES ASSUME TypeOK, [Next]_vars
             PROVE  TypeOK'
  OBVIOUS
<1> USE DEF TypeOK, FlusherAt
<1>e. <<>> \in Seq(Nat)
  OBVIOUS
<1>1. ASSUME NEW s \in Seq(Nat)
      PROVE  Numbers(s) \subseteq Nat
  BY <1>1, ElementOfSeq, LenProperties DEF Numbers
<1>2. CASE Write
  BY <1>2, AppendProperties DEF Write
<1>3. CASE Take
  BY <1>e, <1>3 DEF Take
<1>4. ASSUME NEW b \in flying, Commit(b)
      PROVE  TypeOK'
  BY <1>4, ConcatProperties DEF Commit
<1>5. ASSUME NEW b \in flying, Fail(b)
      PROVE  TypeOK'
  BY <1>1, <1>5 DEF Fail
<1>6. CASE Tick \/ TickTake
  BY <1>e, <1>6 DEF Tick, TickTake
<1>7. CASE TickCommit
  BY <1>e, <1>7, ConcatProperties DEF TickCommit
<1>8. CASE TickFail
  BY <1>e, <1>1, <1>8 DEF TickFail
<1>9. CASE Cancel \/ Done
  BY <1>9 DEF Cancel, Done
<1>10. CASE ShutdownLock \/ ShutdownFail
  BY <1>10 DEF ShutdownLock, ShutdownFail
<1>11. CASE ShutdownSave
  BY <1>e, <1>11, ConcatProperties DEF ShutdownSave
<1>12. CASE Crash
  <2>1. UNION {Numbers(b) : b \in flying} \subseteq Nat
    BY <1>1
  <2>2. lost' \subseteq Nat
    BY <1>1, <1>12, <2>1 DEF Crash
  <2>3. QED
    BY <1>e, <1>12, <2>2 DEF Crash
<1>13. CASE UNCHANGED vars
  BY <1>13 DEF vars
<1>14. QED
  BY <1>2, <1>3, <1>4, <1>5, <1>6, <1>7, <1>8, <1>9, <1>10, <1>11, <1>12, <1>13
     DEF Next, Flush, Flusher

LEMMA TypeInit == Init => TypeOK
<1> SUFFICES ASSUME Init
             PROVE  TypeOK
  OBVIOUS
<1>1. buf \in Seq(Nat) /\ ticked \in Seq(Nat) /\ durable \in Seq(Nat)
  BY EmptySeq, Zenon DEF Init
<1>2. flying \subseteq Seq(Nat)
  BY DEF Init
<1>3. QED
  BY <1>1, <1>2 DEF Init, TypeOK, FlusherAt

(* Every variable keeps its type. *)
THEOREM TypeCorrect == Spec => []TypeOK
BY TypeInit, TypeNext, PTL DEF Spec

-----------------------------------------------------------------------------
(* The buffer.                                                             *)

LEMMA LatestInit == Init => BufferIsLatest
BY DEF Init, BufferIsLatest

LEMMA LatestNext == TypeOK /\ BufferIsLatest /\ [Next]_vars => BufferIsLatest'
<1> SUFFICES ASSUME TypeOK, BufferIsLatest, [Next]_vars
             PROVE  BufferIsLatest'
  OBVIOUS
<1>1. CASE Write
  <2>1. /\ Len(buf) \in Nat
        /\ Append(buf, written + 1) \in Seq(Nat)
        /\ Len(Append(buf, written + 1)) = Len(buf) + 1
        /\ \A i \in 1 .. Len(buf) : Append(buf, written + 1)[i] = buf[i]
        /\ Append(buf, written + 1)[Len(buf) + 1] = written + 1
    BY AppendProperties, LenProperties DEF TypeOK
  <2>2. \A i \in 1 .. Len(buf) : buf[i] = written - Len(buf) + i
    BY DEF BufferIsLatest
  <2>3. DOMAIN Append(buf, written + 1) = 1 .. Len(buf) + 1
    BY <2>1, LenProperties
  <2>4. ASSUME NEW i \in 1 .. Len(buf) + 1
        PROVE  Append(buf, written + 1)[i] = (written + 1) - (Len(buf) + 1) + i
    <3>1. CASE i \in 1 .. Len(buf)
      <4>1. Append(buf, written + 1)[i] = written - Len(buf) + i
        BY <2>1, <2>2, <3>1
      <4>2. written - Len(buf) + i = (written + 1) - (Len(buf) + 1) + i
        BY <2>1 DEF TypeOK
      <4>3. QED
        BY <4>1, <4>2, Zenon
    <3>2. CASE i = Len(buf) + 1
      <4>1. (written + 1) - (Len(buf) + 1) + i = written + 1
        BY <2>1, <3>2 DEF TypeOK
      <4>2. QED
        BY <2>1, <3>2, <4>1
    <3>3. QED
      BY <2>1, <3>1, <3>2
  <2>5. Append(buf, written + 1)
          = [i \in 1 .. Len(buf) + 1 |-> (written + 1) - (Len(buf) + 1) + i]
    BY <2>1, <2>3, <2>4
  <2>6. QED
    BY <1>1, <2>1, <2>5 DEF Write, BufferIsLatest
<1>2. CASE buf' = <<>>
  BY <1>2 DEF BufferIsLatest
<1>3. CASE UNCHANGED <<buf, written>>
  BY <1>3 DEF BufferIsLatest
<1>4. QED
  BY <1>1, <1>2, <1>3 DEF Next, Flush, Flusher, Take, Commit, Fail, Tick,
     TickTake, TickCommit, TickFail, Cancel, Done, ShutdownLock, ShutdownSave,
     ShutdownFail, Crash, vars

(* Whatever took the buffer before, it holds exactly the latest writes. *)
THEOREM BufferHoldsLatest == Spec => []BufferIsLatest
BY TypeInit, TypeNext, LatestInit, LatestNext, PTL DEF Spec

LEMMA FullNext ==
  TypeOK /\ FullBufferIsFlushed /\ [Next]_vars => FullBufferIsFlushed'
<1> SUFFICES ASSUME TypeOK, FullBufferIsFlushed, [Next]_vars
             PROVE  FullBufferIsFlushed'
  OBVIOUS
<1> USE FlushSizeAssumption
<1>1. Len(buf) \in Nat
  BY LenProperties DEF TypeOK
<1>2. CASE Write
  <2>1. Len(buf') = Len(buf) + 1
    BY <1>2, AppendProperties DEF Write, TypeOK
  <2>2. pending' = IF Len(buf) + 1 >= FlushSize THEN pending + 1 ELSE pending
    BY <1>2, <2>1 DEF Write
  <2>3. QED
    BY <1>1, <2>1, <2>2 DEF FullBufferIsFlushed, TypeOK
<1>3. CASE buf' = <<>>
  BY <1>3 DEF FullBufferIsFlushed
<1>4. CASE UNCHANGED <<buf, pending>>
  BY <1>4 DEF FullBufferIsFlushed
<1>5. QED
  BY <1>2, <1>3, <1>4 DEF Next, Flush, Flusher, Take, Commit, Fail, Tick,
     TickTake, TickCommit, TickFail, Cancel, Done, ShutdownLock, ShutdownSave,
     ShutdownFail, Crash, vars

(* A buffer at or above the flush size always has its flushes pending: the *)
(* test `bufLen >= flushSize', made after the lock is released, never      *)
(* misses a full buffer.                                                   *)
THEOREM FullBuffersAreFlushed == Spec => []FullBufferIsFlushed
<1>1. Init => FullBufferIsFlushed
  BY FlushSizeAssumption DEF Init, FullBufferIsFlushed
<1>2. QED
  BY <1>1, TypeInit, TypeNext, FullNext, PTL DEF Spec
-----------------------------------------------------------------------------
(* Every write is in exactly one place.  The invariant adds to the two     *)
(* properties that batches repeat no number and that flusher holds a batch *)
(* only while it appends it.                                               *)

BatchesInjective == /\ \A b \in flying : Injective(b)
                    /\ Injective(ticked)
                    /\ flusher # "append" => ticked = <<>>

Accounted == /\ TypeOK
             /\ BufferIsLatest
             /\ NothingMissing
             /\ NothingTwice
             /\ BatchesInjective

(* What the invariant says of the sets of numbers. *)
LEMMA AccountedFacts ==
  ASSUME Accounted
  PROVE  /\ Numbers(buf) = written - Len(buf) + 1 .. written
         /\ Injective(buf)
         /\ Len(buf) \in Nat
         /\ written \in Nat
         /\ \A b \in flying : b \in Seq(Nat) /\ Numbers(b) \subseteq InFlight
         /\ Numbers(ticked) \subseteq InFlight
BY LatestNumbers DEF Accounted, TypeOK, InFlight, BufferIsLatest

LEMMA AccountedInit == Init => Accounted
<1> SUFFICES ASSUME Init
             PROVE  Accounted
  OBVIOUS
<1>1. TypeOK /\ BufferIsLatest
  BY TypeInit, LatestInit
<1>2. /\ Numbers(buf) = {} /\ Numbers(durable) = {} /\ Numbers(ticked) = {}
      /\ Injective(durable) /\ Injective(ticked)
      /\ flying = {} /\ InFlight = {} /\ Gone = {} /\ 1 .. written = {}
  <2>1. /\ Numbers(buf) = {} /\ Numbers(durable) = {} /\ Numbers(ticked) = {}
        /\ Injective(durable) /\ Injective(ticked)
    BY NumbersEmpty DEF Init
  <2>2. flying = {} /\ Gone = {} /\ 1 .. written = {}
    BY DEF Init, Gone
  <2>3. QED
    BY <2>1, <2>2 DEF InFlight
<1>3. QED
  BY <1>1, <1>2 DEF Init, Accounted, NothingMissing, NothingTwice, BatchesInjective

(* The steps that move numbers. *)

LEMMA AccountedWrite ==
  ASSUME Accounted, BufferIsLatest', TypeOK', Write
  PROVE  Accounted'
<1>1. Numbers(buf) = written - Len(buf) + 1 .. written
      /\ Len(buf) \in Nat /\ written \in Nat
  BY AccountedFacts
<1>2. Len(buf') = Len(buf) + 1
  BY AppendProperties DEF Write, Accounted, TypeOK
<1>3. Numbers(buf') = written' - Len(buf') + 1 .. written'
  BY LatestNumbers DEF TypeOK, BufferIsLatest
<1>4. Numbers(buf') = Numbers(buf) \cup {written + 1}
  BY <1>1, <1>2, <1>3 DEF Write
<1>5. 1 .. written' = 1 .. written \cup {written + 1}
  BY <1>1 DEF Write
<1>6. /\ InFlight' = InFlight /\ Gone' = Gone /\ durable' = durable
      /\ flying' = flying /\ ticked' = ticked /\ flusher' = flusher
  BY DEF Write, InFlight, Gone
<1>7. written + 1 \notin 1 .. written
  BY <1>1
<1>8. NothingMissing'
  BY <1>4, <1>5, <1>6 DEF Accounted, NothingMissing
<1>9. NothingTwice'
  BY <1>4, <1>6, <1>7 DEF Accounted, NothingMissing, NothingTwice
<1>10. BatchesInjective'
  BY <1>6 DEF Accounted, BatchesInjective
<1>11. QED
  BY <1>8, <1>9, <1>10 DEF Accounted
LEMMA AccountedTake ==
  ASSUME Accounted, BufferIsLatest', TypeOK', Take
  PROVE  Accounted'
<1>1. /\ Numbers(buf) \cap InFlight = {}
      /\ Injective(buf)
      /\ \A b \in flying : Numbers(b) \subseteq InFlight
      /\ Numbers(ticked) \subseteq InFlight
  BY AccountedFacts DEF Accounted, NothingTwice
<1>2. /\ ticked' = ticked /\ durable' = durable /\ Gone' = Gone
      /\ written' = written /\ flusher' = flusher
      /\ Numbers(buf') = {}
  BY NumbersEmpty DEF Take, Gone
<1>3. CASE buf = <<>>
  <2>1. InFlight' = InFlight /\ Numbers(buf) = {} /\ flying' = flying
    BY <1>3, <1>2, NumbersEmpty DEF Take, InFlight
  <2>2. QED
    BY <1>2, <2>1 DEF Accounted, NothingMissing, NothingTwice, BatchesInjective
<1>4. CASE buf # <<>>
  <2>1. flying' = flying \cup {buf}
    BY <1>4 DEF Take
  <2>2. InFlight' = InFlight \cup Numbers(buf)
    BY <1>2, <2>1 DEF InFlight
  <2>3. NothingMissing'
    BY <1>2, <2>2 DEF Accounted, NothingMissing
  <2>4. NothingTwice'
    <3>1. \A b \in flying' : Numbers(b) \cap Numbers(ticked') = {}
      BY <1>1, <1>2, <2>1 DEF Accounted, NothingTwice
    <3>2. ASSUME NEW b \in flying', NEW c \in flying', Numbers(b) \cap Numbers(c) # {}
          PROVE  b = c
      <4>1. b \in flying \cup {buf} /\ c \in flying \cup {buf}
        BY <2>1
      <4>2. \A d \in flying : Numbers(d) \cap Numbers(buf) = {}
        BY <1>1
      <4>3. CASE b \in flying /\ c \in flying
        BY <3>2, <4>3 DEF Accounted, NothingTwice
      <4>4. QED
        BY <3>2, <4>1, <4>2, <4>3
    <3>3. /\ Injective(durable')
          /\ Numbers(buf') \cap (InFlight' \cup Numbers(durable') \cup Gone') = {}
          /\ InFlight' \cap (Numbers(durable') \cup Gone') = {}
          /\ Numbers(durable') \cap Gone' = {}
      BY <1>2, <2>2 DEF Accounted, NothingTwice
    <3>4. QED
      BY <3>1, <3>2, <3>3 DEF NothingTwice
  <2>5. BatchesInjective'
    BY <1>1, <1>2, <2>1 DEF Accounted, BatchesInjective
  <2>6. QED
    BY <2>3, <2>4, <2>5 DEF Accounted
<1>5. QED
  BY <1>3, <1>4

LEMMA AccountedTickTake ==
  ASSUME Accounted, BufferIsLatest', TypeOK', TickTake
  PROVE  Accounted'
<1>1. /\ Numbers(buf) \cap InFlight = {}
      /\ Injective(buf)
      /\ \A b \in flying : Numbers(b) \subseteq InFlight
      /\ Numbers(ticked) = {}
  <2>1. ticked = <<>>
    BY DEF Accounted, BatchesInjective, TickTake
  <2>2. QED
    BY <2>1, AccountedFacts, NumbersEmpty DEF Accounted, NothingTwice
<1>2. /\ ticked' = buf /\ durable' = durable /\ Gone' = Gone
      /\ written' = written /\ flusher' = "append" /\ flying' = flying
      /\ Numbers(buf') = {}
  BY NumbersEmpty DEF TickTake, Gone
<1>3. InFlight' = InFlight \cup Numbers(buf)
  BY <1>1, <1>2 DEF InFlight
<1>4. NothingMissing'
  BY <1>2, <1>3 DEF Accounted, NothingMissing
<1>5. \A b \in flying' : Numbers(b) \cap Numbers(ticked') = {}
  BY <1>1, <1>2
<1>6. NothingTwice'
  BY <1>2, <1>3, <1>5 DEF Accounted, NothingTwice
<1>7. BatchesInjective'
  BY <1>1, <1>2 DEF Accounted, BatchesInjective
<1>8. QED
  BY <1>4, <1>6, <1>7 DEF Accounted

(* A batch leaves the batches in flight. *)
LEMMA Leaving ==
  ASSUME Accounted, NEW b \in flying, flying' = flying \ {b}, ticked' = ticked
  PROVE  /\ InFlight' = InFlight \ Numbers(b)
         /\ Numbers(b) \subseteq InFlight
<1>1. \A c \in flying : c # b => Numbers(c) \cap Numbers(b) = {}
  BY DEF Accounted, NothingTwice
<1>2. Numbers(ticked) \cap Numbers(b) = {}
  BY DEF Accounted, NothingTwice
<1>3. QED
  BY <1>1, <1>2 DEF InFlight

LEMMA AccountedCommit ==
  ASSUME Accounted, BufferIsLatest', TypeOK', NEW b \in flying, Commit(b)
  PROVE  Accounted'
<1>1. /\ ticked' = ticked /\ flying' = flying \ {b} /\ Gone' = Gone
      /\ buf' = buf /\ written' = written /\ flusher' = flusher
      /\ durable' = durable \o b
  BY DEF Commit, Gone
<1>2. /\ InFlight' = InFlight \ Numbers(b)
      /\ Numbers(b) \subseteq InFlight
  BY <1>1, Leaving
<1>3. Numbers(durable') = Numbers(durable) \cup Numbers(b)
  BY <1>1, NumbersConcat DEF Accounted, TypeOK
<1>4. Injective(durable')
  <2>1. Numbers(durable) \cap Numbers(b) = {}
    BY <1>2 DEF Accounted, NothingTwice
  <2>2. durable \in Seq(Nat) /\ b \in Seq(Nat) /\ Injective(durable) /\ Injective(b)
    BY DEF Accounted, TypeOK, NothingTwice, BatchesInjective
  <2>3. QED
    BY <1>1, <2>1, <2>2, InjectiveConcat
<1>5. NothingMissing'
  BY <1>1, <1>2, <1>3 DEF Accounted, NothingMissing
<1>6. NothingTwice'
  BY <1>1, <1>2, <1>3, <1>4 DEF Accounted, NothingTwice
<1>7. BatchesInjective'
  BY <1>1 DEF Accounted, BatchesInjective
<1>8. QED
  BY <1>5, <1>6, <1>7 DEF Accounted

LEMMA AccountedFail ==
  ASSUME Accounted, BufferIsLatest', TypeOK', NEW b \in flying, Fail(b)
  PROVE  Accounted'
<1>1. /\ ticked' = ticked /\ flying' = flying \ {b} /\ durable' = durable
      /\ buf' = buf /\ written' = written /\ flusher' = flusher
      /\ Gone' = Gone \cup Numbers(b)
  BY DEF Fail, Gone
<1>2. /\ InFlight' = InFlight \ Numbers(b)
      /\ Numbers(b) \subseteq InFlight
  BY <1>1, Leaving
<1>3. NothingMissing'
  BY <1>1, <1>2 DEF Accounted, NothingMissing
<1>4. NothingTwice'
  BY <1>1, <1>2 DEF Accounted, NothingTwice
<1>5. BatchesInjective'
  BY <1>1 DEF Accounted, BatchesInjective
<1>6. QED
  BY <1>3, <1>4, <1>5 DEF Accounted

(* flusher's batch leaves the batches in flight. *)
LEMMA LeavingTick ==
  ASSUME Accounted, flying' = flying, ticked' = <<>>
  PROVE  /\ InFlight' = InFlight \ Numbers(ticked)
         /\ Numbers(ticked) \subseteq InFlight
<1>1. \A c \in flying : Numbers(c) \cap Numbers(ticked) = {}
  BY DEF Accounted, NothingTwice
<1>2. Numbers(ticked') = {}
  BY NumbersEmpty
<1>3. QED
  BY <1>1, <1>2 DEF InFlight

LEMMA AccountedTickCommit ==
  ASSUME Accounted, BufferIsLatest', TypeOK', TickCommit
  PROVE  Accounted'
<1>1. /\ ticked' = <<>> /\ flying' = flying /\ Gone' = Gone
      /\ buf' = buf /\ written' = written
      /\ durable' = durable \o ticked
  BY DEF TickCommit, Gone
<1>2. /\ InFlight' = InFlight \ Numbers(ticked)
      /\ Numbers(ticked) \subseteq InFlight
      /\ Numbers(ticked') = {} /\ Injective(ticked')
  BY <1>1, LeavingTick, NumbersEmpty
<1>3. Numbers(durable') = Numbers(durable) \cup Numbers(ticked)
  BY <1>1, NumbersConcat DEF Accounted, TypeOK
<1>4. Injective(durable')
  <2>1. Numbers(durable) \cap Numbers(ticked) = {}
    BY <1>2 DEF Accounted, NothingTwice
  <2>2. /\ durable \in Seq(Nat) /\ ticked \in Seq(Nat)
        /\ Injective(durable) /\ Injective(ticked)
    BY DEF Accounted, TypeOK, NothingTwice, BatchesInjective
  <2>3. QED
    BY <1>1, <2>1, <2>2, InjectiveConcat
<1>5. NothingMissing'
  BY <1>1, <1>2, <1>3 DEF Accounted, NothingMissing
<1>6. NothingTwice'
  BY <1>1, <1>2, <1>3, <1>4 DEF Accounted, NothingTwice
<1>7. BatchesInjective'
  BY <1>1, <1>2 DEF Accounted, BatchesInjective
<1>8. QED
  BY <1>5, <1>6, <1>7 DEF Accounted

LEMMA AccountedTickFail ==
  ASSUME Accounted, BufferIsLatest', TypeOK', TickFail
  PROVE  Accounted'
<1>1. /\ ticked' = <<>> /\ flying' = flying /\ durable' = durable
      /\ buf' = buf /\ written' = written
      /\ Gone' = Gone \cup Numbers(ticked)
  BY DEF TickFail, Gone
<1>2. /\ InFlight' = InFlight \ Numbers(ticked)
      /\ Numbers(ticked) \subseteq InFlight
      /\ Numbers(ticked') = {} /\ Injective(ticked')
  BY <1>1, LeavingTick, NumbersEmpty
<1>3. NothingMissing'
  BY <1>1, <1>2 DEF Accounted, NothingMissing
<1>4. NothingTwice'
  BY <1>1, <1>2 DEF Accounted, NothingTwice
<1>5. BatchesInjective'
  BY <1>1, <1>2 DEF Accounted, BatchesInjective
<1>6. QED
  BY <1>3, <1>4, <1>5 DEF Accounted

LEMMA AccountedShutdownSave ==
  ASSUME Accounted, BufferIsLatest', TypeOK', ShutdownSave
  PROVE  Accounted'
<1>1. /\ ticked' = ticked /\ flying' = flying /\ Gone' = Gone
      /\ written' = written /\ Numbers(buf') = {}
      /\ flusher = "saving"
      /\ durable' = durable \o buf /\ InFlight' = InFlight
  BY NumbersEmpty DEF ShutdownSave, Gone, InFlight
<1>2. Numbers(durable') = Numbers(durable) \cup Numbers(buf)
  BY <1>1, NumbersConcat DEF Accounted, TypeOK
<1>3. Injective(durable')
  <2>1. Numbers(durable) \cap Numbers(buf) = {}
    BY DEF Accounted, NothingTwice
  <2>2. /\ durable \in Seq(Nat) /\ buf \in Seq(Nat)
        /\ Injective(durable) /\ Injective(buf)
    BY AccountedFacts DEF Accounted, TypeOK, NothingTwice
  <2>3. QED
    BY <1>1, <2>1, <2>2, InjectiveConcat
<1>4. NothingMissing'
  BY <1>1, <1>2 DEF Accounted, NothingMissing
<1>5. NothingTwice'
  BY <1>1, <1>2, <1>3 DEF Accounted, NothingTwice
<1>6. BatchesInjective'
  BY <1>1 DEF Accounted, BatchesInjective
<1>7. QED
  BY <1>4, <1>5, <1>6 DEF Accounted

LEMMA AccountedCrash ==
  ASSUME Accounted, BufferIsLatest', TypeOK', Crash
  PROVE  Accounted'
<1>1. /\ Numbers(ticked') = {} /\ Injective(ticked') /\ flying' = {}
      /\ written' = written /\ durable' = durable
      /\ Numbers(buf') = {} /\ ticked' = <<>>
  BY NumbersEmpty DEF Crash
<1>2. InFlight' = {}
  BY <1>1 DEF InFlight
<1>3. Gone' = Gone \cup Numbers(buf) \cup InFlight
  BY DEF Crash, Gone, InFlight
<1>4. NothingMissing'
  BY <1>1, <1>2, <1>3 DEF Accounted, NothingMissing
<1>5. NothingTwice'
  BY <1>1, <1>2, <1>3 DEF Accounted, NothingTwice
<1>6. BatchesInjective'
  BY <1>1 DEF Accounted, BatchesInjective
<1>7. QED
  BY <1>4, <1>5, <1>6 DEF Accounted

(* The steps that move none. *)
LEMMA AccountedStill ==
  ASSUME Accounted, BufferIsLatest', TypeOK',
         UNCHANGED <<written, buf, flying, ticked, durable, dropped, lost>>,
         flusher' = "append" <=> flusher = "append"
  PROVE  Accounted'
<1>1. InFlight' = InFlight /\ Gone' = Gone
  BY DEF InFlight, Gone
<1>2. QED
  BY <1>1 DEF Accounted, NothingMissing, NothingTwice, BatchesInjective

LEMMA AccountedNext == Accounted /\ [Next]_vars => Accounted'
<1> SUFFICES ASSUME Accounted, [Next]_vars
             PROVE  Accounted'
  OBVIOUS
<1>1. TypeOK' /\ BufferIsLatest'
  BY TypeNext, LatestNext DEF Accounted
<1>2. CASE Tick \/ Cancel \/ Done \/ ShutdownLock \/ ShutdownFail \/ UNCHANGED vars
  <2>1. /\ UNCHANGED <<written, buf, flying, ticked, durable, dropped, lost>>
        /\ flusher' = "append" <=> flusher = "append"
    BY <1>2 DEF Tick, Cancel, Done, ShutdownLock, ShutdownFail, vars
  <2>2. QED
    BY <1>1, <2>1, AccountedStill
<1>3. QED
  BY <1>1, <1>2, AccountedWrite, AccountedTake, AccountedCommit, AccountedFail,
     AccountedTickTake, AccountedTickCommit, AccountedTickFail,
     AccountedShutdownSave, AccountedCrash
     DEF Next, Flush, Flusher

LEMMA AlwaysAccounted == Spec => []Accounted
BY AccountedInit, AccountedNext, PTL DEF Spec

(* Every write is in the buffer, in flight, in the store, dropped by a     *)
(* failed append, or lost with the process: none disappears in between.    *)
THEOREM NothingIsMissing == Spec => []NothingMissing
<1>1. Accounted => NothingMissing
  BY DEF Accounted
<1>2. QED
  BY <1>1, AlwaysAccounted, PTL

(* ... and in one of these places only: no two flushes, ticks or shutdowns *)
(* append the same write.                                                  *)
THEOREM NothingIsTwice == Spec => []NothingTwice
<1>1. Accounted => NothingTwice
  BY DEF Accounted
<1>2. QED
  BY <1>1, AlwaysAccounted, PTL

-----------------------------------------------------------------------------
(* The order of the writes.                                                *)

Ascending(s) == \A i, j \in DOMAIN s : i < j => s[i] < s[j]

BatchesAscend == (\A b \in flying : Ascending(b)) /\ Ascending(ticked)

LEMMA LatestAscends ==
  ASSUME TypeOK, BufferIsLatest PROVE Ascending(buf)
<1>1. Len(buf) \in Nat /\ DOMAIN buf = 1 .. Len(buf) /\ written \in Nat
  BY LenProperties DEF TypeOK
<1>2. \A i \in 1 .. Len(buf) : buf[i] = written - Len(buf) + i
  BY DEF BufferIsLatest
<1> QED BY <1>1, <1>2 DEF Ascending

LEMMA AscendNext ==
  TypeOK /\ BufferIsLatest /\ BatchesAscend /\ [Next]_vars => BatchesAscend'
<1> SUFFICES ASSUME TypeOK, BufferIsLatest, BatchesAscend, [Next]_vars
             PROVE  BatchesAscend'
  OBVIOUS
<1>1. Ascending(buf) /\ Ascending(<<>>)
  BY LatestAscends DEF Ascending
<1>2. /\ \A b \in flying' : b \in flying \/ b = buf
      /\ ticked' = ticked \/ ticked' = buf \/ ticked' = <<>>
  BY DEF Next, Flush, Flusher, Write, Take, Commit, Fail, Tick, TickTake,
     TickCommit, TickFail, Cancel, Done, ShutdownLock, ShutdownSave,
     ShutdownFail, Crash, vars
<1>3. QED
  BY <1>1, <1>2 DEF BatchesAscend

(* In every batch the writes are in their order, whatever swapped the      *)
(* buffer out: of the rows of one metric the latest is put last.           *)
THEOREM BatchesAreAscending == Spec => []BatchesAscend
<1>1. Init => BatchesAscend
  BY DEF Init, BatchesAscend, Ascending
<1>2. QED
  BY <1>1, AscendNext, TypeCorrect, BufferHoldsLatest, PTL DEF Spec

(* A batch is older than the buffer.                                       *)
LEMMA BufferIsNewer ==
  Accounted => \A n \in InFlight, k \in Numbers(buf) : n < k
<1> SUFFICES ASSUME Accounted, NEW n \in InFlight, NEW k \in Numbers(buf)
             PROVE  n < k
  OBVIOUS
<1>1. /\ Numbers(buf) = written - Len(buf) + 1 .. written
      /\ Len(buf) \in Nat /\ written \in Nat
  BY AccountedFacts
<1>2. n \in 1 .. written /\ n \notin Numbers(buf)
  BY DEF Accounted, NothingMissing, NothingTwice
<1>3. QED
  BY <1>1, <1>2

THEOREM BufferIsAlwaysNewer ==
  Spec => [](\A n \in InFlight, k \in Numbers(buf) : n < k)
BY BufferIsNewer, AlwaysAccounted, PTL
=============================================================================
