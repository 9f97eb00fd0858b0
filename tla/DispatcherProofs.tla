-------------------------- MODULE DispatcherProofs --------------------------
(***************************************************************************)
(* What holds of the analysis for all metrics, entities, workers, flush    *)
(* sizes and numbers of crashes.                                           *)
(*                                                                         *)
(* The workers share the write-behind buffer: by DispatcherUsesBuffer      *)
(* every step of the dispatcher is one of TxExecutor or leaves its         *)
(* variables alone, so what TxExecutorProofs proves of the buffer holds    *)
(* here.  The invariant of the dispatcher itself says of each metric where *)
(* it is: PlaceInv (queues, workers, datasets, alerts) and StoreInv (the   *)
(* rows of the store, from which a restart builds these again).  On these  *)
(* rest the theorems that compare the datasets to the rows of the store.   *)
(***************************************************************************)
EXTENDS Dispatcher, FiniteSetTheorems, WellFoundedInduction, TLAPS

Buffer == INSTANCE TxExecutorProofs

(* Stuttering, and the steps that change nothing but who keeps a lock.     *)
Still == UNCHANGED <<collected, queue, work, predictors, data, normVectors,
                     alerts, judged, log, db, crashes, txVars>>

LEMMA NextCases ==
  ASSUME [Next]_vars
  PROVE  \/ \E m \in Metric : Collect(m)
         \/ \E e \in Entity : Predict(e)
         \/ \E w \in Worker : Process(w)
         \/ Take \/ Flush \/ Flusher
         \/ Crash
         \/ Still
<1>1. (\E p \in DOMAIN data : PredictFails(p)) => Still
  BY DEF PredictFails, Still
<1>2. UNCHANGED vars => Still
  BY DEF vars, Still
<1> QED BY <1>1, <1>2 DEF Next

-----------------------------------------------------------------------------
(* The buffer.                                                             *)

LEMMA BufferStep == [Next]_vars => [Tx!Next]_(Tx!vars)
<1> SUFFICES ASSUME [Next]_vars PROVE [Tx!Next]_(Tx!vars)
  OBVIOUS
<1> USE DEF Tx!vars
<1>1. ASSUME NEW m \in Metric, Collect(m) PROVE UNCHANGED Tx!vars
  BY <1>1 DEF Collect, txVars
<1>2. ASSUME NEW e \in Entity, Predict(e) PROVE UNCHANGED Tx!vars
  BY <1>2 DEF Predict, txVars
<1>3. ASSUME NEW w \in Worker, Process(w)
      PROVE  Tx!Write \/ UNCHANGED Tx!vars
  <2>1. WarmWrite(w) \/ WriteNew(w) \/ WriteProcessed(w) => Tx!Write
    BY DEF WarmWrite, WriteNew, WriteProcessed, WriteRow
  <2>2. Receive(w) \/ Lookup(w) \/ Create(w) \/ Check(w) \/ WarmAppend(w)
          \/ Judge(w) => UNCHANGED txVars
    BY DEF Receive, Lookup, Create, Check, WarmAppend, Judge
  <2>3. JudgeFailed(w) \/ Alert(w) \/ SetNormVector(w) \/ Forget(w) \/ Keep(w)
          => UNCHANGED txVars
    BY DEF JudgeFailed, Alert, SetNormVector, Forget, Keep, DeleteRow
  <2>4. UNCHANGED txVars => UNCHANGED Tx!vars
    BY DEF txVars
  <2> QED BY <1>3, <2>1, <2>2, <2>3, <2>4 DEF Process
<1>4. Take => Tx!Take
  BY DEF Take
<1>5. Flush => \E b \in flying : Tx!Commit(b) \/ Tx!Fail(b)
  BY DEF Flush, Commit, Fail
<1>6. Flusher => Tx!Tick \/ Tx!TickTake \/ Tx!TickCommit \/ Tx!TickFail
  BY DEF Flusher, Ticking, TickCommit
<1>7. Crash => Tx!Crash
  BY DEF Crash
<1>8. Still => UNCHANGED Tx!vars
  BY DEF Still, txVars
<1>9. /\ Tx!Write => Tx!Next
      /\ Tx!Take => Tx!Next
      /\ (\E b \in flying : Tx!Commit(b) \/ Tx!Fail(b)) => Tx!Next
      /\ Tx!Tick \/ Tx!TickTake \/ Tx!TickCommit \/ Tx!TickFail => Tx!Next
      /\ Tx!Crash => Tx!Next
  BY DEF Tx!Next, Tx!Flush, Tx!Flusher
<1> QED BY <1>1, <1>2, <1>3, <1>4, <1>5, <1>6, <1>7, <1>8, <1>9, NextCases

(* All workers, through all crashes, use the write-behind buffer as its    *)
(* own specification has it.                                               *)
LEMMA DispatcherUsesBuffer == Spec => Tx!Spec
<1>1. Init => Tx!Init
  BY DEF Init
<1> QED BY <1>1, BufferStep, PTL DEF Spec, Tx!Spec

LEMMA SameSpec == Tx!Spec => Buffer!Spec
<1>1. Tx!Init => Buffer!Init
  BY DEF Tx!Init, Buffer!Init
<1>2. [Tx!Next]_(Tx!vars) => [Buffer!Next]_(Buffer!vars)
  BY DEF Tx!vars, Buffer!vars, Tx!Next, Buffer!Next, Tx!Write, Buffer!Write,
         Tx!Flush, Buffer!Flush, Tx!Take, Buffer!Take, Tx!Commit,
         Buffer!Commit, Tx!Fail, Buffer!Fail, Tx!Tick, Buffer!Tick,
         Tx!Flusher, Buffer!Flusher, Tx!TickTake, Buffer!TickTake,
         Tx!TickCommit, Buffer!TickCommit, Tx!TickFail, Buffer!TickFail,
         Tx!ShutdownLock, Buffer!ShutdownLock, Tx!ShutdownSave,
         Buffer!ShutdownSave, Tx!ShutdownFail, Buffer!ShutdownFail,
         Tx!Cancel, Buffer!Cancel, Tx!Done, Buffer!Done, Tx!Crash,
         Buffer!Crash, Tx!Numbers, Buffer!Numbers
<1> QED BY <1>1, <1>2, PTL DEF Tx!Spec, Buffer!Spec

LEMMA SameFacts == /\ Buffer!TypeOK => Tx!TypeOK
                   /\ Buffer!NothingMissing => Tx!NothingMissing
                   /\ Buffer!NothingTwice => Tx!NothingTwice
<1>1. Buffer!TypeOK => Tx!TypeOK
  BY DEF Buffer!TypeOK, Tx!TypeOK, Buffer!FlusherAt, Tx!FlusherAt
<1>2. \A s : Buffer!Numbers(s) = Tx!Numbers(s)
  BY DEF Buffer!Numbers, Tx!Numbers
<1>3. Buffer!InFlight = Tx!InFlight /\ Buffer!Gone = Tx!Gone
  BY <1>2 DEF Buffer!InFlight, Tx!InFlight, Buffer!Gone, Tx!Gone
<1>4. Buffer!NothingMissing => Tx!NothingMissing
  BY <1>2, <1>3 DEF Buffer!NothingMissing, Tx!NothingMissing
<1>5. Buffer!Injective(durable) => Tx!Injective(durable)
  BY DEF Buffer!Injective, Tx!Injective
<1>6. Buffer!NothingTwice => Tx!NothingTwice
  BY <1>2, <1>3, <1>5 DEF Buffer!NothingTwice, Tx!NothingTwice
<1> QED BY <1>1, <1>4, <1>6

(* Hence no row that a worker writes is missing or in two places: whatever *)
(* the interleaving, it is buffered, in one batch on its way, in the       *)
(* store, or in an append that failed, unless the process died with it.    *)
THEOREM DispatcherAccountsForRows ==
  Spec => [](Tx!TypeOK /\ Tx!NothingMissing /\ Tx!NothingTwice)
<1>1. Buffer!Spec => []Buffer!TypeOK
  BY Buffer!TypeCorrect, ConfigAssumption
<1>2. Buffer!Spec => []Buffer!NothingMissing
  BY Buffer!NothingIsMissing, ConfigAssumption
<1>3. Buffer!Spec => []Buffer!NothingTwice
  BY Buffer!NothingIsTwice, ConfigAssumption
<1> QED BY <1>1, <1>2, <1>3, DispatcherUsesBuffer, SameSpec, SameFacts, PTL

-----------------------------------------------------------------------------
(* Sequences.                                                              *)

LEMMA EmptyFacts ==
  ASSUME NEW S
  PROVE  <<>> \in Seq(S) /\ ToSet(<<>>) = {} /\ IsInjective(<<>>) /\ Len(<<>>) = 0
BY DEF ToSet, IsInjective

LEMMA AppendFacts ==
  ASSUME NEW S, NEW s \in Seq(S), NEW m \in S
  PROVE  /\ Append(s, m) \in Seq(S)
         /\ ToSet(Append(s, m)) = ToSet(s) \cup {m}
         /\ IsInjective(s) /\ m \notin ToSet(s) => IsInjective(Append(s, m))
<1>1. /\ Append(s, m) \in Seq(S)
      /\ DOMAIN s = 1 .. Len(s) /\ Len(s) \in Nat
      /\ DOMAIN Append(s, m) = 1 .. Len(s) + 1
      /\ \A i \in 1 .. Len(s) : Append(s, m)[i] = s[i]
      /\ Append(s, m)[Len(s) + 1] = m
  OBVIOUS
<1>2. ToSet(s) \cup {m} \subseteq ToSet(Append(s, m))
  <2>1. Len(s) + 1 \in 1 .. Len(s) + 1
    BY <1>1
  <2> QED BY <1>1, <2>1 DEF ToSet
<1>3. ToSet(Append(s, m)) \subseteq ToSet(s) \cup {m}
  <2>1. \A i \in 1 .. Len(s) + 1 : i \in 1 .. Len(s) \/ i = Len(s) + 1
    BY <1>1
  <2> QED BY <1>1, <2>1 DEF ToSet
<1>4. ASSUME IsInjective(s), m \notin ToSet(s)
      PROVE  IsInjective(Append(s, m))
  <2> SUFFICES ASSUME NEW i \in 1 .. Len(s) + 1, NEW j \in 1 .. Len(s) + 1,
                      Append(s, m)[i] = Append(s, m)[j]
               PROVE  i = j
    BY <1>1 DEF IsInjective
  <2>1. \A k \in 1 .. Len(s) : s[k] # m
    BY <1>1, <1>4 DEF ToSet
  <2>2. CASE i \in 1 .. Len(s) /\ j \in 1 .. Len(s)
    BY <1>1, <1>4, <2>2 DEF IsInjective
  <2>3. CASE i = Len(s) + 1 /\ j \in 1 .. Len(s)
    BY <1>1, <2>1, <2>3
  <2>4. CASE j = Len(s) + 1 /\ i \in 1 .. Len(s)
    BY <1>1, <2>1, <2>4
  <2> QED BY <1>1, <2>2, <2>3, <2>4
<1> QED BY <1>1, <1>2, <1>3, <1>4

LEMMA TailFacts ==
  ASSUME NEW S, NEW s \in Seq(S), s # <<>>
  PROVE  /\ Head(s) \in S /\ Head(s) \in ToSet(s)
         /\ Tail(s) \in Seq(S)
         /\ ToSet(Tail(s)) \subseteq ToSet(s)
         /\ IsInjective(s) => /\ IsInjective(Tail(s))
                              /\ Head(s) \notin ToSet(Tail(s))
<1>1. /\ Len(s) \in Nat /\ Len(s) >= 1 /\ DOMAIN s = 1 .. Len(s)
      /\ Head(s) = s[1] /\ Head(s) \in S
      /\ Tail(s) \in Seq(S)
      /\ DOMAIN Tail(s) = 1 .. Len(s) - 1
      /\ \A i \in 1 .. Len(s) - 1 : Tail(s)[i] = s[i + 1] /\ i + 1 \in 1 .. Len(s)
  OBVIOUS
<1>2. 1 \in 1 .. Len(s)
  BY <1>1
<1>3. Head(s) \in ToSet(s) /\ ToSet(Tail(s)) \subseteq ToSet(s)
  BY <1>1, <1>2 DEF ToSet
<1>4. ASSUME IsInjective(s)
      PROVE  IsInjective(Tail(s)) /\ Head(s) \notin ToSet(Tail(s))
  <2>1. ASSUME NEW i \in 1 .. Len(s) - 1, NEW j \in 1 .. Len(s) - 1,
               Tail(s)[i] = Tail(s)[j]
        PROVE  i = j
    <3>1. i + 1 = j + 1
      BY <1>1, <1>4, <2>1 DEF IsInjective
    <3> QED BY <3>1
  <2>2. ASSUME NEW i \in 1 .. Len(s) - 1 PROVE Tail(s)[i] # Head(s)
    <3>1. i + 1 # 1 /\ Tail(s)[i] = s[i + 1]
      BY <1>1
    <3> QED BY <1>1, <1>2, <1>4, <3>1 DEF IsInjective
  <2> QED BY <1>1, <2>1, <2>2 DEF IsInjective, ToSet
<1> QED BY <1>1, <1>3, <1>4

LEMMA FunctionIsSeq ==
  ASSUME NEW S, NEW n \in Nat, NEW f \in [1 .. n -> S]
  PROVE  f \in Seq(S) /\ Len(f) = n
<1>1. f \in Seq(S)
  OBVIOUS
<1>2. 1 .. Len(f) = 1 .. n /\ Len(f) \in Nat
  BY <1>1
<1> QED BY <1>1, <1>2

LEMMA SetToSeqFacts ==
  ASSUME NEW S, IsFiniteSet(S)
  PROVE  /\ SetToSeq(S) \in Seq(S)
         /\ IsInjective(SetToSeq(S))
         /\ ToSet(SetToSeq(S)) = S
<1> DEFINE f == SetToSeq(S)  n == Cardinality(S)
<1>1. n \in Nat /\ ExistsBijection(1 .. n, S)
  BY FS_CardinalityType
<1>2. \E g \in [1 .. n -> S] : IsInjective(g)
  BY <1>1 DEF ExistsBijection, Bijection, Injection
<1>3. f \in [1 .. n -> S] /\ IsInjective(f)
  BY <1>2 DEF SetToSeq
<1>4. f \in Seq(S)
  BY <1>1, <1>3
<1>5. ToSet(f) = S
  <2>1. IsFiniteSet(1 .. n) /\ Cardinality(1 .. n) = n
    BY <1>1, FS_Interval
  <2>2. f \in Injection(1 .. n, S)
    BY <1>3 DEF Injection
  <2>3. f \in Surjection(1 .. n, S)
    BY <2>1, <2>2, FS_Injection
  <2> QED BY <1>3, <2>3 DEF Surjection, ToSet
<1> QED BY <1>3, <1>4, <1>5

(* All metrics in the datasets d, and that none is twice in one of them.   *)
Members(d) == UNION {ToSet(d[i]) : i \in DOMAIN d}
Proper(d) == d \in Seq(Seq(Metric)) /\ \A i \in DOMAIN d : IsInjective(d[i])

LEMMA DatasetGrows ==
  ASSUME Proper(data), NEW w \in Worker, AppendData(w),
         work[w].m \in Metric, work[w].m \notin Members(data)
  PROVE  Proper(data') /\ Members(data') \subseteq Members(data) \cup {work[w].m}
<1> DEFINE p == work[w].pred  m == work[w].m
<1>1. DOMAIN data' = DOMAIN data /\ \A i \in DOMAIN data :
        data'[i] = IF i = p THEN Append(data[i], m) ELSE data[i]
  BY DEF AppendData
<1>2. data \in Seq(Seq(Metric)) /\ DOMAIN data = 1 .. Len(data) /\ Len(data) \in Nat
  BY DEF Proper
<1>3. m \in Metric /\ \A i \in DOMAIN data :
        data[i] \in Seq(Metric) /\ IsInjective(data[i]) /\ m \notin ToSet(data[i])
  BY <1>2 DEF Proper, Members
<1> HIDE DEF p, m
<1>4. ASSUME NEW i \in DOMAIN data
      PROVE  /\ data'[i] \in Seq(Metric)
             /\ IsInjective(data'[i])
             /\ ToSet(data'[i]) \subseteq ToSet(data[i]) \cup {m}
  <2>1. /\ Append(data[i], m) \in Seq(Metric)
        /\ IsInjective(Append(data[i], m))
        /\ ToSet(Append(data[i], m)) = ToSet(data[i]) \cup {m}
    BY <1>3, AppendFacts
  <2>2. CASE i = p
    BY <1>1, <2>1, <2>2
  <2>3. CASE i # p
    BY <1>1, <1>3, <2>3
  <2> QED BY <2>2, <2>3
<1>5. data' \in Seq(Seq(Metric))
  <2> DEFINE S == Seq(Metric)
  <2>1. data' = [i \in DOMAIN data |-> data'[i]]
    BY DEF AppendData
  <2>2. data' \in [1 .. Len(data) -> S]
    BY <1>2, <1>4, <2>1
  <2> HIDE DEF S
  <2>3. \A f \in [1 .. Len(data) -> S] : f \in Seq(S)
    BY <1>2, FunctionIsSeq
  <2> QED BY <2>2, <2>3 DEF S
<1>6. Members(data') \subseteq Members(data) \cup {m}
  BY <1>1, <1>4 DEF Members
<1> QED BY <1>1, <1>4, <1>5, <1>6 DEF Proper, m

LEMMA DatasetAdded ==
  ASSUME NEW d, Proper(d)
  PROVE  /\ Proper(Append(d, <<>>))
         /\ Members(Append(d, <<>>)) = Members(d)
         /\ Len(Append(d, <<>>)) = Len(d) + 1 /\ Len(d) \in Nat
<1> DEFINE e == Append(d, <<>>)
<1>1. d \in Seq(Seq(Metric)) /\ <<>> \in Seq(Metric)
  BY DEF Proper
<1>2. /\ e \in Seq(Seq(Metric)) /\ Len(e) = Len(d) + 1 /\ Len(d) \in Nat
      /\ DOMAIN d = 1 .. Len(d) /\ DOMAIN e = 1 .. Len(d) + 1
      /\ \A i \in 1 .. Len(d) : e[i] = d[i]
      /\ e[Len(d) + 1] = <<>>
  BY <1>1
<1>3. \A i \in DOMAIN e : i \in DOMAIN d \/ e[i] = <<>>
  BY <1>2
<1>4. \A i \in DOMAIN d : i \in DOMAIN e /\ e[i] = d[i]
  BY <1>2
<1>5. Members(e) = Members(d)
  BY <1>3, <1>4, EmptyFacts DEF Members
<1>6. \A i \in DOMAIN e : IsInjective(e[i])
  BY <1>3, <1>4, EmptyFacts DEF Proper
<1> QED BY <1>2, <1>5, <1>6 DEF Proper

-----------------------------------------------------------------------------
(* The store: finite, with one row for an id, of known entities.           *)

StoreInv(d) ==
  /\ d \in [rows : SUBSET AnyRow, keys : SUBSET Entity]
  /\ IsFiniteSet(d.rows)
  /\ \A r, s \in d.rows : r.id = s.id => r = s

LEMMA RowTyped ==
  ASSUME NEW m \in Metric, NEW s \in {"new", "processed"}, NEW o \in BOOLEAN
  PROVE  Row(m, s, o) \in AnyRow /\ Row(m, s, o).id = m
BY DEF AnyRow, Row

LEMMA RowFacts ==
  ASSUME NEW r \in AnyRow
  PROVE  /\ r.id \in Metric /\ r.entity = EntityOf[r.id] /\ r.entity \in Entity
         /\ ~(IsNew(r) /\ IsProcessed(r))
         /\ \A s \in AnyRow : Key(r) = Key(s) <=> r.id = s.id
BY DEF AnyRow, Row, Entity, IsNew, IsProcessed, Key

LEMMA RangeFinite ==
  ASSUME NEW S, NEW s \in Seq(S)
  PROVE  IsFiniteSet(ToSet(s)) /\ ToSet(s) \subseteq S
<1>1. /\ Len(s) \in Nat /\ DOMAIN s = 1 .. Len(s)
      /\ s \in [1 .. Len(s) -> ToSet(s)]
      /\ ToSet(s) \subseteq S
  BY DEF ToSet
<1>2. s \in Surjection(1 .. Len(s), ToSet(s))
  BY <1>1 DEF Surjection, ToSet
<1>3. IsFiniteSet(1 .. Len(s))
  BY <1>1, FS_Interval
<1> QED BY <1>1, <1>2, <1>3, FS_Surjection

LEMMA StoreAppend ==
  ASSUME NEW d, StoreInv(d), NEW b \in Seq(AnyRow)
  PROVE  /\ StoreInv(AppendMany(d, b))
         /\ \A r \in AppendMany(d, b).rows : r \in d.rows \/ r \in ToSet(b)
<1> DEFINE kept == {r \in d.rows : \A i \in DOMAIN b : Key(b[i]) # Key(r)}
           e == AppendMany(d, b)
<1>1. /\ e.rows = kept \cup LastPut(b)
      /\ e.keys = IF d.keys = {} /\ b # <<>> THEN {b[1].entity} ELSE d.keys
      /\ e = [rows |-> e.rows, keys |-> e.keys]
  BY DEF AppendMany
<1>2. /\ DOMAIN b = 1 .. Len(b) /\ Len(b) \in Nat
      /\ \A i \in DOMAIN b : b[i] \in AnyRow
  OBVIOUS
<1>3. LastPut(b) \subseteq ToSet(b) /\ ToSet(b) \subseteq AnyRow
  BY <1>2 DEF LastPut, ToSet
<1>4. d.rows \subseteq AnyRow /\ d.keys \subseteq Entity
  BY DEF StoreInv
<1>5. IsFiniteSet(e.rows)
  <2>1. IsFiniteSet(kept)
    BY FS_Subset DEF StoreInv
  <2>2. IsFiniteSet(LastPut(b))
    BY <1>3, RangeFinite, FS_Subset
  <2>3. IsFiniteSet(kept \cup LastPut(b))
    BY <2>1, <2>2, FS_Union
  <2> QED BY <1>1, <2>3
<1>6. e.keys \subseteq Entity
  <2>1. CASE b # <<>>
    <3>1. 1 \in DOMAIN b
      BY <1>2, <2>1
    <3> QED BY <1>1, <1>2, <1>4, <3>1, RowFacts
  <2> QED BY <1>1, <1>4, <2>1
<1>7. ASSUME NEW r \in e.rows, NEW s \in e.rows, r.id = s.id
      PROVE  r = s
  <2>1. r \in AnyRow /\ s \in AnyRow /\ Key(r) = Key(s)
    BY <1>1, <1>3, <1>4, <1>7, RowFacts
  <2>2. CASE r \in kept /\ s \in kept
    BY <1>7, <2>2 DEF StoreInv
  <2>3. CASE r \in LastPut(b) /\ s \in LastPut(b)
    <3>1. PICK i \in DOMAIN b : r = b[i] /\ \A j \in DOMAIN b : Key(b[j]) = Key(b[i]) => j <= i
      BY <2>3 DEF LastPut
    <3>2. PICK j \in DOMAIN b : s = b[j] /\ \A k \in DOMAIN b : Key(b[k]) = Key(b[j]) => k <= j
      BY <2>3 DEF LastPut
    <3>3. i <= j /\ j <= i
      BY <2>1, <3>1, <3>2
    <3> QED BY <1>2, <3>1, <3>2, <3>3
  <2>4. kept \cap LastPut(b) = {} /\ \A x \in kept : \A y \in LastPut(b) : Key(x) # Key(y)
    BY DEF LastPut
  <2> QED BY <1>1, <2>1, <2>2, <2>3, <2>4
<1>8. e.rows \subseteq AnyRow
  BY <1>1, <1>3, <1>4
<1>9. StoreInv(e)
  BY <1>1, <1>5, <1>6, <1>7, <1>8 DEF StoreInv
<1> QED BY <1>1, <1>3, <1>9

LEMMA StoreDelete ==
  ASSUME NEW d, StoreInv(d), NEW m
  PROVE  StoreInv(Delete(d, m)) /\ Delete(d, m).rows \subseteq d.rows
<1> DEFINE e == Delete(d, m)
<1>1. /\ e = [d EXCEPT !.rows = {r \in @ : \A n \in {m} : Key(n) # Key(r)}]
      /\ d \in [rows : SUBSET AnyRow, keys : SUBSET Entity]
  BY DEF Delete, DeleteMany, StoreInv
<1>2. /\ e \in [rows : SUBSET AnyRow, keys : SUBSET Entity]
      /\ e.rows \subseteq d.rows
  BY <1>1
<1>3. IsFiniteSet(e.rows)
  BY <1>2, FS_Subset DEF StoreInv
<1> QED BY <1>2, <1>3 DEF StoreInv

(* The entities that bulkLoad finds, and the ids it takes from their rows. *)
LoadedFrom(d) == {e \in Entity : Loaded(d, e) # {}}

LEMMA LoadedRows ==
  ASSUME NEW d, StoreInv(d), NEW e
  PROVE  /\ Loaded(d, e) \subseteq d.rows /\ \A r \in Loaded(d, e) : r.entity = e
         /\ \A T \in SUBSET Loaded(d, e) : IsFiniteSet(Ids(T)) /\ Ids(T) \subseteq Metric
<1>1. Loaded(d, e) \subseteq d.rows /\ \A r \in Loaded(d, e) : r.entity = e
  BY DEF Loaded, FindAll
<1>2. d.rows \subseteq AnyRow /\ IsFiniteSet(d.rows)
  BY DEF StoreInv
<1>3. ASSUME NEW T \in SUBSET Loaded(d, e)
      PROVE  IsFiniteSet(Ids(T)) /\ Ids(T) \subseteq Metric
  <2> DEFINE f == [r \in T |-> r.id]
  <2>1. IsFiniteSet(T)
    BY <1>1, <1>2, FS_Subset
  <2>2. f \in Surjection(T, Ids(T))
    BY DEF Ids, Surjection
  <2>3. Ids(T) \subseteq Metric
    BY <1>1, <1>2, RowFacts DEF Ids
  <2> QED BY <2>1, <2>2, <2>3, FS_Surjection
<1> QED BY <1>1, <1>3

LEMMA LoadedList ==
  ASSUME NEW d, StoreInv(d), NEW L, L = LoadedEntities(d)
  PROVE  /\ L \in Seq(LoadedFrom(d)) /\ ToSet(L) = LoadedFrom(d) /\ IsInjective(L)
         /\ DOMAIN L = 1 .. Len(L) /\ Len(L) \in Nat
<1> DEFINE f == [r \in d.rows |-> r.entity]
           T == {r.entity : r \in d.rows}
<1>1. f \in Surjection(d.rows, T)
  BY DEF Surjection
<1>2. IsFiniteSet(T)
  BY <1>1, FS_Surjection DEF StoreInv
<1>3. LoadedFrom(d) \subseteq T
  BY LoadedRows DEF LoadedFrom
<1>4. IsFiniteSet(LoadedFrom(d))
  BY <1>2, <1>3, FS_Subset
<1>5. L = SetToSeq(LoadedFrom(d))
  BY DEF LoadedEntities, LoadedFrom
<1>6. L \in Seq(LoadedFrom(d)) /\ ToSet(L) = LoadedFrom(d) /\ IsInjective(L)
  BY <1>4, <1>5, SetToSeqFacts
<1> QED BY <1>6

LEMMA LoadedDataset ==
  ASSUME NEW d, StoreInv(d), NEW i \in DOMAIN LoadedEntities(d)
  PROVE  /\ LoadedData(d)[i] \in Seq(Metric)
         /\ IsInjective(LoadedData(d)[i])
         /\ ToSet(LoadedData(d)[i])
              = Ids({r \in Loaded(d, LoadedEntities(d)[i]) : IsProcessed(r)})
<1> DEFINE done == Ids({r \in Loaded(d, LoadedEntities(d)[i]) : IsProcessed(r)})
<1>1. LoadedData(d)[i] = SetToSeq(done)
  BY DEF LoadedData
<1>2. IsFiniteSet(done) /\ done \subseteq Metric
  BY LoadedRows
<1> HIDE DEF done
<1>3. SetToSeq(done) \in Seq(done) /\ IsInjective(SetToSeq(done)) /\ ToSet(SetToSeq(done)) = done
  BY <1>2, SetToSeqFacts
<1>4. SetToSeq(done) \in Seq(Metric)
  BY <1>2, <1>3
<1> QED BY <1>1, <1>3, <1>4 DEF done

(* What bulkLoad builds from a store: queues and datasets without          *)
(* duplicates, no metric in both.                                          *)
LEMMA LoadFacts ==
  ASSUME NEW d, StoreInv(d)
  PROVE  /\ LoadedQueue(d) \in [Entity -> Seq(Metric)]
         /\ \A e \in Entity :
              /\ IsInjective(LoadedQueue(d)[e])
              /\ \A m \in ToSet(LoadedQueue(d)[e]) :
                   /\ EntityOf[m] = e
                   /\ \E r \in d.rows : r.id = m /\ IsNew(r)
         /\ Proper(LoadedData(d))
         /\ \A m \in Members(LoadedData(d)) : \E r \in d.rows : r.id = m /\ IsProcessed(r)
         /\ LoadedPredictors(d) \in [Entity -> Nat]
         /\ \A e \in Entity : LoadedPredictors(d)[e] <= Len(LoadedData(d))
<1> DEFINE L == LoadedEntities(d)
           found == {e \in Entity : Loaded(d, e) # {}}
           new(e) == Ids({r \in Loaded(d, e) : IsNew(r)})
           done(e) == Ids({r \in Loaded(d, e) : IsProcessed(r)})
<1>1. \A e : Loaded(d, e) \subseteq d.rows /\ \A r \in Loaded(d, e) : r.entity = e
  BY DEF Loaded, FindAll
<1>2. d.rows \subseteq AnyRow /\ IsFiniteSet(d.rows)
  BY DEF StoreInv
<1>4. ASSUME NEW e
      PROVE  IsFiniteSet(new(e)) /\ new(e) \subseteq Metric
  BY LoadedRows
<1>6. L \in Seq(found) /\ ToSet(L) = found /\ DOMAIN L = 1 .. Len(L) /\ Len(L) \in Nat
  BY LoadedList DEF LoadedFrom
<1>7. ASSUME NEW e \in Entity
      PROVE  /\ LoadedQueue(d)[e] = SetToSeq(new(e))
             /\ LoadedQueue(d)[e] \in Seq(Metric)
             /\ IsInjective(LoadedQueue(d)[e])
             /\ ToSet(LoadedQueue(d)[e]) = new(e)
  <2>1. LoadedQueue(d)[e] = SetToSeq(new(e))
    BY DEF LoadedQueue
  <2>2. SetToSeq(new(e)) \in Seq(new(e)) /\ IsInjective(SetToSeq(new(e)))
        /\ ToSet(SetToSeq(new(e))) = new(e)
    BY <1>4, SetToSeqFacts
  <2>3. \A T : T \subseteq Metric => Seq(T) \subseteq Seq(Metric)
    OBVIOUS
  <2>4. new(e) \subseteq Metric
    BY <1>4
  <2> HIDE DEF new
  <2>5. SetToSeq(new(e)) \in Seq(Metric)
    BY <2>2, <2>3, <2>4
  <2> QED BY <2>1, <2>2, <2>5
<1>8. ASSUME NEW e \in Entity, NEW m \in ToSet(LoadedQueue(d)[e])
      PROVE  EntityOf[m] = e /\ \E r \in d.rows : r.id = m /\ IsNew(r)
  <2>1. PICK r \in Loaded(d, e) : r.id = m /\ IsNew(r)
    BY <1>7, <1>8 DEF Ids
  <2> QED BY <1>1, <1>2, <2>1, RowFacts
<1>9. LoadedQueue(d) \in [Entity -> Seq(Metric)]
  <2>1. LoadedQueue(d) = [e \in Entity |-> SetToSeq(new(e))]
    BY DEF LoadedQueue
  <2> QED BY <1>7, <2>1
<1>10. ASSUME NEW i \in DOMAIN L
       PROVE  /\ LoadedData(d)[i] \in Seq(Metric)
              /\ IsInjective(LoadedData(d)[i])
              /\ ToSet(LoadedData(d)[i]) = done(L[i])
  BY LoadedDataset
<1>11. DOMAIN LoadedData(d) = DOMAIN L
  BY DEF LoadedData
<1>12. LoadedData(d) \in Seq(Seq(Metric)) /\ Len(LoadedData(d)) = Len(L)
  <2> DEFINE S == Seq(Metric)  D == LoadedData(d)
  <2>1. D \in [1 .. Len(L) -> S]
    <3>1. D = [i \in DOMAIN L |-> D[i]]
      BY DEF LoadedData
    <3> QED BY <1>6, <1>10, <3>1
  <2> HIDE DEF S, D
  <2>2. D \in Seq(S) /\ Len(D) = Len(L)
    BY <1>6, <2>1, FunctionIsSeq
  <2> QED BY <2>2 DEF S, D
<1>13. Proper(LoadedData(d))
  BY <1>10, <1>11, <1>12 DEF Proper
<1>14. ASSUME NEW m \in Members(LoadedData(d))
       PROVE  \E r \in d.rows : r.id = m /\ IsProcessed(r)
  <2>1. PICK i \in DOMAIN L : m \in done(L[i])
    BY <1>10, <1>11 DEF Members
  <2> QED BY <1>1, <2>1 DEF Ids
<1>15. ASSUME NEW e \in Entity
       PROVE  LoadedPredictors(d)[e] \in Nat /\ LoadedPredictors(d)[e] <= Len(L)
  <2>1. LoadedPredictors(d)[e] = IF Loaded(d, e) = {} THEN 0
                                 ELSE CHOOSE i \in DOMAIN L : L[i] = e
    BY DEF LoadedPredictors
  <2>2. CASE Loaded(d, e) # {}
    <3>1. \E i \in DOMAIN L : L[i] = e
      BY <1>6, <2>2 DEF ToSet
    <3>2. (CHOOSE i \in DOMAIN L : L[i] = e) \in DOMAIN L
      BY <3>1
    <3> QED BY <1>6, <2>1, <2>2, <3>2
  <2> QED BY <1>6, <2>1, <2>2
<1>16. LoadedPredictors(d) \in [Entity -> Nat]
  <2>1. LoadedPredictors(d) = [e \in Entity |-> LoadedPredictors(d)[e]]
    BY DEF LoadedPredictors
  <2> QED BY <1>15, <2>1
<1> QED BY <1>7, <1>8, <1>9, <1>12, <1>13, <1>14, <1>15, <1>16

-----------------------------------------------------------------------------
(* Types.                                                                  *)

(* A worker that is not idle has a metric in hand.                         *)
WorkInv == \A w \in Worker : work[w] = Idle \/ (work[w].at # "idle" /\ work[w].m \in Metric)

LEMMA LogGrows ==
  ASSUME TypeOK, NEW w \in Worker, work[w].m \in Metric,
         NEW s \in {"new", "processed"}, WriteRow(w, s)
  PROVE  /\ log' \in Seq(AnyRow) /\ Len(log') = written'
         /\ \A r \in ToSet(log') : r \in ToSet(log) \/ r.id = work[w].m
<1> DEFINE r == Row(work[w].m, s, work[w].outlier)
<1>1. r \in AnyRow /\ r.id = work[w].m
  BY DEF AnyRow, Row, TypeOK
<1>2. log \in Seq(AnyRow) /\ Len(log) = written /\ log' = Append(log, r)
      /\ written' = written + 1
  BY DEF TypeOK, WriteRow, Tx!Write
<1>3. Append(log, r) \in Seq(AnyRow) /\ ToSet(Append(log, r)) = ToSet(log) \cup {r}
  BY <1>1, <1>2, AppendFacts
<1>4. Len(Append(log, r)) = Len(log) + 1
  BY <1>2
<1> QED BY <1>1, <1>2, <1>3, <1>4

(* The rows of a batch are rows of the log.                                *)
LEMMA BatchRows ==
  ASSUME TypeOK, Tx!TypeOK, Tx!NothingMissing,
         NEW b, b \in flying \/ b = ticked
  PROVE  RowsOf(b) \in Seq(AnyRow) /\ ToSet(RowsOf(b)) \subseteq ToSet(log)
<1>1. b \in Seq(Nat) /\ DOMAIN b = 1 .. Len(b) /\ Len(b) \in Nat
  BY DEF Tx!TypeOK
<1>2. Tx!Numbers(b) \subseteq 1 .. written
  BY DEF Tx!NothingMissing, Tx!InFlight
<1>3. log \in Seq(AnyRow) /\ DOMAIN log = 1 .. Len(log) /\ written = Len(log)
  BY DEF TypeOK
<1>4. ASSUME NEW i \in DOMAIN b
      PROVE  log[b[i]] \in AnyRow /\ log[b[i]] \in ToSet(log)
  <2>1. b[i] \in DOMAIN log
    BY <1>2, <1>3 DEF Tx!Numbers
  <2>2. log[b[i]] \in AnyRow
    BY <1>3, <2>1
  <2>3. log[b[i]] \in ToSet(log)
    BY <2>1, Zenon DEF ToSet
  <2> QED BY <2>2, <2>3
<1>5. RowsOf(b) \in [1 .. Len(b) -> AnyRow]
  BY <1>1, <1>4 DEF RowsOf
<1>6. ToSet(RowsOf(b)) \subseteq ToSet(log)
  <2> SUFFICES ASSUME NEW i \in DOMAIN b PROVE RowsOf(b)[i] \in ToSet(log)
    BY DEF ToSet, RowsOf
  <2> QED BY <1>4 DEF RowsOf
<1> QED BY <1>1, <1>5, <1>6, FunctionIsSeq

-----------------------------------------------------------------------------
(* Where a metric is.                                                      *)

(* Until a worker appends its metric it is in no dataset; until it alerts  *)
(* no alert for it was given.                                              *)
PlaceInv ==
  /\ Proper(data)
  /\ IsInjective(alerts)
  /\ \A e \in Entity : IsInjective(queue[e])
  /\ \A e \in Entity : \A m \in ToSet(queue[e]) :
       /\ EntityOf[m] = e
       /\ m \in collected
       /\ m \notin Members(data) \cup ToSet(alerts)
       /\ \A w \in Worker : work[w].m # m
  /\ \A w \in Worker : work[w].m \in Metric =>
       /\ work[w].m \in collected
       /\ work[w].at # "finish" => work[w].m \notin Members(data)
       /\ work[w].at \notin {"after", "finish"} => work[w].m \notin ToSet(alerts)
       /\ \A v \in Worker : work[v].m = work[w].m => v = w
  /\ Members(data) \cup ToSet(alerts) \subseteq collected

RowsInv ==
  /\ StoreInv(db)
  /\ \A r \in db.rows : r.id \in collected
  /\ \A r \in ToSet(log) : r.id \in collected

Inv == TypeOK /\ WorkInv /\ PlaceInv /\ RowsInv

Loads == /\ StoreInv(db) /\ \A r \in db.rows : r.id \in collected
         /\ queue = LoadedQueue(db) /\ data = LoadedData(db) /\ alerts = <<>>
         /\ work = [w \in Worker |-> Idle]

LEMMA LoadInv == Loads => PlaceInv
<1> SUFFICES ASSUME Loads PROVE PlaceInv
  OBVIOUS
<1> USE DEF Loads
<1>1. \A w \in Worker : work[w].m = None
  BY DEF Idle
<1>2. IsInjective(alerts) /\ ToSet(alerts) = {}
  BY EmptyFacts
<1>3. Proper(data) /\ \A m \in Members(data) : \E r \in db.rows : r.id = m /\ IsProcessed(r)
  BY LoadFacts
<1>4. \A e \in Entity : /\ IsInjective(queue[e]) /\ queue[e] \in Seq(Metric)
                        /\ \A m \in ToSet(queue[e]) :
                             EntityOf[m] = e /\ \E r \in db.rows : r.id = m /\ IsNew(r)
  <2>1. LoadedQueue(db) \in [Entity -> Seq(Metric)]
    BY LoadFacts
  <2>2. \A e \in Entity :
          /\ IsInjective(LoadedQueue(db)[e])
          /\ \A m \in ToSet(LoadedQueue(db)[e]) :
               EntityOf[m] = e /\ \E r \in db.rows : r.id = m /\ IsNew(r)
    BY LoadFacts, Zenon
  <2> QED BY <2>1, <2>2
<1>5. ASSUME NEW r \in db.rows, NEW s \in db.rows, r.id = s.id, IsNew(r), IsProcessed(s)
      PROVE  FALSE
  BY <1>5, RowFacts DEF StoreInv
<1>6. \A e \in Entity : \A m \in ToSet(queue[e]) : m \in collected /\ m \notin Members(data)
  BY <1>3, <1>4, <1>5
<1>7. \A e \in Entity : ToSet(queue[e]) \subseteq Metric
  BY <1>4, RangeFinite
<1>8. \A e \in Entity : \A m \in ToSet(queue[e]) : \A w \in Worker : work[w].m # m
  BY <1>1, <1>7, WorkerAssumption
<1>9. \A w \in Worker : work[w].m \notin Metric
  BY <1>1, WorkerAssumption
<1>10. Members(data) \subseteq collected
  BY <1>3
<1> HIDE DEF Members
<1> QED BY <1>2, <1>3, <1>4, <1>6, <1>8, <1>9, <1>10, Zenon DEF PlaceInv

LEMMA InitInv == Init => Inv
<1> SUFFICES ASSUME Init PROVE Inv
  OBVIOUS
<1> DEFINE rows == SetToSeq({Row(m, "processed", FALSE) : m \in Stored})
<1>1. EmptyDB.rows = {} /\ StoreInv(EmptyDB)
  BY FS_EmptySet DEF EmptyDB, StoreInv
<1>2. rows \in Seq(AnyRow) /\ \A r \in ToSet(rows) : r.id \in Stored
  <2> DEFINE T == {Row(m, "processed", FALSE) : m \in Stored}
             f == [m \in Stored |-> Row(m, "processed", FALSE)]
  <2>1. IsFiniteSet(Stored) /\ Stored \subseteq Metric
    BY StoredAssumption
  <2>2. f \in Surjection(Stored, T)
    BY DEF Surjection
  <2>3. IsFiniteSet(T)
    BY <2>1, <2>2, FS_Surjection
  <2>4. T \subseteq AnyRow /\ \A r \in T : r.id \in Stored
    <3>1. ASSUME NEW m \in Stored
          PROVE  Row(m, "processed", FALSE) \in AnyRow /\ Row(m, "processed", FALSE).id = m
      <4>1. m \in Metric /\ FALSE \in BOOLEAN /\ "processed" \in {"new", "processed"}
        BY <2>1
      <4> QED BY <4>1, RowTyped
    <3> QED BY <3>1
  <2>5. SetToSeq(T) \in Seq(T) /\ ToSet(SetToSeq(T)) = T
    BY <2>3, SetToSeqFacts
  <2> HIDE DEF T
  <2>6. SetToSeq(T) \in Seq(AnyRow)
    BY <2>4, <2>5
  <2> QED BY <2>4, <2>5, <2>6 DEF T
<1>3. StoreInv(StoredDB) /\ \A r \in StoredDB.rows : r.id \in Stored
  BY <1>1, <1>2, StoreAppend DEF StoredDB
<1>4. log = <<>> /\ ToSet(log) = {} /\ written = 0 /\ Len(log) = 0
      /\ log \in Seq(AnyRow) /\ alerts = <<>> /\ alerts \in Seq(Metric)
  BY EmptyFacts DEF Init, Tx!Init
<1>5. RowsInv
  BY <1>3, <1>4 DEF Init, RowsInv
<1>6. PlaceInv
  BY <1>3, LoadInv DEF Init, Loads
<1>7. WorkInv
  BY DEF Init, WorkInv
<1>8. TypeOK
  <2>1. /\ queue \in [Entity -> Seq(Metric)]
        /\ predictors \in [Entity -> Nat]
        /\ \A e \in Entity : predictors[e] <= Len(data)
        /\ data \in Seq(Seq(Metric))
    BY <1>3, LoadFacts DEF Init, Proper
  <2>2. work \in [Worker -> [at : WorkAt, m : Metric \cup {None}, pred : Nat,
                             outlier : BOOLEAN, normVec : Metric \cup {NilVec}]]
    BY DEF Init, Idle, WorkAt
  <2>3. db \in [rows : SUBSET AnyRow, keys : SUBSET Entity]
    BY <1>3 DEF Init, StoreInv
  <2>4. crashes \in 0 .. MaxCrashes /\ collected \subseteq Metric
    BY ConfigAssumption, StoredAssumption DEF Init
  <2>5. /\ normVectors \in [Entity -> Metric \cup {NilVec, None}]
        /\ judged \in [Metric -> {None, "outlier", "normal", "error"}]
        /\ leaked \subseteq Nat
    BY DEF Init
  <2> QED BY <1>4, <2>1, <2>2, <2>3, <2>4, <2>5 DEF TypeOK
<1> QED BY <1>5, <1>6, <1>7, <1>8 DEF Inv

-----------------------------------------------------------------------------
(* The steps of process.                                                   *)

WorkState == [at : WorkAt, m : Metric \cup {None}, pred : Nat,
              outlier : BOOLEAN, normVec : Metric \cup {NilVec}]

(* What process does after it received: worker w comes to its next place   *)
(* with its metric, or lets go of it.                                      *)
Moves(w) ==
  /\ work' \in [Worker -> WorkState]
  /\ \A v \in Worker : v # w => work'[v] = work[v]
  /\ work'[w] = Idle \/ (work'[w].at # "idle" /\ work'[w].m = work[w].m)
  /\ work[w].m \in Metric

LEMMA Busy ==
  ASSUME Inv, NEW w \in Worker, work[w].at # "idle"
  PROVE  /\ work[w].m \in Metric /\ work[w].m \in collected
         /\ work[w].at # "finish" => work[w].m \notin Members(data)
         /\ work[w].at \notin {"after", "finish"} => work[w].m \notin ToSet(alerts)
BY DEF Inv, WorkInv, PlaceInv, Idle

LEMMA StepMoves ==
  ASSUME Inv, NEW w \in Worker, Process(w), ~Receive(w)
  PROVE  Moves(w) /\ work[w].at # "idle"
<1> USE DEF Moves, WorkState
<1>1. work \in [Worker -> WorkState] /\ Idle \in WorkState
  BY DEF Inv, TypeOK, Idle, WorkAt
<1>2. work[w].at # "idle" => work[w].m \in Metric
  BY Busy
<1>3. CASE Lookup(w)
  <2>1. predictors[WorksFor[w]] \in Nat
    BY WorkerAssumption DEF Inv, TypeOK
  <2> QED BY <1>1, <1>2, <1>3, <2>1, ZenonT(60) DEF Lookup, WorkAt
<1>4. CASE Create(w)
  <2>1. Len(data') \in Nat
    BY <1>4, DatasetAdded DEF Create, Inv, PlaceInv
  <2> QED BY <1>1, <1>2, <1>4, <2>1 DEF Create, WorkAt
<1>5. CASE Check(w)
  BY <1>1, <1>2, <1>5 DEF Check, Goto, WorkAt
<1>6. CASE WarmWrite(w)
  BY <1>1, <1>2, <1>6 DEF WarmWrite, Goto, WorkAt
<1>7. CASE WarmAppend(w)
  BY <1>1, <1>2, <1>7 DEF WarmAppend, Finished, WorkAt
<1>8. CASE WriteNew(w)
  BY <1>1, <1>2, <1>8 DEF WriteNew, Goto, WorkAt
<1>9. CASE Judge(w)
  <2>1. PICK verdict \in {"outlier", "normal", "error"} :
          work' = [work EXCEPT ![w].at = verdict,
                               ![w].outlier = (verdict = "outlier")]
    BY <1>9 DEF Judge
  <2>2. verdict \in WorkAt /\ verdict # "idle" /\ (verdict = "outlier") \in BOOLEAN
    BY DEF WorkAt
  <2>3. work[w].at # "idle"
    BY <1>9 DEF Judge
  <2> QED BY <1>1, <1>2, <2>1, <2>2, <2>3
<1>10. CASE JudgeFailed(w)
  BY <1>1, <1>2, <1>10 DEF JudgeFailed, DeleteRow, Finished, WorkAt
<1>11. CASE Alert(w)
  <2>1. normVectors[WorksFor[w]] \in Metric \cup {NilVec, None}
    BY WorkerAssumption DEF Inv, TypeOK
  <2> QED BY <1>1, <1>2, <1>11, <2>1, ZenonT(60) DEF Alert, WorkAt
<1>12. CASE SetNormVector(w)
  BY <1>1, <1>2, <1>12 DEF SetNormVector, Goto, WorkAt
<1>13. CASE Forget(w)
  BY <1>1, <1>2, <1>13 DEF Forget, DeleteRow, Finished, WorkAt
<1>14. CASE Keep(w)
  BY <1>1, <1>2, <1>14 DEF Keep, Goto, WorkAt
<1>15. CASE WriteProcessed(w)
  BY <1>1, <1>2, <1>15 DEF WriteProcessed, Finished, WorkAt
<1> QED BY <1>3, <1>4, <1>5, <1>6, <1>7, <1>8, <1>9, <1>10, <1>11, <1>12,
           <1>13, <1>14, <1>15 DEF Process

LEMMA MovesPlace ==
  ASSUME Inv, NEW w \in Worker, Moves(w),
         UNCHANGED <<collected, queue>>,
         Proper(data'), IsInjective(alerts'),
         \A m \in Members(data') : m \in Members(data) \/ m = work[w].m,
         \A m \in ToSet(alerts') : m \in ToSet(alerts) \/ m = work[w].m,
         work[w].m \in Members(data') => work'[w] = Idle \/ work'[w].at = "finish",
         work[w].m \in ToSet(alerts') => work'[w] = Idle \/ work'[w].at \in {"after", "finish"}
  PROVE  PlaceInv'
<1> HIDE DEF Members
<1>1. /\ work[w].m \in Metric /\ work[w].m \in collected
      /\ \A v \in Worker : work[v].m = work[w].m => v = w
  BY DEF Inv, PlaceInv, Moves
<1>2. Idle.m = None
  BY DEF Idle
<1>3. \A v \in Worker : work'[v].m = work[v].m \/ (v = w /\ work'[v].m = None)
  BY <1>2 DEF Moves
<1>4. ASSUME NEW e \in Entity, NEW m \in ToSet(queue'[e])
      PROVE  /\ EntityOf[m] = e
             /\ m \in collected'
             /\ m \notin Members(data') \cup ToSet(alerts')
             /\ \A v \in Worker : work'[v].m # m
  <2>1. /\ EntityOf[m] = e
        /\ m \in collected /\ m \in Metric
        /\ m \notin Members(data) \cup ToSet(alerts)
        /\ \A v \in Worker : work[v].m # m
    BY <1>4 DEF Inv, PlaceInv, TypeOK
  <2> QED BY <1>3, <2>1, WorkerAssumption
<1>5. ASSUME NEW v \in Worker, work'[v].m \in Metric
      PROVE  /\ work'[v].m \in collected'
             /\ work'[v].at # "finish" => work'[v].m \notin Members(data')
             /\ work'[v].at \notin {"after", "finish"} => work'[v].m \notin ToSet(alerts')
             /\ \A u \in Worker : work'[u].m = work'[v].m => u = v
  <2>1. work'[v].m = work[v].m
    BY <1>3, <1>5, WorkerAssumption
  <2>2. \A u \in Worker : work'[u].m = work'[v].m => work[u].m = work[v].m
    BY <1>3, <1>5, <2>1, WorkerAssumption
  <2>3. /\ work[v].m \in collected
        /\ work[v].at # "finish" => work[v].m \notin Members(data)
        /\ work[v].at \notin {"after", "finish"} => work[v].m \notin ToSet(alerts)
        /\ \A u \in Worker : work[u].m = work[v].m => u = v
    BY <1>5, <2>1 DEF Inv, PlaceInv
  <2>4. CASE v = w
    <3>1. work'[w] # Idle
      BY <1>2, <1>5, <2>4, WorkerAssumption
    <3> QED BY <2>1, <2>2, <2>3, <2>4, <3>1
  <2>5. CASE v # w
    <3>1. work'[v] = work[v] /\ work[v].m # work[w].m
      BY <1>1, <2>5 DEF Moves
    <3> QED BY <2>2, <2>3, <3>1
  <2> QED BY <2>4, <2>5
<1>6. Members(data') \cup ToSet(alerts') \subseteq collected'
  BY <1>1 DEF Inv, PlaceInv
<1>7. \A e \in Entity : IsInjective(queue'[e])
  BY DEF Inv, PlaceInv
<1> QED BY <1>4, <1>5, <1>6, <1>7, Zenon DEF PlaceInv

LEMMA ReceiveFacts ==
  ASSUME Inv, NEW w \in Worker, Receive(w)
  PROVE  /\ queue' \in [Entity -> Seq(Metric)]
         /\ work' \in [Worker -> WorkState]
         /\ \A v \in Worker : v # w => work'[v] = work[v]
         /\ work'[w].at = "lookup" /\ work'[w].m \in ToSet(queue[WorksFor[w]])
         /\ work'[w].m \in Metric
         /\ work'[w].m \notin ToSet(queue'[WorksFor[w]])
         /\ \A e \in Entity : /\ ToSet(queue'[e]) \subseteq ToSet(queue[e])
                               /\ IsInjective(queue'[e])
<1> DEFINE e == WorksFor[w]
<1>1. /\ e \in Entity /\ queue \in [Entity -> Seq(Metric)]
      /\ work \in [Worker -> WorkState]
  BY WorkerAssumption DEF Inv, TypeOK, WorkState
<1>2. /\ Head(queue[e]) \in Metric /\ Head(queue[e]) \in ToSet(queue[e])
      /\ Tail(queue[e]) \in Seq(Metric)
      /\ ToSet(Tail(queue[e])) \subseteq ToSet(queue[e])
      /\ IsInjective(Tail(queue[e]))
      /\ Head(queue[e]) \notin ToSet(Tail(queue[e]))
  BY <1>1, TailFacts DEF Receive, Inv, PlaceInv
<1>3. /\ queue' = [queue EXCEPT ![e] = Tail(@)]
      /\ work' = [work EXCEPT ![w].at = "lookup", ![w].m = Head(queue[e])]
  BY DEF Receive
<1>4. \A f \in Entity : /\ queue'[f] \in Seq(Metric)
                        /\ ToSet(queue'[f]) \subseteq ToSet(queue[f])
                        /\ IsInjective(queue'[f])
  BY <1>1, <1>2, <1>3 DEF Inv, PlaceInv
<1>5. work' \in [Worker -> WorkState] /\ work'[w].at = "lookup"
      /\ work'[w].m = Head(queue[e]) /\ \A v \in Worker : v # w => work'[v] = work[v]
  BY <1>1, <1>2, <1>3, ZenonT(60) DEF WorkState, WorkAt
<1>6. queue' \in [Entity -> Seq(Metric)] /\ queue'[e] = Tail(queue[e])
  BY <1>1, <1>2, <1>3
<1> QED BY <1>2, <1>4, <1>5, <1>6

LEMMA ReceivePlace ==
  ASSUME Inv, NEW w \in Worker, Receive(w)
  PROVE  PlaceInv'
<1> DEFINE e == WorksFor[w]  n == work'[w].m
<1> HIDE DEF Members
<1>1. UNCHANGED <<data, alerts, collected>> /\ e \in Entity
  BY WorkerAssumption DEF Receive
<1>2. /\ EntityOf[n] = e /\ n \in collected /\ n \notin Members(data) \cup ToSet(alerts)
      /\ \A v \in Worker : work[v].m # n
      /\ n \in Metric /\ n \notin ToSet(queue'[e]) /\ work'[w].at = "lookup"
      /\ \A v \in Worker : v # w => work'[v] = work[v]
  BY <1>1, ReceiveFacts DEF Inv, PlaceInv
<1>3. ASSUME NEW f \in Entity, NEW m \in ToSet(queue'[f])
      PROVE  /\ EntityOf[m] = f /\ m \in collected'
             /\ m \notin Members(data') \cup ToSet(alerts')
             /\ \A v \in Worker : work'[v].m # m
  <2>1. /\ EntityOf[m] = f /\ m \in collected
        /\ m \notin Members(data) \cup ToSet(alerts)
        /\ \A v \in Worker : work[v].m # m
    BY <1>3, ReceiveFacts DEF Inv, PlaceInv
  <2>2. m # n
    BY <1>2, <1>3, <2>1
  <2> QED BY <1>1, <1>2, <2>1, <2>2
<1>4. ASSUME NEW v \in Worker, work'[v].m \in Metric
      PROVE  /\ work'[v].m \in collected'
             /\ work'[v].at # "finish" => work'[v].m \notin Members(data')
             /\ work'[v].at \notin {"after", "finish"} => work'[v].m \notin ToSet(alerts')
             /\ \A u \in Worker : work'[u].m = work'[v].m => u = v
  <2>1. CASE v = w
    BY <1>1, <1>2, <2>1
  <2>2. CASE v # w
    BY <1>1, <1>2, <1>4, <2>2 DEF Inv, PlaceInv
  <2> QED BY <2>1, <2>2
<1>5. /\ Proper(data') /\ IsInjective(alerts')
      /\ Members(data') \cup ToSet(alerts') \subseteq collected'
  BY <1>1 DEF Inv, PlaceInv
<1>6. \A f \in Entity : IsInjective(queue'[f])
  BY ReceiveFacts
<1> QED BY <1>3, <1>4, <1>5, <1>6, Zenon DEF PlaceInv

LEMMA ProcessPlace ==
  ASSUME Inv, NEW w \in Worker, Process(w)
  PROVE  PlaceInv'
<1> HIDE DEF Members
<1>1. CASE Receive(w)
  BY <1>1, ReceivePlace
<1> SUFFICES ASSUME ~Receive(w) PROVE PlaceInv'
  BY <1>1
<1>2. /\ Moves(w) /\ work[w].m \in Metric
      /\ work[w].at # "finish" => work[w].m \notin Members(data)
      /\ work[w].at \notin {"after", "finish"} => work[w].m \notin ToSet(alerts)
  BY StepMoves, Busy
<1>3. Proper(data) /\ IsInjective(alerts) /\ alerts \in Seq(Metric) /\ w \in DOMAIN work
  BY DEF Inv, PlaceInv, TypeOK
<1>4. CASE /\ UNCHANGED <<collected, queue, data, alerts>>
           /\ work[w].at \notin {"after", "finish"}
  <2>1. work[w].m \notin Members(data') /\ work[w].m \notin ToSet(alerts')
    BY <1>2, <1>4
  <2> QED BY <1>2, <1>3, <1>4, <2>1, MovesPlace
<1>5. CASE /\ UNCHANGED <<collected, queue, data, alerts>>
           /\ Finished(w)
  <2>1. work'[w] = Idle
    BY <1>3, <1>5 DEF Finished
  <2> QED BY <1>2, <1>3, <1>5, <2>1, MovesPlace
<1>6. CASE Create(w)
  <2>1. Proper(data') /\ Members(data') = Members(data) /\ UNCHANGED <<collected, queue, alerts>>
    BY <1>3, <1>6, DatasetAdded DEF Create
  <2>2. work[w].at = "create"
    BY <1>6 DEF Create
  <2> QED BY <1>2, <1>3, <2>1, <2>2, MovesPlace
<1>7. ASSUME AppendData(w), work[w].at # "finish"
      PROVE  Proper(data') /\ Members(data') \subseteq Members(data) \cup {work[w].m}
  BY <1>2, <1>3, <1>7, DatasetGrows
<1>8. CASE WarmAppend(w)
  <2>1. /\ Proper(data') /\ \A m \in Members(data') : m \in Members(data) \/ m = work[w].m
        /\ UNCHANGED <<collected, queue, alerts>>
    BY <1>7, <1>8 DEF WarmAppend
  <2>2. work'[w] = Idle
    BY <1>3, <1>8 DEF WarmAppend, Finished
  <2> QED BY <1>2, <1>3, <2>1, <2>2, MovesPlace
<1>9. CASE Keep(w)
  <2>1. work[w].at = "after" /\ UNCHANGED <<collected, queue, alerts>>
    BY <1>9 DEF Keep
  <2>2. Proper(data') /\ \A m \in Members(data') : m \in Members(data) \/ m = work[w].m
    BY <1>3, <1>7, <1>9, <2>1 DEF Keep
  <2>3. work'[w].at = "finish"
    BY <1>3, <1>9 DEF Keep, Goto, Inv, TypeOK
  <2> QED BY <1>2, <1>3, <2>1, <2>2, <2>3, MovesPlace
<1>10. CASE Alert(w)
  <2>1. /\ alerts' = Append(alerts, work[w].m) /\ work[w].at = "outlier"
        /\ UNCHANGED <<collected, queue, data>>
    BY <1>10 DEF Alert
  <2>2. IsInjective(alerts') /\ ToSet(alerts') = ToSet(alerts) \cup {work[w].m}
    BY <1>2, <1>3, <2>1, AppendFacts
  <2>3. work'[w].at = "after" /\ work[w].m \notin Members(data')
    BY <1>2, <1>3, <1>10, <2>1 DEF Alert, Inv, TypeOK
  <2> QED BY <1>2, <1>3, <2>1, <2>2, <2>3, MovesPlace
<1>11. Lookup(w) \/ Check(w) \/ WarmWrite(w) \/ WriteNew(w) \/ Judge(w) \/ SetNormVector(w)
         => /\ UNCHANGED <<collected, queue, data, alerts>>
            /\ work[w].at \notin {"after", "finish"}
  BY DEF Lookup, Check, WarmWrite, WriteNew, WriteRow, Judge, SetNormVector
<1>12. JudgeFailed(w) \/ Forget(w) \/ WriteProcessed(w)
         => UNCHANGED <<collected, queue, data, alerts>> /\ Finished(w)
  BY DEF JudgeFailed, Forget, DeleteRow, WriteProcessed, WriteRow
<1> QED BY <1>4, <1>5, <1>6, <1>8, <1>9, <1>10, <1>11, <1>12 DEF Process

-----------------------------------------------------------------------------
(* Every step keeps the invariant.                                         *)

LEMMA CollectPlace ==
  ASSUME Inv, NEW m \in Metric, Collect(m)
  PROVE  PlaceInv'
<1> HIDE DEF Members
<1>1. UNCHANGED <<work, data, alerts>> /\ collected' = collected \cup {m} /\ m \notin collected
  BY DEF Collect
<1>2. queue \in [Entity -> Seq(Metric)] /\ EntityOf[m] \in Entity
  BY DEF Inv, TypeOK, Entity
<1>3. ASSUME NEW e \in Entity
      PROVE  /\ IsInjective(queue'[e])
             /\ \A n \in ToSet(queue'[e]) : n \in ToSet(queue[e]) \/ (n = m /\ e = EntityOf[m])
  <2>1. CASE e = EntityOf[m]
    <3>1. queue'[e] = Append(queue[e], m) /\ queue[e] \in Seq(Metric)
      BY <1>2, <2>1 DEF Collect
    <3>2. m \notin ToSet(queue[e]) /\ IsInjective(queue[e])
      BY <1>1 DEF Inv, PlaceInv
    <3> QED BY <2>1, <3>1, <3>2, AppendFacts
  <2>2. CASE e # EntityOf[m]
    <3>1. queue'[e] = queue[e]
      BY <1>2, <2>2 DEF Collect
    <3> QED BY <3>1 DEF Inv, PlaceInv
  <2> QED BY <2>1, <2>2
<1>4. /\ m \notin Members(data) \cup ToSet(alerts)
      /\ \A w \in Worker : work[w].m # m
  BY <1>1 DEF Inv, PlaceInv
<1>5. ASSUME NEW e \in Entity, NEW n \in ToSet(queue'[e])
      PROVE  /\ EntityOf[n] = e /\ n \in collected'
             /\ n \notin Members(data') \cup ToSet(alerts')
             /\ \A w \in Worker : work'[w].m # n
  BY <1>1, <1>3, <1>4, <1>5 DEF Inv, PlaceInv
<1>6. \A w \in Worker : work'[w].m \in Metric =>
        /\ work'[w].m \in collected'
        /\ work'[w].at # "finish" => work'[w].m \notin Members(data')
        /\ work'[w].at \notin {"after", "finish"} => work'[w].m \notin ToSet(alerts')
        /\ \A v \in Worker : work'[v].m = work'[w].m => v = w
  BY <1>1 DEF Inv, PlaceInv
<1>7. /\ Proper(data') /\ IsInjective(alerts')
      /\ Members(data') \cup ToSet(alerts') \subseteq collected'
  BY <1>1 DEF Inv, PlaceInv
<1> QED BY <1>3, <1>5, <1>6, <1>7, Zenon DEF PlaceInv

LEMMA PlaceSame ==
  ASSUME Inv, UNCHANGED <<collected, queue, work, alerts>>,
         Proper(data'), Members(data') = Members(data)
  PROVE  PlaceInv'
<1> HIDE DEF Members
<1>1. \A e \in Entity : \A m \in ToSet(queue'[e]) :
        /\ EntityOf[m] = e
        /\ m \in collected'
        /\ m \notin Members(data') \cup ToSet(alerts')
        /\ \A w \in Worker : work'[w].m # m
  BY DEF Inv, PlaceInv
<1>2. \A w \in Worker : work'[w].m \in Metric =>
        /\ work'[w].m \in collected'
        /\ work'[w].at # "finish" => work'[w].m \notin Members(data')
        /\ work'[w].at \notin {"after", "finish"} => work'[w].m \notin ToSet(alerts')
        /\ \A v \in Worker : work'[v].m = work'[w].m => v = w
  BY DEF Inv, PlaceInv
<1>3. /\ IsInjective(alerts') /\ \A e \in Entity : IsInjective(queue'[e])
      /\ Members(data') \cup ToSet(alerts') \subseteq collected'
  BY DEF Inv, PlaceInv
<1> QED BY <1>1, <1>2, <1>3, Zenon DEF PlaceInv

LEMMA CrashPlace == Inv /\ Crash => PlaceInv'
<1>1. Inv /\ Crash => Loads'
  BY DEF Inv, RowsInv, Crash, Loads
<1>2. Loads' => PlaceInv'
  BY LoadInv, PTL
<1> QED BY <1>1, <1>2

LEMMA StepPlace == Inv /\ [Next]_vars => PlaceInv'
<1> SUFFICES ASSUME Inv, [Next]_vars PROVE PlaceInv'
  OBVIOUS
<1>1. ASSUME NEW e \in Entity, Predict(e) PROVE PlaceInv'
  <2>1. /\ UNCHANGED <<collected, queue, work, alerts>>
        /\ Proper(data') /\ Members(data') = Members(data)
    BY <1>1, DatasetAdded DEF Predict, Inv, PlaceInv
  <2> QED BY <2>1, PlaceSame
<1>2. CASE Take \/ Flush \/ Flusher \/ Still
  <2>1. UNCHANGED <<collected, queue, work, data, alerts>>
    BY <1>2 DEF Take, Flush, Commit, Fail, Flusher, Ticking, TickCommit, Rest, Still
  <2>2. Proper(data') /\ Members(data') = Members(data)
    BY <2>1 DEF Inv, PlaceInv
  <2> QED BY <2>1, <2>2, PlaceSame
<1>3. ASSUME NEW w \in Worker, Process(w) PROVE PlaceInv'
  BY <1>3, ProcessPlace
<1>4. ASSUME NEW m \in Metric, Collect(m) PROVE PlaceInv'
  BY <1>4, CollectPlace
<1>5. CASE Crash
  BY <1>5, CrashPlace
<1> QED BY <1>1, <1>2, <1>3, <1>4, <1>5, NextCases

(* The rows: those of the log are of collected metrics, and so are those   *)
(* that a batch brings into the store.                                     *)
LEMMA Appends ==
  ASSUME Inv, Tx!TypeOK, Tx!NothingMissing, NEW b, b \in flying \/ b = ticked,
         db' = AppendMany(db, RowsOf(b)), UNCHANGED <<collected, log>>
  PROVE  RowsInv'
<1>1. RowsOf(b) \in Seq(AnyRow) /\ ToSet(RowsOf(b)) \subseteq ToSet(log)
  BY BatchRows DEF Inv
<1>2. StoreInv(db) /\ \A r \in db.rows : r.id \in collected
  BY DEF Inv, RowsInv
<1>3. /\ StoreInv(AppendMany(db, RowsOf(b)))
      /\ \A r \in AppendMany(db, RowsOf(b)).rows : r \in db.rows \/ r \in ToSet(RowsOf(b))
  BY <1>1, <1>2, StoreAppend
<1>4. \A r \in ToSet(log) : r.id \in collected
  BY DEF Inv, RowsInv
<1>5. StoreInv(db') /\ \A r \in db'.rows : r.id \in collected
  BY <1>1, <1>2, <1>3, <1>4
<1> QED BY <1>4, <1>5 DEF RowsInv

LEMMA Writes ==
  ASSUME Inv, NEW w \in Worker, work[w].at # "idle",
         NEW s \in {"new", "processed"}, WriteRow(w, s)
  PROVE  RowsInv' /\ log' \in Seq(AnyRow) /\ Len(log') = written'
<1>1. work[w].m \in Metric /\ work[w].m \in collected
  BY Busy
<1>2. /\ log' \in Seq(AnyRow) /\ Len(log') = written'
      /\ \A r \in ToSet(log') : r \in ToSet(log) \/ r.id = work[w].m
  BY <1>1, LogGrows DEF Inv
<1>3. UNCHANGED <<db, collected>>
  BY DEF WriteRow
<1> QED BY <1>1, <1>2, <1>3 DEF Inv, RowsInv

LEMMA Deletes ==
  ASSUME Inv, NEW w \in Worker, DeleteRow(w)
  PROVE  RowsInv'
<1>1. StoreInv(db') /\ db'.rows \subseteq db.rows
  BY StoreDelete DEF DeleteRow, Inv, RowsInv
<1>2. UNCHANGED <<log, collected>>
  BY DEF DeleteRow
<1> QED BY <1>1, <1>2 DEF Inv, RowsInv

LEMMA StepRows == Inv /\ Tx!TypeOK /\ Tx!NothingMissing /\ [Next]_vars => RowsInv'
<1> SUFFICES ASSUME Inv, Tx!TypeOK, Tx!NothingMissing, [Next]_vars
             PROVE  RowsInv'
  OBVIOUS
<1>1. CASE UNCHANGED <<db, log>> /\ collected \subseteq collected'
  BY <1>1 DEF Inv, RowsInv
<1>2. ASSUME NEW w \in Worker, Process(w) PROVE RowsInv'
  <2>1. CASE WarmWrite(w) \/ WriteNew(w) \/ WriteProcessed(w)
    BY <2>1, Writes DEF WarmWrite, WriteNew, WriteProcessed
  <2>2. CASE JudgeFailed(w) \/ Forget(w)
    BY <2>2, Deletes DEF JudgeFailed, Forget
  <2>3. CASE Receive(w) \/ Lookup(w) \/ Create(w) \/ Check(w) \/ WarmAppend(w)
               \/ Judge(w) \/ Alert(w) \/ SetNormVector(w) \/ Keep(w)
    <3>1. UNCHANGED <<db, log, collected>>
      BY <2>3 DEF Receive, Lookup, Create, Check, WarmAppend, Judge, Alert,
                  SetNormVector, Keep
    <3> QED BY <1>1, <3>1
  <2> QED BY <1>2, <2>1, <2>2, <2>3 DEF Process
<1>3. ASSUME NEW b \in flying, Commit(b) PROVE RowsInv'
  BY <1>3, Appends DEF Commit, Rest
<1>4. CASE TickCommit
  BY <1>4, Appends DEF TickCommit, Rest
<1>5. CASE Take \/ (\E b \in flying : Fail(b)) \/ Ticking \/ Crash \/ Still
  <2>1. UNCHANGED <<db, log, collected>>
    BY <1>5 DEF Take, Fail, Ticking, Crash, Rest, Still
  <2> QED BY <1>1, <2>1
<1>6. ASSUME (\E m \in Metric : Collect(m)) \/ \E e \in Entity : Predict(e)
      PROVE  RowsInv'
  <2>1. UNCHANGED <<db, log>> /\ collected \subseteq collected'
    BY <1>6 DEF Collect, Predict
  <2> QED BY <1>1, <2>1
<1> QED BY <1>2, <1>3, <1>4, <1>5, <1>6, NextCases DEF Flush, Flusher

(* Types of what a step of process changes besides work, the log and the   *)
(* store.                                                                  *)
LEMMA ProcessTypes ==
  ASSUME Inv, PlaceInv', NEW w \in Worker, Process(w)
  PROVE  /\ collected' = collected /\ crashes' = crashes
         /\ queue' \in [Entity -> Seq(Metric)]
         /\ predictors' \in [Entity -> Nat]
         /\ \A e \in Entity : predictors'[e] <= Len(data')
         /\ normVectors' \in [Entity -> Metric \cup {NilVec, None}]
         /\ alerts' \in Seq(Metric)
         /\ judged' \in [Metric -> {None, "outlier", "normal", "error"}]
<1>1. /\ queue \in [Entity -> Seq(Metric)]
      /\ predictors \in [Entity -> Nat]
      /\ \A e \in Entity : predictors[e] <= Len(data)
      /\ normVectors \in [Entity -> Metric \cup {NilVec, None}]
      /\ alerts \in Seq(Metric)
      /\ judged \in [Metric -> {None, "outlier", "normal", "error"}]
      /\ work \in [Worker -> WorkState]
      /\ Len(data) \in Nat /\ Proper(data)
  BY DEF Inv, TypeOK, WorkState, PlaceInv
<1>2. collected' = collected /\ crashes' = crashes
  BY DEF Process, Receive, Lookup, Create, Check, WarmWrite, WriteNew,
         WriteProcessed, WriteRow, WarmAppend, Judge, JudgeFailed, DeleteRow,
         Alert, SetNormVector, Forget, Keep
<1>3. queue' \in [Entity -> Seq(Metric)]
  <2>1. CASE Receive(w)
    BY <2>1, ReceiveFacts
  <2>2. CASE ~Receive(w)
    <3>1. queue' = queue
      BY <2>2 DEF Process, Lookup, Create, Check, WarmWrite, WriteNew,
         WriteProcessed, WriteRow, WarmAppend, Judge, JudgeFailed, DeleteRow,
         Alert, SetNormVector, Forget, Keep
    <3> QED BY <1>1, <3>1
  <2> QED BY <2>1, <2>2
<1>4. predictors' \in [Entity -> Nat] /\ \A e \in Entity : predictors'[e] <= Len(data')
  <2>1. CASE Create(w)
    <3>1. Len(data') = Len(data) + 1
      BY <1>1, <2>1, DatasetAdded DEF Create
    <3>2. predictors' = [predictors EXCEPT ![WorksFor[w]] = Len(data')]
      BY <2>1 DEF Create
    <3>3. Len(data') \in Nat /\ Len(data) <= Len(data')
      BY <1>1, <3>1
    <3>4. predictors' \in [Entity -> Nat]
      BY <1>1, <3>2, <3>3
    <3>5. ASSUME NEW e \in Entity PROVE predictors'[e] <= Len(data')
      <4>1. predictors'[e] = IF e = WorksFor[w] THEN Len(data') ELSE predictors[e]
        BY <1>1, <3>2
      <4>2. predictors[e] \in Nat /\ predictors[e] <= Len(data)
        BY <1>1
      <4> QED BY <1>1, <3>3, <4>1, <4>2
    <3> QED BY <3>4, <3>5
  <2>2. ASSUME UNCHANGED predictors, AppendData(w) \/ UNCHANGED data
        PROVE  predictors' \in [Entity -> Nat] /\ \A e \in Entity : predictors'[e] <= Len(data')
    <3>1. Proper(data') /\ DOMAIN data' = DOMAIN data
      BY <2>2 DEF AppendData, PlaceInv
    <3>2. /\ DOMAIN data = 1 .. Len(data) /\ DOMAIN data' = 1 .. Len(data')
          /\ Len(data') \in Nat
      BY <1>1, <3>1 DEF Proper
    <3>3. Len(data') = Len(data)
      BY <1>1, <3>1, <3>2
    <3> QED BY <1>1, <2>2, <3>3
  <2>3. CASE ~Create(w)
    <3>1. predictors' = predictors
      BY <2>3 DEF Process, Receive, Lookup, Check, WarmWrite, WriteNew,
         WriteProcessed, WriteRow, WarmAppend, Judge, JudgeFailed, DeleteRow,
         Alert, SetNormVector, Forget, Keep
    <3>2. AppendData(w) \/ UNCHANGED data
      BY <2>3 DEF Process, Receive, Lookup, Check, WarmWrite, WriteNew,
         WriteProcessed, WriteRow, WarmAppend, Judge, JudgeFailed, DeleteRow,
         Alert, SetNormVector, Forget, Keep
    <3> QED BY <2>2, <3>1, <3>2
  <2> QED BY <2>1, <2>3
<1>5. normVectors' \in [Entity -> Metric \cup {NilVec, None}]
  <2>1. CASE SetNormVector(w)
    <3>1. work[w].normVec \in Metric \cup {NilVec}
      BY <1>1 DEF WorkState
    <3> QED BY <1>1, <2>1, <3>1 DEF SetNormVector
  <2>2. CASE ~SetNormVector(w)
    <3>1. normVectors' = normVectors
      BY <2>2 DEF Process, Receive, Lookup, Create, Check, WarmWrite, WriteNew,
         WriteProcessed, WriteRow, WarmAppend, Judge, JudgeFailed, DeleteRow,
         Alert, Forget, Keep
    <3> QED BY <1>1, <3>1
  <2> QED BY <2>1, <2>2
<1>6. alerts' \in Seq(Metric)
  <2>1. CASE Alert(w)
    <3>1. work[w].m \in Metric
      BY <2>1, Busy DEF Alert
    <3> QED BY <1>1, <2>1, <3>1 DEF Alert
  <2>2. CASE ~Alert(w)
    <3>1. alerts' = alerts
      BY <2>2 DEF Process, Receive, Lookup, Create, Check, WarmWrite, WriteNew,
         WriteProcessed, WriteRow, WarmAppend, Judge, JudgeFailed, DeleteRow,
         SetNormVector, Forget, Keep
    <3> QED BY <1>1, <3>1
  <2> QED BY <2>1, <2>2
<1>7. judged' \in [Metric -> {None, "outlier", "normal", "error"}]
  <2>1. CASE Judge(w)
    BY <1>1, <2>1 DEF Judge
  <2>2. CASE ~Judge(w)
    <3>1. judged' = judged
      BY <2>2 DEF Process, Receive, Lookup, Create, Check, WarmWrite, WriteNew,
         WriteProcessed, WriteRow, WarmAppend, JudgeFailed, DeleteRow, Alert,
         SetNormVector, Forget, Keep
    <3> QED BY <1>1, <3>1
  <2> QED BY <2>1, <2>2
<1> QED BY <1>2, <1>3, <1>4, <1>5, <1>6, <1>7

LEMMA ProcessWork ==
  ASSUME Inv, NEW w \in Worker, Process(w)
  PROVE  work' \in [Worker -> WorkState] /\ WorkInv'
<1>1. CASE Receive(w)
  BY <1>1, ReceiveFacts DEF Inv, WorkInv
<1>2. CASE ~Receive(w)
  BY <1>2, StepMoves DEF Inv, WorkInv, Moves
<1> QED BY <1>1, <1>2

LEMMA ProcessLog ==
  ASSUME Inv, NEW w \in Worker, Process(w)
  PROVE  log' \in Seq(AnyRow) /\ Len(log') = written'
<1>1. CASE WarmWrite(w) \/ WriteNew(w) \/ WriteProcessed(w)
  BY <1>1, Writes DEF WarmWrite, WriteNew, WriteProcessed
<1>2. CASE ~(WarmWrite(w) \/ WriteNew(w) \/ WriteProcessed(w))
  <2>1. UNCHANGED <<log, written>>
    BY <1>2 DEF Process, Receive, Lookup, Create, Check, WarmAppend, Judge,
         JudgeFailed, DeleteRow, Alert, SetNormVector, Forget, Keep, txVars
  <2> QED BY <2>1 DEF Inv, TypeOK
<1> QED BY <1>1, <1>2

LEMMA StepLeaked == Inv /\ [Next]_vars => leaked' \subseteq Nat
<1> SUFFICES ASSUME Inv, [Next]_vars PROVE leaked' \subseteq Nat
  OBVIOUS
<1>1. leaked \subseteq Nat /\ DOMAIN data \subseteq Nat
  BY DEF Inv, TypeOK
<1>2. ASSUME NEW w \in Worker, Process(w) PROVE leaked' \subseteq Nat
  <2>1. leaked' \subseteq leaked \cup {work[w].pred}
    BY <1>2 DEF Process, Receive, Lookup, Create, Check, WarmWrite, WriteNew,
         WriteProcessed, WriteRow, WarmAppend, Judge, JudgeFailed, DeleteRow,
         Alert, SetNormVector, Forget, Keep
  <2>2. work[w].pred \in Nat
    BY DEF Inv, TypeOK
  <2> QED BY <1>1, <2>1, <2>2
<1>3. ASSUME NEW p \in DOMAIN data, PredictFails(p) PROVE leaked' \subseteq Nat
  BY <1>1, <1>3 DEF PredictFails
<1>4. (\E m \in Metric : Collect(m)) \/ (\E e \in Entity : Predict(e)) \/ UNCHANGED vars
        => leaked' = leaked
  BY DEF Collect, Predict, vars
<1>5. Take \/ Flush \/ Flusher => leaked' = leaked
  BY DEF Take, Flush, Commit, Fail, Flusher, Ticking, TickCommit, Rest
<1>6. Crash => leaked' = {}
  BY DEF Crash
<1> QED BY <1>1, <1>2, <1>3, <1>4, <1>5, <1>6 DEF Next

LEMMA StepTypes ==
  Inv /\ PlaceInv' /\ RowsInv' /\ [Next]_vars => TypeOK' /\ WorkInv'
<1> SUFFICES ASSUME Inv, PlaceInv', RowsInv', [Next]_vars
             PROVE  TypeOK' /\ WorkInv'
  OBVIOUS
<1>1. db' \in [rows : SUBSET AnyRow, keys : SUBSET Entity] /\ data' \in Seq(Seq(Metric))
  BY DEF RowsInv, StoreInv, PlaceInv, Proper
<1>2. leaked' \subseteq Nat
  BY StepLeaked
<1>3. ASSUME NEW w \in Worker, Process(w) PROVE TypeOK' /\ WorkInv'
  <2>1. collected \subseteq Metric /\ crashes \in 0 .. MaxCrashes
    BY DEF Inv, TypeOK
  <2> QED BY <1>1, <1>2, <1>3, <2>1, ProcessTypes, ProcessWork, ProcessLog DEF TypeOK, WorkState
<1>4. ASSUME NEW m \in Metric, Collect(m) PROVE TypeOK' /\ WorkInv'
  <2>1. /\ collected' = collected \cup {m}
        /\ queue' = [queue EXCEPT ![EntityOf[m]] = Append(@, m)]
        /\ UNCHANGED <<work, predictors, data, normVectors, alerts, judged, log, db, crashes, written>>
    BY <1>4 DEF Collect, txVars
  <2>2. queue' \in [Entity -> Seq(Metric)]
    <3>1. queue \in [Entity -> Seq(Metric)] /\ EntityOf[m] \in Entity
      BY DEF Inv, TypeOK, Entity
    <3>2. Append(queue[EntityOf[m]], m) \in Seq(Metric)
      BY <3>1
    <3> QED BY <2>1, <3>1, <3>2
  <2> QED BY <1>2, <2>1, <2>2 DEF Inv, TypeOK, WorkInv
<1>5. ASSUME NEW e \in Entity, Predict(e) PROVE TypeOK' /\ WorkInv'
  <2>1. /\ data' = Append(data, <<>>)
        /\ predictors' = [predictors EXCEPT ![e] = Len(data')]
        /\ UNCHANGED <<collected, queue, work, normVectors, alerts, judged, log, db, crashes, written>>
    BY <1>5 DEF Predict, txVars
  <2>2. Len(data') = Len(data) + 1 /\ Len(data) \in Nat
    BY <2>1, DatasetAdded DEF Inv, PlaceInv
  <2>3. predictors' \in [Entity -> Nat] /\ \A f \in Entity : predictors'[f] <= Len(data')
    BY <2>1, <2>2 DEF Inv, TypeOK
  <2> QED BY <1>1, <1>2, <2>1, <2>3 DEF Inv, TypeOK, WorkInv
<1>6. CASE Take \/ Flush \/ Flusher \/ Still
  <2>1. UNCHANGED <<collected, queue, work, predictors, data, normVectors, alerts, judged, log, crashes, written>>
    BY <1>6 DEF Take, Flush, Commit, Fail, Flusher, Ticking, TickCommit, Rest,
                Still, txVars, Tx!Take, Tx!Commit, Tx!Fail, Tx!Tick, Tx!TickTake,
                Tx!TickCommit, Tx!TickFail
  <2> QED BY <1>1, <1>2, <2>1 DEF Inv, TypeOK, WorkInv
<1>7. CASE Crash
  <2>1. /\ crashes' \in 0 .. MaxCrashes
        /\ alerts' \in Seq(Metric)
        /\ normVectors' \in [Entity -> Metric \cup {NilVec, None}]
    BY <1>7, ConfigAssumption DEF Crash, Inv, TypeOK
  <2>2. work' \in [Worker -> WorkState] /\ WorkInv'
    BY <1>7 DEF Crash, WorkState, WorkInv, Idle, WorkAt
  <2>3. /\ queue' \in [Entity -> Seq(Metric)]
        /\ predictors' \in [Entity -> Nat]
        /\ \A e \in Entity : predictors'[e] <= Len(data')
    BY <1>7, LoadFacts DEF Crash, Inv, RowsInv
  <2>4. UNCHANGED <<collected, judged, log, written>>
    BY <1>7 DEF Crash, Tx!Crash
  <2> QED BY <1>1, <1>2, <2>1, <2>2, <2>3, <2>4 DEF Inv, TypeOK, WorkState
<1> QED BY <1>3, <1>4, <1>5, <1>6, <1>7, NextCases

LEMMA InvStep == Inv /\ Tx!TypeOK /\ Tx!NothingMissing /\ [Next]_vars => Inv'
BY StepPlace, StepRows, StepTypes DEF Inv

LEMMA InvAlways == Spec => []Inv
BY InitInv, InvStep, DispatcherAccountsForRows, PTL DEF Spec

(* All variables keep their types, through all crashes and restarts.       *)
THEOREM TypeCorrect == Spec => []TypeOK
<1>1. Inv => TypeOK
  BY DEF Inv
<1> QED BY <1>1, InvAlways, PTL

LEMMA OnceFromInv == Inv => OnceUntilStop
<1> SUFFICES ASSUME Inv PROVE OnceUntilStop
  OBVIOUS
<1>1. AppendedOnce /\ AlertedOnce
  BY DEF Inv, PlaceInv, Proper, AppendedOnce, AlertedOnce
<1>2. ASSUME NEW m \in Metric PROVE Cardinality(Held(m)) + Cardinality(Queued(m)) <= 1
  <2>1. \A v, w \in Held(m) : v = w
    BY DEF Held, Inv, PlaceInv
  <2>2. \A p, q \in Queued(m) : p = q
    <3> SUFFICES ASSUME NEW p \in Queued(m), NEW q \in Queued(m) PROVE p = q
      OBVIOUS
    <3>1. /\ p = <<p[1], p[2]>> /\ q = <<q[1], q[2]>>
          /\ p[1] \in Entity /\ q[1] \in Entity
          /\ p[2] \in DOMAIN queue[p[1]] /\ queue[p[1]][p[2]] = m
          /\ q[2] \in DOMAIN queue[q[1]] /\ queue[q[1]][q[2]] = m
      BY DEF Queued
    <3>2. m \in ToSet(queue[p[1]]) /\ m \in ToSet(queue[q[1]])
      BY <3>1, Zenon DEF ToSet
    <3>3. p[1] = EntityOf[m] /\ q[1] = EntityOf[m]
      BY <3>1, <3>2 DEF Inv, PlaceInv
    <3>4. p[2] = q[2]
      BY <3>1, <3>3 DEF Inv, PlaceInv, IsInjective
    <3> QED BY <3>1, <3>3, <3>4
  <2>3. ~(Held(m) # {} /\ Queued(m) # {})
    <3> SUFFICES ASSUME NEW w \in Held(m), NEW q \in Queued(m) PROVE FALSE
      OBVIOUS
    <3>1. q[1] \in Entity /\ q[2] \in DOMAIN queue[q[1]] /\ queue[q[1]][q[2]] = m
      BY DEF Queued
    <3>2. m \in ToSet(queue[q[1]])
      BY <3>1, Zenon DEF ToSet
    <3> QED BY <3>1, <3>2 DEF Held, Inv, PlaceInv
  <2>4. ASSUME NEW S, \A x, y \in S : x = y
        PROVE  Cardinality(S) \in {0, 1} /\ (S = {} => Cardinality(S) = 0)
    <3>1. S = {} \/ \E x : S = {x}
      BY <2>4
    <3> QED BY <3>1, FS_EmptySet, FS_Singleton
  <2>5. /\ Cardinality(Held(m)) \in {0, 1} /\ (Held(m) = {} => Cardinality(Held(m)) = 0)
        /\ Cardinality(Queued(m)) \in {0, 1} /\ (Queued(m) = {} => Cardinality(Queued(m)) = 0)
    BY <2>1, <2>2, <2>4
  <2> QED BY <2>3, <2>5
<1> QED BY <1>1, <1>2 DEF OnceUntilStop, HandledOnce

(* Each metric is handled by one worker or waits once in one queue, is     *)
(* once in a dataset and alerted once, from a start until the process dies *)
(* or is told to stop, for any metrics, entities, workers and crashes.     *)
THEOREM HandledOnceUntilStop == Spec => []OnceUntilStop
BY OnceFromInv, InvAlways, PTL

-----------------------------------------------------------------------------
(***************************************************************************)
(* From here on: the datasets of the dispatcher against the rows of its    *)
(* store, and how long a dataset warms up.                                 *)
(***************************************************************************)
-----------------------------------------------------------------------------
(* The buffer: what is on its way to the store is in the order of writing, *)
(* within a batch and against the buffer.                                  *)

(* The numbers of the rows in memory. *)
Pending == Tx!Numbers(buf) \cup Tx!InFlight

BufferInv == /\ Tx!TypeOK /\ Tx!NothingMissing /\ Tx!NothingTwice
             /\ Buffer!BatchesAscend /\ Buffer!BatchesInjective
             /\ \A n \in Tx!InFlight, k \in Tx!Numbers(buf) : n < k

LEMMA BufferAlways == Spec => []BufferInv
<1>1. Buffer!Spec => []Buffer!BatchesAscend
  BY Buffer!BatchesAreAscending, ConfigAssumption
<1>2. Buffer!Spec => [](\A n \in Buffer!InFlight, k \in Buffer!Numbers(buf) : n < k)
  BY Buffer!BufferIsAlwaysNewer, ConfigAssumption
<1>3. (\A n \in Buffer!InFlight, k \in Buffer!Numbers(buf) : n < k)
        => \A n \in Tx!InFlight, k \in Tx!Numbers(buf) : n < k
  <2>1. \A s : Buffer!Numbers(s) = Tx!Numbers(s)
    BY DEF Buffer!Numbers, Tx!Numbers
  <2> QED BY <2>1 DEF Buffer!InFlight, Tx!InFlight
<1>4. Buffer!Spec => []Buffer!BatchesInjective
  <2>1. Buffer!Spec => []Buffer!Accounted
    BY Buffer!AlwaysAccounted, ConfigAssumption
  <2>2. Buffer!Accounted => Buffer!BatchesInjective
    BY DEF Buffer!Accounted
  <2> QED BY <2>1, <2>2, PTL
<1>5. Spec => []Tx!TypeOK /\ []Tx!NothingMissing /\ []Tx!NothingTwice
  BY DispatcherAccountsForRows, PTL
<1>6. Spec => []Buffer!BatchesAscend /\ []Buffer!BatchesInjective
                /\ [](\A n \in Tx!InFlight, k \in Tx!Numbers(buf) : n < k)
  BY <1>1, <1>2, <1>3, <1>4, DispatcherUsesBuffer, SameSpec, PTL
<1> QED BY <1>5, <1>6, PTL DEF BufferInv

(* The rows in memory are rows of the log.                                 *)
LEMMA PendingRows ==
  ASSUME TypeOK, BufferInv, NEW n \in Pending
  PROVE  n \in 1 .. written /\ n \in DOMAIN log /\ log[n] \in AnyRow /\ log[n] \in ToSet(log)
<1>1. n \in 1 .. written
  BY DEF Pending, BufferInv, Tx!NothingMissing
<1>2. log \in Seq(AnyRow) /\ DOMAIN log = 1 .. Len(log) /\ Len(log) = written
  BY DEF TypeOK
<1>3. n \in DOMAIN log
  BY <1>1, <1>2
<1>4. log[n] \in AnyRow
  BY <1>2, <1>3
<1>5. log[n] \in ToSet(log)
  BY <1>3, Zenon DEF ToSet
<1> QED BY <1>1, <1>3, <1>4, <1>5

(* A row is written at the end: the rows in memory are the old ones and it.*)
LEMMA WritePending ==
  ASSUME TypeOK, BufferInv, NEW w \in Worker, NEW s, WriteRow(w, s)
  PROVE  /\ Pending' = Pending \cup {written + 1}
         /\ \A n \in Pending : log'[n] = log[n] /\ n < written + 1
         /\ log'[written + 1] = Row(work[w].m, s, work[w].outlier)
<1>1. /\ buf' = Append(buf, written + 1) /\ UNCHANGED <<flying, ticked>>
      /\ log' = Append(log, Row(work[w].m, s, work[w].outlier))
  BY DEF WriteRow, Tx!Write
<1>2. /\ buf \in Seq(Nat) /\ written \in Nat
      /\ log \in Seq(AnyRow) /\ Len(log) = written
  BY DEF BufferInv, Tx!TypeOK, TypeOK
<1>3. Tx!Numbers(buf') = Tx!Numbers(buf) \cup {written + 1}
  <2>1. \A x : Tx!Numbers(x) = ToSet(x)
    BY DEF Tx!Numbers, ToSet
  <2>2. ToSet(Append(buf, written + 1)) = ToSet(buf) \cup {written + 1}
    BY <1>2, AppendFacts
  <2> QED BY <1>1, <2>1, <2>2
<1>4. Tx!InFlight' = Tx!InFlight
  BY <1>1 DEF Tx!InFlight, Tx!Numbers
<1>5. \A n \in 1 .. written : log'[n] = log[n] /\ n < written + 1
  BY <1>1, <1>2
<1>6. log'[written + 1] = Row(work[w].m, s, work[w].outlier)
  BY <1>1, <1>2
<1> QED BY <1>3, <1>4, <1>5, <1>6, PendingRows DEF Pending

-----------------------------------------------------------------------------
(* How datasets and verdicts change between two starts.                    *)

Grows == /\ DOMAIN data \subseteq DOMAIN data'
         /\ \A i \in DOMAIN data : ToSet(data[i]) \subseteq ToSet(data'[i])
         /\ \A m \in Metric : judged[m] # None => judged'[m] # None

LEMMA DataAppended ==
  ASSUME Proper(data), NEW w \in Worker, AppendData(w), work[w].m \in Metric
  PROVE  /\ DOMAIN data' = DOMAIN data
         /\ \A i \in DOMAIN data :
              ToSet(data'[i]) = IF i = work[w].pred
                                THEN ToSet(data[i]) \cup {work[w].m}
                                ELSE ToSet(data[i])
<1>1. DOMAIN data' = DOMAIN data /\ \A i \in DOMAIN data :
        data'[i] = IF i = work[w].pred THEN Append(data[i], work[w].m) ELSE data[i]
  BY DEF AppendData
<1>2. \A i \in DOMAIN data : data[i] \in Seq(Metric)
  BY DEF Proper
<1>3. \A i \in DOMAIN data :
        ToSet(Append(data[i], work[w].m)) = ToSet(data[i]) \cup {work[w].m}
  BY <1>2, AppendFacts
<1> QED BY <1>1, <1>3

LEMMA DataAdded ==
  ASSUME Proper(data), data' = Append(data, <<>>)
  PROVE  /\ Len(data) \in Nat /\ DOMAIN data = 1 .. Len(data)
         /\ Len(data') = Len(data) + 1
         /\ DOMAIN data' = DOMAIN data \cup {Len(data')}
         /\ Len(data') \notin DOMAIN data
         /\ \A i \in DOMAIN data : data'[i] = data[i]
         /\ data'[Len(data')] = <<>>
<1>1. data \in Seq(Seq(Metric)) /\ <<>> \in Seq(Metric)
  BY DEF Proper
<1>2. /\ Len(data) \in Nat /\ DOMAIN data = 1 .. Len(data)
      /\ Len(data') = Len(data) + 1 /\ DOMAIN data' = 1 .. Len(data) + 1
      /\ \A i \in 1 .. Len(data) : data'[i] = data[i]
      /\ data'[Len(data) + 1] = <<>>
  BY <1>1
<1> QED BY <1>2

(* A step of process leaves the datasets alone, adds an empty one, or      *)
(* appends the metric in hand to the one of the worker's predictor.        *)
LEMMA ProcessData ==
  ASSUME NEW w \in Worker, Process(w)
  PROVE  \/ UNCHANGED data
         \/ Create(w) /\ data' = Append(data, <<>>)
         \/ AppendData(w) /\ (WarmAppend(w) \/ Keep(w))
BY DEF Process, Receive, Lookup, Create, Check, WarmWrite, WriteNew,
       WriteProcessed, WriteRow, WarmAppend, Judge, JudgeFailed, DeleteRow,
       Alert, SetNormVector, Forget, Keep

LEMMA ProcessJudged ==
  ASSUME Inv, NEW w \in Worker, Process(w)
  PROVE  /\ \A m \in Metric : judged[m] # None => judged'[m] # None
         /\ \A m \in Metric : m # work[w].m => judged'[m] = judged[m]
<1>1. judged \in [Metric -> {None, "outlier", "normal", "error"}]
  BY DEF Inv, TypeOK
<1>2. CASE Judge(w)
  <2>1. PICK v \in {"outlier", "normal", "error"} : judged' = [judged EXCEPT ![work[w].m] = v]
    BY <1>2 DEF Judge
  <2>2. v # None
    BY DEF None
  <2> QED BY <1>1, <2>1, <2>2
<1>3. CASE ~Judge(w)
  BY <1>3 DEF Process, Receive, Lookup, Create, Check, WarmWrite, WriteNew,
     WriteProcessed, WriteRow, WarmAppend, JudgeFailed, DeleteRow, Alert,
     SetNormVector, Forget, Keep
<1> QED BY <1>2, <1>3

(* What is not a step of process or a crash.                               *)
LEMMA OtherSteps ==
  ASSUME Inv, [Next]_vars, ~Crash, \A w \in Worker : ~Process(w)
  PROVE  /\ UNCHANGED <<work, judged, log>>
         /\ \/ UNCHANGED data
            \/ \E e \in Entity : Predict(e) /\ data' = Append(data, <<>>)
<1>1. ASSUME NEW m \in Metric, Collect(m)
      PROVE  UNCHANGED <<work, judged, log, data>>
  BY <1>1 DEF Collect
<1>2. ASSUME NEW e \in Entity, Predict(e)
      PROVE  UNCHANGED <<work, judged, log>> /\ data' = Append(data, <<>>)
  BY <1>2 DEF Predict
<1>3. CASE Take \/ Flush \/ Flusher \/ Still
  BY <1>3 DEF Take, Flush, Commit, Fail, Flusher, Ticking, TickCommit, Rest, Still
<1> QED BY <1>1, <1>2, <1>3, NextCases

LEMMA StepGrows == Inv /\ [Next]_vars /\ ~Crash => Grows
<1> SUFFICES ASSUME Inv, [Next]_vars, ~Crash PROVE Grows
  OBVIOUS
<1>1. Proper(data)
  BY DEF Inv, PlaceInv
<1>2. ASSUME NEW w \in Worker, Process(w) PROVE Grows
  <2>1. CASE AppendData(w) /\ (WarmAppend(w) \/ Keep(w))
    <3>1. work[w].m \in Metric
      BY <2>1, Busy DEF WarmAppend, Keep
    <3> QED BY <1>1, <1>2, <2>1, <3>1, DataAppended, ProcessJudged DEF Grows
  <2>2. CASE UNCHANGED data
    BY <1>2, <2>2, ProcessJudged DEF Grows
  <2>3. CASE data' = Append(data, <<>>)
    BY <1>1, <1>2, <2>3, DataAdded, ProcessJudged DEF Grows
  <2> QED BY <1>2, <2>1, <2>2, <2>3, ProcessData
<1>3. CASE \A w \in Worker : ~Process(w)
  <2>1. UNCHANGED judged /\ (UNCHANGED data \/ data' = Append(data, <<>>))
    BY <1>3, OtherSteps
  <2> QED BY <1>1, <2>1, DataAdded DEF Grows
<1> QED BY <1>2, <1>3

-----------------------------------------------------------------------------
(* A worker, its metric and its predictor.                                 *)

Hand(w) ==
  /\ work[w].m \in Metric => EntityOf[work[w].m] = WorksFor[w]
  /\ work[w].at \notin {"idle", "lookup", "create"} => work[w].pred \in DOMAIN data
  /\ work[w].at \in {"error", "outlier", "normal", "after", "finish"} =>
       judged[work[w].m] # None
  /\ work[w].at = "finish" /\ (work[w].outlier => AllowAppendOutlier) =>
       work[w].m \in Members(data)

HandInv == \A w \in Worker : Hand(w)

LEMMA IdleHand == ASSUME NEW w \in Worker, work[w] = Idle PROVE Hand(w)
BY WorkerAssumption DEF Hand, Idle

LEMMA ProcessOthers ==
  ASSUME Inv, NEW w \in Worker, Process(w)
  PROVE  \A v \in Worker : v # w => work'[v] = work[v]
BY ReceiveFacts, StepMoves DEF Moves

LEMMA HandOther ==
  ASSUME Inv, NEW w \in Worker, Hand(w), Grows, work'[w] = work[w]
  PROVE  Hand(w)'
<1>1. Members(data) \subseteq Members(data')
  BY DEF Grows, Members
<1>2. work[w].at \in {"error", "outlier", "normal", "after", "finish"} =>
        work[w].m \in Metric
  BY DEF Inv, WorkInv, Idle
<1>3. judged[work[w].m] # None /\ work[w].m \in Metric => judged'[work[w].m] # None
  BY DEF Grows
<1>4. work[w].pred \in DOMAIN data => work[w].pred \in DOMAIN data'
  BY DEF Grows
<1> HIDE DEF Members
<1> QED BY <1>1, <1>2, <1>3, <1>4 DEF Hand

(* What a step of process does to its worker's predictor, and when its     *)
(* metric is judged and in a dataset.                                      *)
LEMMA HandMoves ==
  ASSUME Inv, NEW w \in Worker, Hand(w), Process(w), ~Receive(w), Grows
  PROVE  Hand(w)'
<1>1. /\ work \in [Worker -> WorkState] /\ w \in DOMAIN work
      /\ Proper(data) /\ DOMAIN data = 1 .. Len(data) /\ Len(data) \in Nat
      /\ judged \in [Metric -> {None, "outlier", "normal", "error"}]
      /\ predictors \in [Entity -> Nat] /\ WorksFor[w] \in Entity
      /\ predictors[WorksFor[w]] <= Len(data)
  BY WorkerAssumption DEF Inv, TypeOK, PlaceInv, Proper, WorkState
<1>2. work[w].at # "idle" /\ work[w].m \in Metric
      /\ (work'[w] = Idle \/ (work'[w].at # "idle" /\ work'[w].m = work[w].m))
  BY StepMoves DEF Moves
<1>3. CASE work'[w] = Idle
  BY <1>3, WorkerAssumption DEF Hand, Idle
<1> DEFINE m == work[w].m
<1>4. EntityOf[m] = WorksFor[w]
  BY <1>2 DEF Hand
<1>5. /\ Members(data) \subseteq Members(data')
      /\ judged[m] # None => judged'[m] # None
      /\ work[w].pred \in DOMAIN data => work[w].pred \in DOMAIN data'
  BY <1>2 DEF Grows, Members
<1>6. CASE Lookup(w)
  <2>1. /\ work'[w].at = IF predictors[WorksFor[w]] = 0 THEN "create" ELSE "check"
        /\ work'[w].pred = predictors[WorksFor[w]]
        /\ work'[w].m = m /\ data' = data
    BY <1>1, <1>6, ZenonT(60) DEF Lookup, WorkState
  <2>2. predictors[WorksFor[w]] # 0 => predictors[WorksFor[w]] \in DOMAIN data
    BY <1>1
  <2> QED BY <1>4, <2>1, <2>2 DEF Hand
<1>7. CASE Create(w)
  <2>1. work'[w].at = "check" /\ work'[w].pred = Len(data') /\ work'[w].m = m
        /\ data' = Append(data, <<>>)
    BY <1>1, <1>7, ZenonT(60) DEF Create, WorkState
  <2>2. Len(data') \in DOMAIN data'
    BY <1>1, <2>1, DataAdded
  <2> QED BY <1>4, <2>1, <2>2 DEF Hand
<1>8. CASE /\ Check(w) \/ WarmWrite(w) \/ WriteNew(w)
  <2>1. /\ work'[w].at \in {"warm", "new", "warmAppend", "predict"}
        /\ work'[w].pred = work[w].pred /\ work'[w].m = m
        /\ work[w].at \in {"check", "warm", "new"}
    BY <1>1, <1>8 DEF Check, WarmWrite, WriteNew, Goto, WorkState
  <2> QED BY <1>4, <1>5, <2>1 DEF Hand
<1>9. CASE Judge(w)
  <2>1. PICK v \in {"outlier", "normal", "error"} :
          /\ work' = [work EXCEPT ![w].at = v, ![w].outlier = (v = "outlier")]
          /\ judged' = [judged EXCEPT ![m] = v]
    BY <1>9 DEF Judge
  <2>2. work'[w].at = v /\ work'[w].pred = work[w].pred /\ work'[w].m = m
    BY <1>1, <2>1, ZenonT(60) DEF WorkState
  <2>3. judged'[m] # None /\ work[w].at = "predict"
    BY <1>1, <1>2, <1>9, <2>1 DEF None, Judge
  <2> QED BY <1>4, <1>5, <2>2, <2>3 DEF Hand
<1>10. CASE Alert(w) \/ SetNormVector(w)
  <2>1. /\ work'[w].at = "after" /\ work'[w].pred = work[w].pred /\ work'[w].m = m
        /\ work[w].at \in {"outlier", "normal"}
    <3>1. CASE Alert(w)
      BY <1>1, <3>1, ZenonT(60) DEF Alert, WorkState
    <3>2. CASE SetNormVector(w)
      BY <1>1, <3>2 DEF SetNormVector, Goto, WorkState
    <3> QED BY <1>10, <3>1, <3>2
  <2> QED BY <1>4, <1>5, <2>1 DEF Hand
<1>11. CASE Keep(w)
  <2>1. /\ work'[w].at = "finish" /\ work'[w].pred = work[w].pred /\ work'[w].m = m
        /\ work[w].at = "after" /\ work'[w].outlier = work[w].outlier
        /\ (work[w].outlier => AllowAppendOutlier) => AppendData(w)
    BY <1>1, <1>11 DEF Keep, Goto, WorkState
  <2>2. (work[w].outlier => AllowAppendOutlier) => m \in Members(data')
    <3> SUFFICES ASSUME work[w].outlier => AllowAppendOutlier PROVE m \in Members(data')
      OBVIOUS
    <3>1. work[w].pred \in DOMAIN data
      BY <2>1 DEF Hand
    <3>2. m \in ToSet(data'[work[w].pred]) /\ work[w].pred \in DOMAIN data'
      BY <1>1, <1>2, <2>1, <3>1, DataAppended
    <3> QED BY <3>2 DEF Members
  <2> HIDE DEF Members
  <2> QED BY <1>4, <1>5, <2>1, <2>2 DEF Hand
<1>12. WarmAppend(w) \/ JudgeFailed(w) \/ Forget(w) \/ WriteProcessed(w) => work'[w] = Idle
  BY <1>1 DEF WarmAppend, JudgeFailed, Forget, DeleteRow, WriteProcessed, Finished
<1> QED BY <1>3, <1>6, <1>7, <1>8, <1>9, <1>10, <1>11, <1>12 DEF Process

LEMMA HandStep == Inv /\ HandInv /\ [Next]_vars => HandInv'
<1> SUFFICES ASSUME Inv, HandInv, [Next]_vars, NEW v \in Worker PROVE Hand(v)'
  BY DEF HandInv
<1>1. CASE Crash
  <2>1. work'[v] = Idle
    BY <1>1 DEF Crash
  <2> QED BY <2>1, WorkerAssumption DEF Hand, Idle
<1>2. CASE ~Crash
  <2>1. Grows /\ Hand(v)
    BY <1>2, StepGrows DEF HandInv
  <2>2. CASE work'[v] = work[v]
    BY <2>1, <2>2, HandOther
  <2>3. ASSUME NEW w \in Worker, Process(w) PROVE Hand(v)'
    <3>1. CASE v # w
      BY <2>2, <2>3, <3>1, ProcessOthers
    <3>2. CASE v = w /\ ~Receive(w)
      BY <2>1, <2>3, <3>2, HandMoves
    <3>3. CASE v = w /\ Receive(w)
      <4>1. /\ work'[w].m \in ToSet(queue[WorksFor[w]]) /\ work'[w].at = "lookup"
            /\ WorksFor[w] \in Entity
        BY <3>3, ReceiveFacts, WorkerAssumption
      <4>2. EntityOf[work'[w].m] = WorksFor[w]
        BY <4>1 DEF Inv, PlaceInv
      <4> QED BY <3>3, <4>1, <4>2 DEF Hand
    <3> QED BY <3>1, <3>2, <3>3
  <2>4. CASE \A w \in Worker : ~Process(w)
    BY <1>2, <2>2, <2>4, OtherSteps
  <2> QED BY <2>3, <2>4
<1> QED BY <1>1, <1>2

LEMMA HandAlways == Spec => []HandInv
<1>1. Init => HandInv
  BY IdleHand DEF Init, HandInv
<1> QED BY <1>1, HandStep, InvAlways, PTL DEF Spec

-----------------------------------------------------------------------------
(* The steps that are not of process, as the rows in memory see them:      *)
(* these stay what they are, or a batch of them reaches the store or is    *)
(* dropped.                                                                *)

RowsStay == Pending' = Pending /\ UNCHANGED <<db, durable, dropped>>
RowsLand(b) == /\ db' = AppendMany(db, RowsOf(b))
               /\ durable' = durable \o b
               /\ Pending' = Pending \ Tx!Numbers(b)
               /\ UNCHANGED dropped
RowsDrop(b) == /\ Pending' = Pending \ Tx!Numbers(b)
               /\ dropped' = dropped \cup Tx!Numbers(b)
               /\ UNCHANGED <<db, durable>>

LEMMA NumbersOfNone == Tx!Numbers(<<>>) = {}
BY DEF Tx!Numbers

LEMMA FlyingLeaves ==
  ASSUME BufferInv, NEW b \in flying,
         flying' = flying \ {b}, UNCHANGED <<buf, ticked>>
  PROVE  Pending' = Pending \ Tx!Numbers(b)
<1>1. /\ Tx!Numbers(buf) \cap Tx!InFlight = {}
      /\ Tx!Numbers(b) \cap Tx!Numbers(ticked) = {}
      /\ \A c \in flying : Tx!Numbers(b) \cap Tx!Numbers(c) # {} => b = c
  BY DEF BufferInv, Tx!NothingTwice
<1>2. Tx!Numbers(b) \cap Tx!Numbers(buf) = {}
  BY <1>1 DEF Tx!InFlight
<1>3. /\ Pending = Tx!Numbers(buf) \cup (UNION {Tx!Numbers(c) : c \in flying}) \cup Tx!Numbers(ticked)
      /\ Pending' = Tx!Numbers(buf) \cup (UNION {Tx!Numbers(c) : c \in flying \ {b}}) \cup Tx!Numbers(ticked)
  BY DEF Pending, Tx!InFlight, Tx!Numbers
<1>4. ASSUME NEW c \in flying \ {b} PROVE Tx!Numbers(c) \cap Tx!Numbers(b) = {}
  BY <1>1
<1> QED BY <1>1, <1>2, <1>3, <1>4

LEMMA TickedLeaves ==
  ASSUME BufferInv, ticked' = <<>>, UNCHANGED <<buf, flying>>
  PROVE  Pending' = Pending \ Tx!Numbers(ticked)
<1>1. /\ Tx!Numbers(buf) \cap Tx!InFlight = {}
      /\ \A c \in flying : Tx!Numbers(c) \cap Tx!Numbers(ticked) = {}
  BY DEF BufferInv, Tx!NothingTwice
<1>2. Tx!Numbers(ticked) \cap Tx!Numbers(buf) = {}
  BY <1>1 DEF Tx!InFlight
<1>3. /\ Pending = Tx!Numbers(buf) \cup (UNION {Tx!Numbers(c) : c \in flying}) \cup Tx!Numbers(ticked)
      /\ Pending' = Tx!Numbers(buf) \cup (UNION {Tx!Numbers(c) : c \in flying})
  BY NumbersOfNone DEF Pending, Tx!InFlight, Tx!Numbers
<1> QED BY <1>1, <1>2, <1>3

LEMMA BufferMoves ==
  ASSUME BufferInv, [Next]_vars, ~Crash, \A w \in Worker : ~Process(w)
  PROVE  /\ UNCHANGED log
         /\ \/ RowsStay
            \/ \E b \in flying \cup {ticked} : RowsLand(b) \/ RowsDrop(b)
<1>1. CASE \/ \E m \in Metric : Collect(m)
           \/ \E e \in Entity : Predict(e)
           \/ Tx!Tick /\ UNCHANGED db /\ Rest
           \/ Still
  <2>1. UNCHANGED <<log, db, buf, flying, ticked, durable, dropped>>
    BY <1>1 DEF Collect, Predict, Tx!Tick, Rest, Still, txVars
  <2> QED BY <2>1 DEF RowsStay, Pending, Tx!InFlight, Tx!Numbers
<1>2. CASE Take
  <2>1. /\ flying' = IF buf = <<>> THEN flying ELSE flying \cup {buf}
        /\ buf' = <<>> /\ UNCHANGED <<log, db, ticked, durable, dropped>>
    BY <1>2 DEF Take, Tx!Take, Rest
  <2>2. Pending' = Pending
    <3>1. /\ Pending = Tx!Numbers(buf) \cup (UNION {Tx!Numbers(c) : c \in flying}) \cup Tx!Numbers(ticked)
          /\ Pending' = (UNION {Tx!Numbers(c) : c \in flying'}) \cup Tx!Numbers(ticked)
      BY <2>1, NumbersOfNone DEF Pending, Tx!InFlight, Tx!Numbers
    <3>2. CASE buf = <<>>
      BY <2>1, <3>1, <3>2, NumbersOfNone
    <3>3. CASE buf # <<>>
      BY <2>1, <3>1, <3>3
    <3> QED BY <3>2, <3>3
  <2> QED BY <2>1, <2>2 DEF RowsStay
<1>3. CASE Tx!TickTake /\ UNCHANGED db /\ Rest
  <2>1. /\ ticked' = buf /\ buf' = <<>> /\ flusher = "flush"
        /\ UNCHANGED <<log, db, flying, durable, dropped>>
    BY <1>3 DEF Tx!TickTake, Rest
  <2>2. ticked = <<>>
    BY <2>1 DEF BufferInv, Buffer!BatchesInjective
  <2>3. /\ Pending = Tx!Numbers(buf) \cup (UNION {Tx!Numbers(c) : c \in flying}) \cup {}
        /\ Pending' = (UNION {Tx!Numbers(c) : c \in flying}) \cup Tx!Numbers(buf)
    BY <2>1, <2>2, NumbersOfNone DEF Pending, Tx!InFlight, Tx!Numbers
  <2> QED BY <2>1, <2>3 DEF RowsStay
<1>4. ASSUME NEW b \in flying, Commit(b) \/ Fail(b)
      PROVE  UNCHANGED log /\ (RowsLand(b) \/ RowsDrop(b))
  <2>1. flying' = flying \ {b} /\ UNCHANGED <<buf, ticked, log>>
    BY <1>4 DEF Commit, Fail, Tx!Commit, Tx!Fail, Rest
  <2>2. Pending' = Pending \ Tx!Numbers(b)
    BY <2>1, FlyingLeaves
  <2>3. CASE Commit(b)
    BY <2>1, <2>2, <2>3 DEF Commit, Tx!Commit, RowsLand
  <2>4. CASE Fail(b)
    BY <2>1, <2>2, <2>4 DEF Fail, Tx!Fail, RowsDrop
  <2> QED BY <1>4, <2>3, <2>4
<1>5. CASE TickCommit \/ (Tx!TickFail /\ UNCHANGED db /\ Rest)
  <2>1. ticked' = <<>> /\ UNCHANGED <<buf, flying, log>>
    BY <1>5 DEF TickCommit, Tx!TickCommit, Tx!TickFail, Rest
  <2>2. Pending' = Pending \ Tx!Numbers(ticked)
    BY <2>1, TickedLeaves
  <2>3. CASE TickCommit
    BY <2>1, <2>2, <2>3 DEF TickCommit, Tx!TickCommit, RowsLand
  <2>4. CASE Tx!TickFail /\ UNCHANGED db /\ Rest
    BY <2>1, <2>2, <2>4 DEF Tx!TickFail, RowsDrop
  <2> QED BY <1>5, <2>3, <2>4
<1> QED BY <1>1, <1>2, <1>3, <1>4, <1>5, NextCases DEF Flush, Flusher, Ticking

-----------------------------------------------------------------------------
(* From the rows to the datasets: a processed row, in the store or on its  *)
(* way there, is of a metric that is in a dataset or about to be put into  *)
(* one, unless it is an outlier that is not to be appended.                *)

Arrives(m) ==
  \/ m \in Members(data)
  \/ \E w \in Worker : work[w].m = m /\ work[w].at = "warmAppend"

Due(r) == Retained(r) \/ (IsProcessed(r) /\ judged[r.id] = None)

(* The rows that are in the store or on their way there. *)
Rows == db.rows \cup {log[n] : n \in Pending}

RowsArrive(S) == \A r \in Rows : r.id \in S /\ Due(r) => Arrives(r.id)

OfEntity(e) == {m \in Metric : EntityOf[m] = e}

LEMMA WarmLeaves ==
  ASSUME Inv, NEW w \in Worker, Hand(w), Process(w), work[w].at = "warmAppend"
  PROVE  /\ WarmAppend(w) /\ work'[w] = Idle
         /\ DOMAIN data' = DOMAIN data /\ work[w].pred \in DOMAIN data
         /\ work[w].m \in ToSet(data'[work[w].pred])
<1>1. WarmAppend(w)
  BY DEF Process, Receive, Lookup, Create, Check, WarmWrite, WriteNew, Judge,
         JudgeFailed, Alert, SetNormVector, Forget, Keep, WriteProcessed
<1>2. /\ work[w].m \in Metric /\ Proper(data) /\ work \in [Worker -> WorkState]
      /\ work[w].pred \in DOMAIN data
  BY Busy DEF Inv, TypeOK, PlaceInv, WorkState, Hand
<1>3. AppendData(w) /\ work'[w] = Idle
  BY <1>1, <1>2 DEF WarmAppend, Finished
<1> QED BY <1>1, <1>2, <1>3, DataAppended

LEMMA ArrivesStays ==
  ASSUME Inv, HandInv, [Next]_vars, ~Crash, NEW m \in Metric, Arrives(m)
  PROVE  Arrives(m)'
<1>1. Grows
  BY StepGrows
<1>2. CASE m \in Members(data)
  BY <1>1, <1>2 DEF Grows, Members, Arrives
<1>3. ASSUME NEW w \in Worker, work[w].m = m, work[w].at = "warmAppend"
      PROVE  Arrives(m)'
  <2>1. CASE work'[w] = work[w]
    BY <1>3, <2>1 DEF Arrives
  <2>2. CASE Process(w)
    <3>1. work[w].pred \in DOMAIN data' /\ m \in ToSet(data'[work[w].pred])
      BY <1>3, <2>2, WarmLeaves DEF HandInv
    <3> QED BY <3>1 DEF Arrives, Members
  <2>3. ASSUME NEW v \in Worker, Process(v), v # w PROVE Arrives(m)'
    BY <2>1, <2>3, ProcessOthers
  <2>4. CASE \A v \in Worker : ~Process(v)
    BY <2>1, <2>4, OtherSteps
  <2> QED BY <2>2, <2>3, <2>4
<1> HIDE DEF Members
<1> QED BY <1>2, <1>3 DEF Arrives

(* The rows that a batch brings.                                           *)
LEMMA LandedRows ==
  ASSUME TypeOK, BufferInv, StoreInv(db), NEW b \in flying \cup {ticked}
  PROVE  /\ RowsOf(b) \in Seq(AnyRow)
         /\ Tx!Numbers(b) \subseteq Pending
         /\ \A r \in AppendMany(db, RowsOf(b)).rows :
              r \in db.rows \/ \E n \in Tx!Numbers(b) : r = log[n]
<1>1. RowsOf(b) \in Seq(AnyRow)
  BY BatchRows DEF BufferInv
<1>2. \A r \in AppendMany(db, RowsOf(b)).rows : r \in db.rows \/ r \in ToSet(RowsOf(b))
  BY <1>1, StoreAppend
<1>3. ASSUME NEW r \in ToSet(RowsOf(b)) PROVE \E n \in Tx!Numbers(b) : r = log[n]
  <2>1. PICK i \in DOMAIN RowsOf(b) : r = RowsOf(b)[i]
    BY DEF ToSet
  <2>2. i \in DOMAIN b /\ r = log[b[i]]
    BY <2>1 DEF RowsOf
  <2> QED BY <2>2 DEF Tx!Numbers
<1>4. Tx!Numbers(b) \subseteq Pending
  BY DEF Pending, Tx!InFlight
<1> QED BY <1>1, <1>2, <1>3, <1>4

(* No step but a write adds a row, in the store or on its way there.       *)
LEMMA RowsMove ==
  ASSUME Inv, BufferInv, [Next]_vars, ~Crash,
         \A w \in Worker : ~(WarmWrite(w) \/ WriteNew(w) \/ WriteProcessed(w))
  PROVE  Rows' \subseteq Rows
<1>1. TypeOK /\ StoreInv(db)
  BY DEF Inv, RowsInv
<1>2. ASSUME NEW w \in Worker, Process(w)
      PROVE  /\ UNCHANGED log /\ Pending' = Pending
             /\ \A r \in db'.rows : r \in db.rows
  <2>1. UNCHANGED <<log, buf, flying, ticked>>
    BY <1>2 DEF Process, Receive, Lookup, Create, Check, WarmAppend, Judge,
       JudgeFailed, DeleteRow, Alert, SetNormVector, Forget, Keep, txVars
  <2>2. \A r \in db'.rows : r \in db.rows
    <3>1. CASE JudgeFailed(w) \/ Forget(w)
      BY <1>1, <3>1, StoreDelete DEF JudgeFailed, Forget, DeleteRow
    <3>2. CASE ~(JudgeFailed(w) \/ Forget(w))
      BY <1>2, <3>2 DEF Process, Receive, Lookup, Create, Check, WarmAppend, Judge,
         Alert, SetNormVector, Keep
    <3> QED BY <3>1, <3>2
  <2> QED BY <2>1, <2>2 DEF Pending, Tx!InFlight, Tx!Numbers
<1>3. CASE \A w \in Worker : ~Process(w)
  <2>1. /\ UNCHANGED log
        /\ RowsStay \/ \E b \in flying \cup {ticked} : RowsLand(b) \/ RowsDrop(b)
    BY <1>3, BufferMoves
  <2>2. ASSUME NEW b \in flying \cup {ticked}, RowsLand(b)
        PROVE  \A r \in db'.rows : r \in db.rows \/ \E n \in Pending : r = log[n]
    BY <1>1, <2>2, LandedRows DEF RowsLand
  <2> QED BY <2>1, <2>2 DEF RowsStay, RowsLand, RowsDrop, Rows
<1> QED BY <1>2, <1>3 DEF Rows

LEMMA DueStays ==
  ASSUME Inv, [Next]_vars, ~Crash, NEW r, r.id \in Metric, Due(r)'
  PROVE  Due(r)
BY StepGrows DEF Due, Grows, IsProcessed, Retained

LEMMA WriteArrives ==
  ASSUME Inv, HandInv, NEW w \in Worker, NEW s, WriteRow(w, s),
         \/ WarmWrite(w)
         \/ s = "new"
         \/ WriteProcessed(w),
         NEW r, r = Row(work[w].m, s, work[w].outlier), Due(r)'
  PROVE  Arrives(r.id)'
<1>1. r.id = work[w].m /\ r.status = s
  BY DEF Row
<1>2. CASE WarmWrite(w)
  <2>1. work'[w].at = "warmAppend" /\ work'[w].m = work[w].m
    BY <1>2 DEF WarmWrite, Goto, Inv, TypeOK
  <2> QED BY <1>1, <2>1 DEF Arrives
<1>3. CASE s = "new"
  BY <1>1, <1>3 DEF Due, IsProcessed, Retained
<1>4. CASE WriteProcessed(w)
  <2>1. work[w].at = "finish" /\ UNCHANGED <<judged, data>>
    BY <1>4 DEF WriteProcessed, WriteRow
  <2>2. /\ judged[work[w].m] # None
        /\ (work[w].outlier => AllowAppendOutlier) => work[w].m \in Members(data)
    BY <2>1 DEF HandInv, Hand
  <2>3. r.outlier = work[w].outlier
    BY DEF Row
  <2> HIDE DEF Members
  <2> QED BY <1>1, <2>1, <2>2, <2>3 DEF Due, Arrives, Retained
<1> QED BY <1>2, <1>3, <1>4

LEMMA RowsArriveStep ==
  ASSUME Inv, HandInv, BufferInv, [Next]_vars, ~Crash, NEW S \in SUBSET Metric, RowsArrive(S)
  PROVE  RowsArrive(S)'
<1>1. \A m \in Metric : Arrives(m) => Arrives(m)'
  BY ArrivesStays
<1>2. TypeOK
  BY DEF Inv
<1> HIDE DEF Arrives, Due
<1>3. ASSUME NEW r \in Rows, r.id \in S, Due(r)' PROVE Arrives(r.id)'
  <2>1. Due(r)
    BY <1>3, DueStays
  <2> QED BY <1>1, <1>3, <2>1 DEF RowsArrive
<1>4. ASSUME NEW w \in Worker, NEW s, WriteRow(w, s),
             WarmWrite(w) \/ s = "new" \/ WriteProcessed(w)
      PROVE  RowsArrive(S)'
  <2>1. Rows' \subseteq Rows \cup {Row(work[w].m, s, work[w].outlier)}
    BY <1>2, <1>4, WritePending DEF Rows, WriteRow
  <2>2. ASSUME NEW r, r = Row(work[w].m, s, work[w].outlier), Due(r)'
        PROVE  Arrives(r.id)'
    BY <1>4, <2>2, WriteArrives
  <2> QED BY <1>3, <2>1, <2>2 DEF RowsArrive
<1>5. CASE \A w \in Worker : ~(WarmWrite(w) \/ WriteNew(w) \/ WriteProcessed(w))
  BY <1>3, <1>5, RowsMove DEF RowsArrive
<1>6. ASSUME NEW w \in Worker, WarmWrite(w) \/ WriteNew(w) \/ WriteProcessed(w)
      PROVE  RowsArrive(S)'
  BY <1>4, <1>6 DEF WarmWrite, WriteNew, WriteProcessed
<1> QED BY <1>5, <1>6

-----------------------------------------------------------------------------
(* From the datasets to the rows: while none is dropped, a metric that is  *)
(* in a dataset has a processed row on its way, after all its new ones, or *)
(* is stored as processed, with a processed row accepted that is later     *)
(* than its new ones on their way; or its rows were accepted out of order. *)

Later(k, m) ==
  \E i \in DOMAIN durable : k < durable[i] /\ RowOf(durable[i], m, "processed")

Final(m) ==
  \/ \E n \in Pending : /\ RowOf(n, m, "processed")
                        /\ \A k \in Pending : RowOf(k, m, "new") => k < n
  \/ /\ \E r \in db.rows : r.id = m /\ IsProcessed(r)
     /\ \A k \in Pending : RowOf(k, m, "new") => Later(k, m)
  \/ Overtaken(m) /\ \E r \in db.rows : r.id = m

Finishing(m) == \E w \in Worker : work[w].m = m /\ work[w].at = "finish"

DataIsFinal ==
  dropped = {} => \A m \in Metric : Arrives(m) => Final(m) \/ Finishing(m)

(* What was accepted stays accepted, in that order.                        *)
DurableGrows ==
  \A i \in DOMAIN durable :
    i \in DOMAIN durable' /\ durable'[i] = durable[i] /\ log'[durable[i]] = log[durable[i]]

LEMMA LaterStays ==
  ASSUME DurableGrows, NEW m
  PROVE  /\ \A k : Later(k, m) => Later(k, m)'
         /\ Overtaken(m) => Overtaken(m)'
BY DEF DurableGrows, Later, Overtaken, RowOf

LEMMA DurableStep == Inv /\ BufferInv /\ [Next]_vars => DurableGrows
<1> SUFFICES ASSUME Inv, BufferInv, [Next]_vars, NEW i \in DOMAIN durable
             PROVE  /\ i \in DOMAIN durable' /\ durable'[i] = durable[i]
                    /\ log'[durable[i]] = log[durable[i]]
  BY DEF DurableGrows
<1>1. /\ durable \in Seq(Nat) /\ log \in Seq(AnyRow) /\ Len(log) = written
      /\ durable[i] \in 1 .. written
  BY DEF BufferInv, Tx!TypeOK, Tx!NothingMissing, Tx!Numbers, Inv, TypeOK
<1>2. CASE Crash
  BY <1>2 DEF Crash, Tx!Crash
<1>3. ASSUME NEW w \in Worker, Process(w)
      PROVE  UNCHANGED durable /\ log'[durable[i]] = log[durable[i]]
  <2>1. UNCHANGED durable
    BY <1>3 DEF Process, Receive, Lookup, Create, Check, WarmWrite, WriteNew, WriteProcessed,
       WriteRow, WarmAppend, Judge, JudgeFailed, DeleteRow, Alert, SetNormVector, Forget, Keep,
       txVars, Tx!Write
  <2>2. UNCHANGED log \/ \E s \in {"new", "processed"} : WriteRow(w, s)
    BY <1>3 DEF Process, Receive, Lookup, Create, Check, WarmWrite, WriteNew, WriteProcessed,
       WarmAppend, Judge, JudgeFailed, DeleteRow, Alert, SetNormVector, Forget, Keep
  <2>3. ASSUME NEW s \in {"new", "processed"}, WriteRow(w, s)
        PROVE  log'[durable[i]] = log[durable[i]]
    <3>1. log' = Append(log, Row(work[w].m, s, work[w].outlier))
      BY <2>3 DEF WriteRow
    <3> QED BY <1>1, <3>1
  <2> QED BY <2>1, <2>2, <2>3
<1>4. CASE ~Crash /\ \A w \in Worker : ~Process(w)
  <2>1. UNCHANGED log
    BY <1>4, BufferMoves
  <2>2. ASSUME NEW b \in flying \cup {ticked}, durable' = durable \o b
        PROVE  i \in DOMAIN durable' /\ durable'[i] = durable[i]
    <3>1. b \in Seq(Nat)
      BY DEF BufferInv, Tx!TypeOK
    <3> QED BY <1>1, <2>2, <3>1
  <2> QED BY <1>4, <2>1, <2>2, BufferMoves DEF RowsStay, RowsLand, RowsDrop
<1> QED BY <1>2, <1>3, <1>4

(* A set of numbers up to n that is not empty has a largest: the one with  *)
(* the smallest set of larger ones.                                        *)
LEMMA LargestExists ==
  ASSUME NEW n \in Nat, NEW I \in SUBSET (1 .. n), I # {}
  PROVE  \E i \in I : \A j \in I : j <= i
<1> DEFINE Above(i) == {j \in I : j > i}
           T == {Above(i) : i \in I}
<1>1. IsFiniteSet(I) /\ I \subseteq Nat
  <2>1. IsFiniteSet(1 .. n)
    BY FS_Interval
  <2>2. IsFiniteSet(I)
    BY <2>1, FS_Subset
  <2>3. I \subseteq Nat
    OBVIOUS
  <2> QED BY <2>2, <2>3
<1>2. IsWellFoundedOn(StrictSubsetOrdering(I), FiniteSubsetsOf(I))
  BY FS_StrictSubsetOrderingWellFounded
<1>3. T \subseteq FiniteSubsetsOf(I)
  BY <1>1, FS_Subset DEF FiniteSubsetsOf
<1>4. T # {}
  OBVIOUS
<1>5. PICK D \in T : \A E \in T : <<E, D>> \notin StrictSubsetOrdering(I)
  <2> HIDE DEF T
  <2> QED BY <1>2, <1>3, <1>4, WFMin
<1>6. PICK i \in I : D = Above(i)
  BY <1>5
<1>7. ASSUME NEW j \in I, ~(j <= i) PROVE FALSE
  <2>1. j \in D /\ j \notin Above(j)
    BY <1>6, <1>7
  <2>2. Above(j) \subseteq D
    <3> SUFFICES ASSUME NEW k \in I, k > j PROVE k \in Above(i)
      BY <1>6
    <3>1. k \in Nat /\ j \in Nat /\ i \in Nat
      BY <1>1, <1>6, <1>7
    <3> QED BY <1>7, <3>1
  <2>3. Above(j) \in SUBSET I /\ D \in SUBSET I
    BY <1>6
  <2>4. <<Above(j), D>> \in StrictSubsetOrdering(I)
    <3> HIDE DEF Above
    <3> QED BY <2>1, <2>2, <2>3 DEF StrictSubsetOrdering
  <2>5. Above(j) \in T
    OBVIOUS
  <2> QED BY <1>5, <2>4, <2>5
<1> QED BY <1>6, <1>7

(* Of the rows of a metric in a batch, the latest is put last.             *)
LEMMA LatestIsPut ==
  ASSUME TypeOK, BufferInv, NEW b \in flying \cup {ticked}, NEW n \in Tx!Numbers(b),
         \A k \in Tx!Numbers(b) : log[k].id = log[n].id => k <= n
  PROVE  log[n] \in AppendMany(db, RowsOf(b)).rows
<1>1. /\ b \in Seq(Nat) /\ DOMAIN b = 1 .. Len(b) /\ Len(b) \in Nat
      /\ \A i, j \in DOMAIN b : i < j => b[i] < b[j]
  BY DEF BufferInv, Tx!TypeOK, Buffer!BatchesAscend, Buffer!Ascending
<1>2. \A k \in Tx!Numbers(b) : log[k] \in AnyRow
  BY PendingRows DEF Pending, Tx!InFlight
<1>3. PICK i \in DOMAIN b : b[i] = n
  BY DEF Tx!Numbers
<1>4. DOMAIN RowsOf(b) = DOMAIN b /\ \A j \in DOMAIN b : RowsOf(b)[j] = log[b[j]]
  BY DEF RowsOf
<1>5. ASSUME NEW j \in DOMAIN b, Key(log[b[j]]) = Key(log[n])
      PROVE  j <= i
  <2>1. b[j] \in Tx!Numbers(b)
    BY DEF Tx!Numbers
  <2>2. log[b[j]].id = log[n].id
    BY <1>2, <1>5, <2>1, RowFacts
  <2>3. b[j] <= b[i] /\ b[j] \in Nat /\ b[i] \in Nat
    BY <1>1, <1>3, <2>1, <2>2
  <2>4. ~(b[i] < b[j])
    BY <2>3
  <2>5. ~(i < j)
    BY <1>1, <2>4
  <2> QED BY <1>1, <2>5
<1>6. RowsOf(b)[i] = log[n] /\ i \in DOMAIN RowsOf(b)
  BY <1>3, <1>4
<1>7. \A j \in DOMAIN RowsOf(b) : Key(RowsOf(b)[j]) = Key(RowsOf(b)[i]) => j <= i
  BY <1>4, <1>5, <1>6
<1>8. log[n] \in LastPut(RowsOf(b))
  BY <1>6, <1>7 DEF LastPut
<1> QED BY <1>8 DEF AppendMany

LEMMA OtherRowStays ==
  ASSUME StoreInv(db), NEW b, RowsOf(b) \in Seq(AnyRow), NEW r \in db.rows,
         \A n \in Tx!Numbers(b) : log[n].id # r.id
  PROVE  r \in AppendMany(db, RowsOf(b)).rows
<1>1. r \in AnyRow
  BY DEF StoreInv
<1>2. ASSUME NEW i \in DOMAIN RowsOf(b) PROVE Key(RowsOf(b)[i]) # Key(r)
  <2>1. RowsOf(b)[i] \in AnyRow
    OBVIOUS
  <2>2. RowsOf(b)[i] = log[b[i]] /\ i \in DOMAIN b
    BY DEF RowsOf
  <2>3. RowsOf(b)[i].id # r.id
    BY <2>2 DEF Tx!Numbers
  <2> QED BY <1>1, <2>1, <2>3, RowFacts
<1> QED BY <1>2 DEF AppendMany

(* What a batch brings of a metric: its latest row, which replaces the     *)
(* stored one.                                                             *)
LEMMA LatestExists ==
  ASSUME TypeOK, BufferInv, NEW b \in flying \cup {ticked}, NEW m,
         NEW h \in Tx!Numbers(b), log[h].id = m
  PROVE  \E n \in Tx!Numbers(b) :
           /\ log[n].id = m /\ \A k \in Tx!Numbers(b) : log[k].id = m => k <= n
           /\ log[n] \in AppendMany(db, RowsOf(b)).rows
<1> DEFINE I == {k \in Tx!Numbers(b) : log[k].id = m}
<1>1. \A k \in Tx!Numbers(b) : k \in 1 .. written
  BY PendingRows DEF Pending, Tx!InFlight
<1>2. written \in Nat
  BY DEF BufferInv, Tx!TypeOK
<1>3. PICK n \in I : \A k \in I : k <= n
  <2>1. I \in SUBSET (1 .. written) /\ I # {}
    BY <1>1
  <2> HIDE DEF I
  <2> QED BY <1>2, <2>1, LargestExists
<1> QED BY <1>3, LatestIsPut

(* A batch reaches the store.                                              *)
LEMMA FinalLands ==
  ASSUME TypeOK, BufferInv, StoreInv(db), NEW b \in flying \cup {ticked},
         RowsLand(b), DurableGrows, UNCHANGED log, NEW m \in Metric, Final(m)
  PROVE  Final(m)'
<1>1. /\ Pending' = Pending \ Tx!Numbers(b) /\ Tx!Numbers(b) \subseteq Pending
      /\ db'.rows = AppendMany(db, RowsOf(b)).rows
      /\ RowsOf(b) \in Seq(AnyRow)
  BY LandedRows DEF RowsLand
<1>2. \A k \in Pending :
        /\ k \in Nat
        /\ log[k].id = m => RowOf(k, m, "new") \/ RowOf(k, m, "processed")
        /\ ~(RowOf(k, m, "new") /\ RowOf(k, m, "processed"))
  <2>1. \A r \in AnyRow : r.status \in {"new", "processed"}
    BY DEF AnyRow, Row
  <2> QED BY <2>1, PendingRows DEF RowOf
<1>3. /\ \A k : Later(k, m) => Later(k, m)'
      /\ Overtaken(m) => Overtaken(m)'
  BY LaterStays
<1>4. \A k : RowOf(k, m, "new")' <=> RowOf(k, m, "new")
  BY DEF RowOf
<1>5. \A k : RowOf(k, m, "processed")' <=> RowOf(k, m, "processed")
  BY DEF RowOf
(* The numbers of the batch come last among the accepted ones. *)
<1>6. ASSUME NEW n \in Tx!Numbers(b)
      PROVE  \E j \in DOMAIN durable' : j \notin DOMAIN durable /\ durable'[j] = n
               /\ \A i \in DOMAIN durable : i < j
  <2>1. durable' = durable \o b /\ durable \in Seq(Nat) /\ b \in Seq(Nat)
    BY DEF RowsLand, BufferInv, Tx!TypeOK
  <2>2. PICK a \in DOMAIN b : b[a] = n
    BY DEF Tx!Numbers
  <2>3. /\ Len(durable) + a \in DOMAIN durable' /\ durable'[Len(durable) + a] = n
        /\ Len(durable) + a \notin DOMAIN durable
        /\ \A i \in DOMAIN durable : i < Len(durable) + a
    BY <2>1, <2>2
  <2> QED BY <2>3
<1>7. CASE \E h \in Tx!Numbers(b) : log[h].id = m
  <2>1. PICK n \in Tx!Numbers(b) :
          /\ log[n].id = m /\ \A k \in Tx!Numbers(b) : log[k].id = m => k <= n
          /\ log[n] \in db'.rows
    BY <1>1, <1>7, LatestExists
  <2>2. n \in Pending
    BY <1>1, <2>1
  <2>3. CASE RowOf(n, m, "processed")
    <3>1. IsProcessed(log[n])
      BY <2>3 DEF RowOf, IsProcessed
    <3>2. ASSUME NEW h \in Pending, RowOf(h, m, "processed"),
                 \A k \in Pending : RowOf(k, m, "new") => k < h
          PROVE  Final(m)'
      <4>1. CASE h \notin Tx!Numbers(b)
        BY <1>1, <1>4, <1>5, <3>2, <4>1 DEF Final
      <4>2. CASE h \in Tx!Numbers(b)
        <5>1. PICK j \in DOMAIN durable' : durable'[j] = h
          BY <1>6, <4>2
        <5>2. \A k \in Pending' : RowOf(k, m, "new")' => Later(k, m)'
          BY <1>1, <1>4, <1>5, <3>2, <5>1 DEF Later
        <5> QED BY <2>1, <3>1, <5>2 DEF Final
      <4> QED BY <4>1, <4>2
    <3>3. ASSUME \A k \in Pending : RowOf(k, m, "new") => Later(k, m)
          PROVE  Final(m)'
      <4>1. \A k \in Pending' : RowOf(k, m, "new")' => Later(k, m)'
        BY <1>1, <1>3, <1>4, <3>3
      <4> QED BY <2>1, <3>1, <4>1 DEF Final
    <3>4. CASE Overtaken(m)
      BY <1>3, <2>1, <3>4 DEF Final
    <3> QED BY <3>2, <3>3, <3>4 DEF Final
  <2>4. CASE RowOf(n, m, "new")
    <3>1. ASSUME NEW h \in Pending, RowOf(h, m, "processed"),
                 \A k \in Pending : RowOf(k, m, "new") => k < h
          PROVE  Final(m)'
      <4>1. n < h /\ h \in Nat /\ n \in Nat
        BY <1>2, <2>2, <2>4, <3>1
      <4>2. h \notin Tx!Numbers(b)
        BY <2>1, <3>1, <4>1 DEF RowOf
      <4> QED BY <1>1, <1>4, <1>5, <3>1, <4>2 DEF Final
    <3>2. ASSUME Later(n, m) PROVE Overtaken(m)'
      <4>1. PICK i \in DOMAIN durable : n < durable[i] /\ RowOf(durable[i], m, "processed")
        BY <3>2 DEF Later
      <4>2. PICK j \in DOMAIN durable' : durable'[j] = n /\ i < j
        BY <1>6, <2>1, <4>1
      <4>3. i \in DOMAIN durable' /\ durable'[i] = durable[i]
        BY <4>1 DEF DurableGrows
      <4>4. /\ RowOf(durable'[i], m, "processed") /\ RowOf(durable'[j], m, "new")
            /\ durable'[j] < durable'[i]
        BY <2>4, <4>1, <4>2, <4>3
      <4> QED BY <4>2, <4>3, <4>4 DEF Overtaken, RowOf
    <3>3. Overtaken(m) \/ Later(n, m) => Final(m)'
      BY <1>3, <2>1, <3>2 DEF Final
    <3> QED BY <2>2, <2>4, <3>1, <3>3 DEF Final
  <2> QED BY <1>2, <2>1, <2>2, <2>3, <2>4
<1>8. CASE \A h \in Tx!Numbers(b) : log[h].id # m
  <2>1. \A r \in db.rows : r.id = m => r \in db'.rows
    BY <1>1, <1>8, OtherRowStays
  <2>2. \A h \in Pending : RowOf(h, m, "processed") => h \in Pending'
    BY <1>1, <1>8 DEF RowOf
  <2> QED BY <1>1, <1>3, <1>4, <1>5, <2>1, <2>2 DEF Final
<1> QED BY <1>7, <1>8

LEMMA FinalBuffer ==
  ASSUME Inv, BufferInv, [Next]_vars, ~Crash, \A w \in Worker : ~Process(w),
         dropped' = {}, NEW m \in Metric, Final(m)
  PROVE  Final(m)'
<1>1. UNCHANGED log /\ TypeOK /\ StoreInv(db) /\ DurableGrows
  BY BufferMoves, DurableStep DEF Inv, RowsInv
<1>2. CASE Pending' = Pending /\ UNCHANGED <<db, durable>>
  BY <1>1, <1>2 DEF Final, Later, Overtaken, RowOf
<1>3. ASSUME NEW b \in flying \cup {ticked}, RowsLand(b) PROVE Final(m)'
  BY <1>1, <1>3, FinalLands
<1>4. ASSUME NEW b \in flying \cup {ticked}, RowsDrop(b) PROVE Final(m)'
  BY <1>2, <1>4 DEF RowsDrop
<1> QED BY <1>2, <1>3, <1>4, BufferMoves DEF RowsStay

(* The steps of process: what enters a dataset was written as processed    *)
(* before, or is to be written next.                                       *)
LEMMA ArrivesComes ==
  ASSUME Inv, HandInv, NEW w \in Worker, Process(w), NEW m \in Metric, Arrives(m)'
  PROVE  Arrives(m) \/ (m = work[w].m /\ (WarmWrite(w) \/ Keep(w)))
<1>1. CASE m \in Members(data')
  <2>1. CASE UNCHANGED data
    BY <1>1, <2>1 DEF Arrives
  <2>2. CASE data' = Append(data, <<>>)
    BY <1>1, <2>2, DatasetAdded DEF Inv, PlaceInv, Arrives
  <2>3. CASE AppendData(w) /\ (WarmAppend(w) \/ Keep(w))
    <3>1. /\ work[w].m \in Metric /\ Proper(data)
          /\ work[w].at \in {"warmAppend", "after"}
      BY <2>3, Busy DEF WarmAppend, Keep, Inv, PlaceInv
    <3>2. m \in Members(data) \/ m = work[w].m
      BY <1>1, <2>3, <3>1, DatasetGrows, Busy
    <3>3. WarmAppend(w) => work[w].at = "warmAppend"
      BY DEF WarmAppend
    <3> QED BY <2>3, <3>2, <3>3 DEF Arrives
  <2> QED BY <2>1, <2>2, <2>3, ProcessData
<1>2. ASSUME NEW v \in Worker, work'[v].m = m, work'[v].at = "warmAppend"
      PROVE  Arrives(m) \/ (m = work[w].m /\ WarmWrite(w))
  <2>1. CASE v # w
    BY <1>2, <2>1, ProcessOthers DEF Arrives
  <2>2. CASE v = w
    <3>1. ~Receive(w)
      BY <1>2, <2>2, ReceiveFacts
    <3>2. m = work[w].m
      BY <1>2, <2>2, <3>1, StepMoves DEF Moves, Idle
    <3>3. WarmWrite(w)
      <4> HIDE DEF Arrives
      <4>1. work \in [Worker -> WorkState]
        BY DEF Inv, TypeOK, WorkState
      <4>2. \A v2 \in {"outlier", "normal", "error"} : v2 # "warmAppend"
        OBVIOUS
      <4>3. CASE Judge(w)
        <5>1. PICK u \in {"outlier", "normal", "error"} :
                work' = [work EXCEPT ![w].at = u, ![w].outlier = (u = "outlier")]
          BY <4>3 DEF Judge
        <5>2. work'[w].at = u
          BY <4>1, <5>1, ZenonT(60) DEF WorkState
        <5> QED BY <1>2, <2>2, <4>2, <5>2
      <4>4. CASE Lookup(w) \/ Create(w) \/ Alert(w)
        <5>1. work'[w].at \in {"create", "check", "after"}
          BY <4>1, <4>4, ZenonT(120) DEF Lookup, Create, Alert, WorkState
        <5> QED BY <1>2, <2>2, <5>1
      <4>5. CASE Check(w) \/ WriteNew(w) \/ SetNormVector(w) \/ Keep(w)
        <5>1. work'[w].at \in {"warm", "new", "predict", "after", "finish"}
          BY <4>1, <4>5 DEF Check, WriteNew, SetNormVector, Keep, Goto, WorkState
        <5> QED BY <1>2, <2>2, <5>1
      <4>6. CASE WarmAppend(w) \/ JudgeFailed(w) \/ Forget(w) \/ WriteProcessed(w)
        <5>1. work'[w] = Idle
          BY <4>1, <4>6 DEF WarmAppend, JudgeFailed, Forget, DeleteRow, WriteProcessed,
                            Finished, WorkState
        <5> QED BY <1>2, <2>2, <5>1 DEF Idle
      <4> QED BY <3>1, <4>3, <4>4, <4>5, <4>6 DEF Process
    <3> QED BY <3>2, <3>3
  <2> QED BY <2>1, <2>2
<1> HIDE DEF Members
<1> QED BY <1>1, <1>2 DEF Arrives

(* A processed row that is written is the last one.                       *)
LEMMA FinalWrites ==
  ASSUME Inv, BufferInv, NEW w \in Worker, WarmWrite(w) \/ WriteProcessed(w),
         NEW m, m = work[w].m
  PROVE  Final(m)'
<1>1. TypeOK /\ WriteRow(w, "processed")
  BY DEF Inv, WarmWrite, WriteProcessed
<1>2. /\ Pending' = Pending \cup {written + 1}
      /\ \A n \in Pending : n < written + 1
      /\ log'[written + 1] = Row(work[w].m, "processed", work[w].outlier)
  BY <1>1, WritePending
<1>3. log'[written + 1].id = m /\ log'[written + 1].status = "processed"
  BY <1>2 DEF Row
<1>4. ASSUME NEW k \in Pending', log'[k].id = m, log'[k].status = "new" PROVE k < written + 1
  <2>1. k # written + 1
    BY <1>3, <1>4
  <2> QED BY <1>2, <1>4, <2>1
<1> QED BY <1>2, <1>3, <1>4 DEF Final, RowOf

(* No step of process but these loses the last row of a metric.            *)
LEMMA FinalKept ==
  ASSUME Inv, BufferInv, NEW w \in Worker, Process(w),
         NEW m \in Metric, Final(m),
         m = work[w].m => ~(WriteNew(w) \/ JudgeFailed(w) \/ Forget(w))
  PROVE  Final(m)'
<1>1. TypeOK /\ StoreInv(db) /\ DurableGrows
  BY DurableStep DEF Inv, RowsInv, Next
<1>2. ASSUME NEW s, WriteRow(w, s), m # work[w].m PROVE Final(m)'
  <2>1. /\ Pending' = Pending \cup {written + 1}
        /\ \A n \in Pending : log'[n] = log[n]
        /\ log'[written + 1] = Row(work[w].m, s, work[w].outlier)
        /\ UNCHANGED db
    BY <1>1, <1>2, WritePending DEF WriteRow
  <2>2. log'[written + 1].id # m
    BY <1>2, <2>1 DEF Row
  <2>3. /\ \A k \in Pending' : RowOf(k, m, "new")' => k \in Pending /\ RowOf(k, m, "new")
        /\ \A k \in Pending :
             k \in Pending' /\ (RowOf(k, m, "processed") => RowOf(k, m, "processed")')
    BY <2>1, <2>2 DEF RowOf
  <2> QED BY <1>1, <2>1, <2>3, LaterStays DEF Final
<1>3. CASE WarmWrite(w) \/ WriteProcessed(w)
  <2>1. CASE m = work[w].m
    BY <1>3, <2>1, FinalWrites
  <2> QED BY <1>2, <1>3, <2>1 DEF WarmWrite, WriteProcessed
<1>4. CASE WriteNew(w) \/ JudgeFailed(w) \/ Forget(w)
  <2>1. m # work[w].m
    BY <1>4
  <2>2. CASE WriteNew(w)
    BY <1>2, <2>1, <2>2 DEF WriteNew
  <2>3. CASE JudgeFailed(w) \/ Forget(w)
    <3>1. /\ UNCHANGED <<log, buf, flying, ticked, durable>>
          /\ db' = Delete(db, Row(work[w].m, "new", FALSE)) \/ UNCHANGED db
      BY <2>3 DEF JudgeFailed, Forget, DeleteRow, txVars
    <3>2. Pending' = Pending
      BY <3>1 DEF Pending, Tx!InFlight, Tx!Numbers
    <3>3. ASSUME NEW r \in db.rows, r.id = m PROVE r \in db'.rows
      <4>1. Key(Row(work[w].m, "new", FALSE)) # Key(r)
        BY <2>1, <3>3 DEF Key, Row
      <4>2. db' = [db EXCEPT !.rows = {x \in @ : \A n \in {Row(work[w].m, "new", FALSE)} : Key(n) # Key(x)}]
              \/ UNCHANGED db
        BY <3>1 DEF Delete, DeleteMany
      <4>3. CASE UNCHANGED db
        BY <4>3
      <4>4. CASE db' = [db EXCEPT !.rows = {x \in @ : \A n \in {Row(work[w].m, "new", FALSE)} : Key(n) # Key(x)}]
        <5>1. db \in [rows : SUBSET AnyRow, keys : SUBSET Entity]
          BY <1>1 DEF StoreInv
        <5>2. db'.rows = {x \in db.rows : Key(Row(work[w].m, "new", FALSE)) # Key(x)}
          BY <4>4, <5>1
        <5> QED BY <4>1, <5>2
      <4> QED BY <4>2, <4>3, <4>4
    <3> QED BY <3>1, <3>2, <3>3 DEF Final, Later, Overtaken, RowOf
  <2> QED BY <1>4, <2>2, <2>3
<1>5. CASE Receive(w) \/ Lookup(w) \/ Create(w) \/ Check(w) \/ WarmAppend(w)
             \/ Judge(w) \/ Alert(w) \/ SetNormVector(w) \/ Keep(w)
  <2>1. UNCHANGED <<db, log, buf, flying, ticked, durable>>
    BY <1>5 DEF Receive, Lookup, Create, Check, WarmAppend, Judge, Alert,
                SetNormVector, Keep, txVars
  <2> QED BY <2>1 DEF Final, Later, Overtaken, RowOf, Pending, Tx!InFlight, Tx!Numbers
<1> QED BY <1>3, <1>4, <1>5 DEF Process

LEMMA FinalProcess ==
  ASSUME Inv, BufferInv, NEW w \in Worker, Process(w),
         NEW m \in Metric, Final(m), Arrives(m)'
  PROVE  Final(m)'
<1> HIDE DEF Arrives
<1> SUFFICES ASSUME WriteNew(w) \/ JudgeFailed(w) \/ Forget(w), m = work[w].m
             PROVE  FALSE
  BY FinalKept
<1>1. /\ work[w].at \in {"new", "error", "after"} /\ UNCHANGED data
      /\ work[w].m \in Metric
  BY Busy DEF WriteNew, WriteRow, JudgeFailed, Forget, DeleteRow
<1>2. work[w].m \notin Members(data')
  BY <1>1, Busy
<1>3. PICK v \in Worker : work'[v].m = m /\ work'[v].at = "warmAppend"
  BY <1>2 DEF Arrives
<1>4. v = w
  <2>1. CASE v # w
    <3>1. work[v].m = work[w].m
      BY <1>3, <2>1, ProcessOthers
    <3> QED BY <1>1, <2>1, <3>1 DEF Inv, PlaceInv
  <2> QED BY <2>1
<1>5. work'[w] = Idle \/ work'[w].at = "predict"
  <2>1. work \in [Worker -> WorkState]
    BY DEF Inv, TypeOK, WorkState
  <2>2. CASE WriteNew(w)
    BY <2>1, <2>2 DEF WriteNew, Goto, WorkState
  <2>3. CASE JudgeFailed(w) \/ Forget(w)
    BY <2>1, <2>3 DEF JudgeFailed, Forget, DeleteRow, Finished
  <2> QED BY <2>2, <2>3
<1> QED BY <1>3, <1>4, <1>5 DEF Idle

LEMMA FinishingStays ==
  ASSUME Inv, NEW w \in Worker, Process(w), NEW m \in Metric, Finishing(m),
         ~(WriteProcessed(w) /\ m = work[w].m)
  PROVE  Finishing(m)'
<1>1. PICK v \in Worker : work[v].m = m /\ work[v].at = "finish"
  BY DEF Finishing
<1>2. v # w
  <2>1. work[w].at = "finish" => WriteProcessed(w)
    BY DEF Process, Receive, Lookup, Create, Check, WarmWrite, WarmAppend, WriteNew,
           Judge, JudgeFailed, Alert, SetNormVector, Forget, Keep
  <2> QED BY <1>1, <2>1
<1> QED BY <1>1, <1>2, ProcessOthers DEF Finishing

LEMMA DataIsFinalStep ==
  ASSUME Inv, HandInv, BufferInv, [Next]_vars, DataIsFinal
  PROVE  DataIsFinal'
<1> SUFFICES ASSUME dropped' = {}, NEW m \in Metric, Arrives(m)'
             PROVE  Final(m)' \/ Finishing(m)'
  BY DEF DataIsFinal
<1> HIDE DEF Arrives, Final, Finishing
<1>1. CASE Crash
  <2>1. /\ work' = [v \in Worker |-> Idle] /\ data' = LoadedData(db)
        /\ UNCHANGED <<db, log>>
        /\ buf' = <<>> /\ flying' = {} /\ ticked' = <<>>
    BY <1>1 DEF Crash, Tx!Crash
  <2>2. Pending' = {}
    BY <2>1 DEF Pending, Tx!InFlight, Tx!Numbers
  <2>3. m \in Members(LoadedData(db))
    BY <2>1 DEF Arrives, Idle
  <2>4. \E r \in db.rows : r.id = m /\ IsProcessed(r)
    BY <2>3, LoadFacts DEF Inv, RowsInv
  <2> QED BY <2>1, <2>2, <2>4 DEF Final
<1>2. ASSUME NEW w \in Worker, Process(w)
      PROVE  Final(m)' \/ Finishing(m)'
  <2>1. dropped = {}
    BY <1>2 DEF Process, Receive, Lookup, Create, Check, WarmWrite, WriteNew, WriteProcessed,
       WriteRow, WarmAppend, Judge, JudgeFailed, DeleteRow, Alert, SetNormVector, Forget, Keep,
       txVars, Tx!Write
  <2>2. CASE m = work[w].m /\ (WarmWrite(w) \/ WriteProcessed(w))
    BY <2>2, FinalWrites
  <2>3. CASE m = work[w].m /\ Keep(w)
    <3>1. work'[w].at = "finish" /\ work'[w].m = m
      BY <2>3 DEF Keep, Goto, Inv, TypeOK
    <3> QED BY <3>1 DEF Finishing
  <2>4. CASE ~(m = work[w].m /\ (WarmWrite(w) \/ WriteProcessed(w) \/ Keep(w)))
    <3>1. Arrives(m)
      BY <1>2, <2>4, ArrivesComes
    <3>2. Final(m) \/ Finishing(m)
      BY <2>1, <3>1 DEF DataIsFinal
    <3> QED BY <1>2, <2>4, <3>2, FinalProcess, FinishingStays
  <2> QED BY <2>2, <2>3, <2>4
<1>3. CASE ~Crash /\ \A w \in Worker : ~Process(w)
  <2>1. dropped = {}
    BY <1>3, BufferMoves DEF RowsStay, RowsLand, RowsDrop
  <2>2. UNCHANGED work /\ (UNCHANGED data \/ data' = Append(data, <<>>))
    BY <1>3, OtherSteps
  <2>3. Members(data') = Members(data)
    BY <2>2, DatasetAdded DEF Inv, PlaceInv
  <2>4. Arrives(m)
    <3> HIDE DEF Members
    <3> QED BY <2>2, <2>3 DEF Arrives
  <2>5. Final(m) \/ Finishing(m)
    BY <2>1, <2>4 DEF DataIsFinal
  <2>6. Finishing(m) => Finishing(m)'
    BY <2>2 DEF Finishing
  <2> QED BY <1>3, <2>5, <2>6, FinalBuffer
<1> QED BY <1>1, <1>2, <1>3

LEMMA DataIsFinalInit == Init => DataIsFinal
<1> SUFFICES ASSUME Init, NEW m \in Metric, Arrives(m) PROVE Final(m)
  BY DEF DataIsFinal
<1>1. StoreInv(db)
  BY InitInv DEF Inv, RowsInv
<1>2. m \in Members(LoadedData(db)) /\ Pending = {}
  BY DEF Init, Arrives, Idle, Tx!Init, Pending, Tx!InFlight, Tx!Numbers
<1> QED BY <1>1, <1>2, LoadFacts DEF Final

-----------------------------------------------------------------------------
(* What bulkLoad makes of an entity it finds: one predictor, with a        *)
(* dataset of its processed metrics and of no other entity's.              *)
LEMMA LoadedHome ==
  ASSUME NEW d, StoreInv(d), NEW e \in Entity, Loaded(d, e) # {},
         NEW p, p = LoadedPredictors(d)[e]
  PROVE  /\ p \in DOMAIN LoadedData(d)
         /\ ToSet(LoadedData(d)[p]) = Ids({r \in Loaded(d, e) : IsProcessed(r)})
         /\ \A m \in ToSet(LoadedData(d)[p]) : EntityOf[m] = e
         /\ \A i \in DOMAIN LoadedData(d) :
              i # p => \A m \in ToSet(LoadedData(d)[i]) : EntityOf[m] # e
         /\ \A f \in Entity : f # e => LoadedPredictors(d)[f] # p
<1> DEFINE L == LoadedEntities(d)
<1>1. /\ ToSet(L) = LoadedFrom(d) /\ IsInjective(L)
      /\ DOMAIN L = 1 .. Len(L) /\ Len(L) \in Nat
  BY LoadedList
<1>2. DOMAIN LoadedData(d) = DOMAIN L
  BY DEF LoadedData
<1>3. ASSUME NEW i \in DOMAIN L
      PROVE  ToSet(LoadedData(d)[i]) = Ids({r \in Loaded(d, L[i]) : IsProcessed(r)})
  BY LoadedDataset
<1>4. ASSUME NEW i \in DOMAIN L, NEW m \in ToSet(LoadedData(d)[i])
      PROVE  EntityOf[m] = L[i]
  <2>1. PICK r \in Loaded(d, L[i]) : r.id = m
    BY <1>3 DEF Ids
  <2>2. r \in d.rows /\ r.entity = L[i] /\ d.rows \subseteq AnyRow
    BY LoadedRows DEF StoreInv
  <2> QED BY <2>1, <2>2, RowFacts
<1>5. ASSUME NEW f \in Entity, Loaded(d, f) # {}
      PROVE  LoadedPredictors(d)[f] \in DOMAIN L /\ L[LoadedPredictors(d)[f]] = f
  <2>1. LoadedPredictors(d)[f] = CHOOSE i \in DOMAIN L : L[i] = f
    BY <1>5 DEF LoadedPredictors
  <2>2. \E i \in DOMAIN L : L[i] = f
    BY <1>1, <1>5 DEF ToSet, LoadedFrom
  <2> QED BY <2>1, <2>2
<1>6. p \in DOMAIN L /\ L[p] = e
  BY <1>5
<1>7. \A i \in DOMAIN L : i # p => L[i] # e
  BY <1>1, <1>6 DEF IsInjective
<1>8. ASSUME NEW f \in Entity, f # e PROVE LoadedPredictors(d)[f] # p
  <2>1. CASE Loaded(d, f) = {}
    <3>1. LoadedPredictors(d)[f] = 0
      BY <2>1 DEF LoadedPredictors
    <3> QED BY <1>1, <1>6, <3>1
  <2>2. CASE Loaded(d, f) # {}
    BY <1>5, <1>6, <1>8, <2>2
  <2> QED BY <2>1, <2>2
<1> HIDE DEF L
<1> QED BY <1>2, <1>3, <1>4, <1>6, <1>7, <1>8

(* The store at the first start: a processed row for each stored metric.   *)
LEMMA StoredRows ==
  /\ StoredDB.rows = {Row(m, "processed", FALSE) : m \in Stored}
  /\ Ids(StoredDB.rows) = Stored
  /\ StoredDB.keys = {EntityOf[m] : m \in Stored}
<1> DEFINE T == {Row(m, "processed", FALSE) : m \in Stored}
           f == [m \in Stored |-> Row(m, "processed", FALSE)]
           b == SetToSeq(T)
<1>1. IsFiniteSet(Stored) /\ Stored \subseteq Metric /\ f \in Surjection(Stored, T)
  BY StoredAssumption DEF Surjection
<1>2. IsFiniteSet(T)
  BY <1>1, FS_Surjection
<1>3. ASSUME NEW m \in Stored
      PROVE  /\ Row(m, "processed", FALSE).id = m
             /\ Row(m, "processed", FALSE).entity = EntityOf[m]
  BY DEF Row
<1>4. b \in Seq(T) /\ ToSet(b) = T /\ IsInjective(b)
  BY <1>2, SetToSeqFacts
<1>5. DOMAIN b = 1 .. Len(b) /\ Len(b) \in Nat /\ \A i \in DOMAIN b : b[i] \in T
  <2> HIDE DEF T, b
  <2> QED BY <1>4
<1>6. \A x, y \in T : x.id = y.id => x = y
  BY <1>3
<1>7. ASSUME NEW x \in T PROVE x.id \in Stored /\ x.entity = EntityOf[x.id]
  <2>1. PICK m \in Stored : x = Row(m, "processed", FALSE)
    OBVIOUS
  <2> QED BY <1>3, <2>1
<1>8. StoredDB.rows = {} \cup LastPut(b)
      /\ StoredDB.keys = IF b # <<>> THEN {b[1].entity} ELSE {}
  BY DEF StoredDB, AppendMany, EmptyDB
<1> HIDE DEF T, b
<1>9. LastPut(b) = T
  <2>1. ASSUME NEW i \in DOMAIN b, NEW j \in DOMAIN b, Key(b[j]) = Key(b[i])
        PROVE  j <= i
    <3>1. b[i] = b[j]
      BY <1>5, <1>6, <2>1 DEF Key
    <3>2. i = j
      BY <1>4, <3>1 DEF IsInjective
    <3> QED BY <1>5, <3>2
  <2>2. LastPut(b) = {b[i] : i \in DOMAIN b}
    BY <2>1 DEF LastPut
  <2> QED BY <1>4, <2>2 DEF ToSet
<1>10. Ids(T) = Stored
  BY <1>3 DEF T, Ids
<1>11. StoredDB.keys = {EntityOf[m] : m \in Stored}
  <2>1. CASE b = <<>>
    <3>1. T = {}
      BY <1>4, <2>1 DEF ToSet
    <3>2. Stored = {}
      BY <1>10, <3>1 DEF Ids
    <3> QED BY <1>8, <2>1, <3>2
  <2>2. CASE b # <<>>
    <3>1. 1 \in DOMAIN b
      BY <1>4, <2>2, <1>5
    <3>2. b[1].id \in Stored /\ b[1].entity = EntityOf[b[1].id]
      BY <1>5, <1>7, <3>1
    <3>3. \A m \in Stored : EntityOf[m] = EntityOf[b[1].id]
      BY <3>2, StoredAssumption
    <3> QED BY <1>8, <2>2, <3>2, <3>3
  <2> QED BY <2>1, <2>2
<1> QED BY <1>8, <1>9, <1>10, <1>11 DEF T

(* A processed metric of an entity that is listed is read back.            *)
LEMMA LoadedMember ==
  ASSUME NEW d, StoreInv(d), NEW r \in d.rows, IsProcessed(r), r.entity \in d.keys
  PROVE  r.id \in Members(LoadedData(d))
<1>1. r \in AnyRow /\ r.entity \in Entity
  BY RowFacts DEF StoreInv
<1>2. r \in Loaded(d, r.entity)
  BY DEF Loaded, FindAll
<1>3. r.id \in Ids({x \in Loaded(d, r.entity) : IsProcessed(x)})
  BY <1>2 DEF Ids
<1> DEFINE p == LoadedPredictors(d)[r.entity]
<1>4. p \in DOMAIN LoadedData(d) /\ r.id \in ToSet(LoadedData(d)[p])
  BY <1>1, <1>2, <1>3, LoadedHome
<1> HIDE DEF p
<1> QED BY <1>4 DEF Members

LEMMA InitRowsArrive == Init => RowsArrive(Metric)
<1> SUFFICES ASSUME Init, NEW r \in Rows PROVE Arrives(r.id)
  BY DEF RowsArrive
<1>1. StoreInv(StoredDB) /\ data = LoadedData(StoredDB) /\ db = StoredDB
  BY InitInv DEF Init, Inv, RowsInv
<1>2. r \in StoredDB.rows
  BY <1>1 DEF Init, Rows, Pending, Tx!Init, Tx!InFlight, Tx!Numbers
<1>3. PICK m \in Stored : r = Row(m, "processed", FALSE)
  BY <1>2, StoredRows
<1>4. IsProcessed(r) /\ r.entity \in StoredDB.keys
  BY <1>3, StoredRows DEF Row, IsProcessed
<1>5. r.id \in Members(LoadedData(StoredDB))
  BY <1>1, <1>2, <1>4, LoadedMember
<1> HIDE DEF Members
<1> QED BY <1>1, <1>5 DEF Arrives

(* A restart brings back what arrived, if the entity is listed.            *)
LEMMA CrashRowsArrive ==
  ASSUME Inv, Crash, NEW e \in Entity, db.rows = {} \/ e \in db.keys
  PROVE  RowsArrive(OfEntity(e))'
<1>1. /\ data' = LoadedData(db) /\ UNCHANGED db /\ StoreInv(db)
      /\ buf' = <<>> /\ flying' = {} /\ ticked' = <<>>
  BY DEF Crash, Tx!Crash, Inv, RowsInv
<1>2. Rows' = db.rows
  BY <1>1 DEF Rows, Pending, Tx!InFlight, Tx!Numbers
<1>3. ASSUME NEW r \in db.rows, r.id \in OfEntity(e), IsProcessed(r)
      PROVE  r.id \in Members(data')
  <2>1. r.entity = e
    BY <1>1, <1>3, RowFacts DEF StoreInv, OfEntity
  <2> HIDE DEF Members
  <2> QED BY <1>1, <1>3, <2>1, LoadedMember
<1> HIDE DEF Members
<1> QED BY <1>2, <1>3 DEF RowsArrive, Due, Retained, Arrives

-----------------------------------------------------------------------------
(* Which entities are read back: at most one is ever listed.               *)

(* The bucket of keys lists an entity as soon as there is a row.           *)
Listed == db.rows # {} => db.keys # {}

LEMMA ListedStays ==
  ASSUME StoreInv(db), Listed
  PROVE  /\ \A b \in Seq(AnyRow) : AppendMany(db, b).rows # {} => AppendMany(db, b).keys # {}
         /\ \A m : Delete(db, m).rows # {} => Delete(db, m).keys # {}
<1>1. ASSUME NEW b \in Seq(AnyRow), AppendMany(db, b).rows # {}
      PROVE  AppendMany(db, b).keys # {}
  <2>1. /\ AppendMany(db, b).rows \subseteq db.rows \cup LastPut(b)
        /\ AppendMany(db, b).keys = IF db.keys = {} /\ b # <<>> THEN {b[1].entity} ELSE db.keys
    BY DEF AppendMany
  <2>2. b = <<>> => LastPut(b) = {}
    BY DEF LastPut
  <2> QED BY <1>1, <2>1, <2>2 DEF Listed
<1>2. ASSUME NEW m, Delete(db, m).rows # {}
      PROVE  Delete(db, m).keys # {}
  BY <1>2 DEF Listed, Delete, DeleteMany, StoreInv
<1> QED BY <1>1, <1>2

LEMMA ListedStep ==
  Inv /\ BufferInv /\ [Next]_vars /\ Listed => Listed'
<1> SUFFICES ASSUME Inv, BufferInv, [Next]_vars, Listed PROVE Listed'
  OBVIOUS
<1>1. CASE UNCHANGED db
  BY <1>1 DEF Listed
<1>2. ASSUME NEW b \in flying \cup {ticked}, db' = AppendMany(db, RowsOf(b))
      PROVE  Listed'
  <2>1. RowsOf(b) \in Seq(AnyRow) /\ StoreInv(db)
    BY LandedRows DEF Inv, RowsInv
  <2> QED BY <1>2, <2>1, ListedStays DEF Listed
<1>3. ASSUME NEW w \in Worker, Process(w) PROVE Listed'
  <2>1. CASE JudgeFailed(w) \/ Forget(w)
    BY <1>1, <2>1, ListedStays DEF JudgeFailed, Forget, DeleteRow, Listed, Inv, RowsInv
  <2>2. CASE ~(JudgeFailed(w) \/ Forget(w))
    <3>1. UNCHANGED db
      BY <1>3, <2>2 DEF Process, Receive, Lookup, Create, Check, WarmWrite, WriteNew,
         WriteProcessed, WriteRow, WarmAppend, Judge, Alert, SetNormVector, Keep
    <3> QED BY <1>1, <3>1
  <2> QED BY <2>1, <2>2
<1>4. CASE Crash
  BY <1>1, <1>4 DEF Crash
<1>5. CASE ~Crash /\ \A w \in Worker : ~Process(w)
  BY <1>1, <1>2, <1>5, BufferMoves DEF RowsStay, RowsLand, RowsDrop
<1> QED BY <1>3, <1>4, <1>5

(* An entity is read back for good, or never, once one is listed.          *)
LEMMA KeysStay ==
  ASSUME Inv, BufferInv, [Next]_vars
  PROVE  db.keys # {} => db'.keys = db.keys
<1>1. ASSUME NEW w \in Worker, Process(w) PROVE db'.keys = db.keys
  <2>1. CASE JudgeFailed(w) \/ Forget(w)
    <3>1. db \in [rows : SUBSET AnyRow, keys : SUBSET Entity]
      BY DEF Inv, TypeOK
    <3> QED BY <2>1, <3>1 DEF JudgeFailed, Forget, DeleteRow, Delete, DeleteMany
  <2>2. CASE ~(JudgeFailed(w) \/ Forget(w))
    BY <1>1, <2>2 DEF Process, Receive, Lookup, Create, Check, WarmWrite, WriteNew,
       WriteProcessed, WriteRow, WarmAppend, Judge, Alert, SetNormVector, Keep
  <2> QED BY <2>1, <2>2
<1>2. CASE Crash
  BY <1>2 DEF Crash
<1>3. CASE ~Crash /\ \A w \in Worker : ~Process(w)
  <2>1. \A b : db.keys # {} => AppendMany(db, b).keys = db.keys
    BY DEF AppendMany
  <2> QED BY <1>3, <2>1, BufferMoves DEF RowsStay, RowsLand, RowsDrop
<1> QED BY <1>1, <1>2, <1>3

KeyInv == Listed /\ \A e, f \in db.keys : e = f

LEMMA KeyStep == Inv /\ BufferInv /\ [Next]_vars /\ KeyInv => KeyInv'
<1> SUFFICES ASSUME Inv, BufferInv, [Next]_vars, KeyInv PROVE KeyInv'
  OBVIOUS
<1>1. Listed'
  BY ListedStep DEF KeyInv
<1>2. CASE db.keys # {}
  BY <1>1, <1>2, KeysStay DEF KeyInv
<1>3. CASE db.keys = {} /\ db'.keys = {}
  BY <1>1, <1>3 DEF KeyInv
<1>4. CASE db.keys = {} /\ db'.keys # {}
  <2>1. \A b : db.keys = {} => AppendMany(db, b).keys = IF b # <<>> THEN {b[1].entity} ELSE {}
    BY DEF AppendMany
  <2>2. db \in [rows : SUBSET AnyRow, keys : SUBSET Entity]
    BY DEF Inv, TypeOK
  <2>3. \A w \in Worker : ~Process(w)
    <3>1. ASSUME NEW w \in Worker, JudgeFailed(w) \/ Forget(w) PROVE db'.keys = db.keys
      BY <2>2, <3>1 DEF JudgeFailed, Forget, DeleteRow, Delete, DeleteMany
    <3>2. ASSUME NEW w \in Worker, Process(w), ~(JudgeFailed(w) \/ Forget(w)) PROVE UNCHANGED db
      BY <3>2 DEF Process, Receive, Lookup, Create, Check, WarmWrite, WriteNew,
         WriteProcessed, WriteRow, WarmAppend, Judge, Alert, SetNormVector, Keep
    <3> QED BY <1>4, <3>1, <3>2
  <2>4. ~Crash
    BY <1>4 DEF Crash
  <2>5. \E b : db' = AppendMany(db, b)
    BY <1>4, <2>3, <2>4, BufferMoves DEF RowsStay, RowsLand, RowsDrop
  <2>6. \A e, f \in db'.keys : e = f
    <3>1. PICK b : db' = AppendMany(db, b)
      BY <2>5
    <3>2. db'.keys = {} \/ db'.keys = {b[1].entity}
      BY <1>4, <2>1, <3>1
    <3> QED BY <3>2
  <2> QED BY <1>1, <2>6 DEF KeyInv
<1> QED BY <1>2, <1>3, <1>4

LEMMA KeyInit == Init => KeyInv
<1> SUFFICES ASSUME Init PROVE KeyInv
  OBVIOUS
<1>1. db.rows # {} => Stored # {}
  BY StoredRows DEF Init
<1>2. db.keys = {EntityOf[m] : m \in Stored}
  BY StoredRows DEF Init
<1> QED BY <1>1, <1>2, StoredAssumption DEF KeyInv, Listed

LEMMA KeyAlways == Spec => []KeyInv
BY KeyInit, KeyStep, InvAlways, BufferAlways, PTL DEF Spec

(* With one entity, bulkLoad does get all metrics that are in the storage. *)
(* (With two it does not: see the findings.)                               *)
THEOREM OneEntityIsLoaded ==
  (\A e, f \in Entity : e = f) => (Spec => BulkLoadIsComplete)
<1> SUFFICES ASSUME \A e, f \in Entity : e = f
             PROVE  Spec => BulkLoadIsComplete
  OBVIOUS
<1>1. Init => Listed
  BY KeyInit DEF KeyInv
<1>2. ASSUME Inv, Listed, Crash
      PROVE  Ids(db.rows) \subseteq InDatasets' \cup UNION {ToSet(queue'[e]) : e \in Entity}
  <2>1. /\ data' = LoadedData(db) /\ queue' = LoadedQueue(db) /\ StoreInv(db)
    BY <1>2 DEF Crash, Inv, RowsInv
  <2>2. ASSUME NEW r \in db.rows
        PROVE  r.id \in Members(LoadedData(db)) \/ r.id \in ToSet(LoadedQueue(db)[r.entity])
    <3>1. r \in AnyRow /\ r.entity \in Entity /\ db.keys \subseteq Entity
      BY <2>1, RowFacts DEF StoreInv
    <3>2. r.entity \in db.keys
      BY <1>2, <3>1 DEF Listed
    <3>3. IsProcessed(r) \/ IsNew(r)
      BY <3>1 DEF AnyRow, Row, IsProcessed, IsNew
    <3>4. CASE IsProcessed(r)
      BY <2>1, <3>2, <3>4, LoadedMember
    <3>5. CASE IsNew(r)
      <4> DEFINE T == {x \in Loaded(db, r.entity) : IsNew(x)}
      <4>1. r \in T
        BY <3>2, <3>5 DEF Loaded, FindAll
      <4>2. LoadedQueue(db)[r.entity] = SetToSeq(Ids(T))
        BY <3>1 DEF LoadedQueue
      <4>3. IsFiniteSet(Ids(T))
        BY <2>1, LoadedRows
      <4>4. r.id \in Ids(T)
        BY <4>1 DEF Ids
      <4> HIDE DEF T
      <4> QED BY <4>2, <4>3, <4>4, SetToSeqFacts
    <3> QED BY <3>3, <3>4, <3>5
  <2>3. InDatasets' = Members(LoadedData(db))
    BY <2>1 DEF InDatasets, Members
  <2>4. \A r \in db.rows : r.entity \in Entity
    BY <2>1, RowFacts DEF StoreInv
  <2> HIDE DEF Members
  <2> QED BY <2>1, <2>2, <2>3, <2>4 DEF Ids
<1>3. Inv /\ Listed /\ [Next]_vars
        => [Crash => Ids(db.rows) \subseteq
                       InDatasets' \cup UNION {ToSet(queue'[e]) : e \in Entity}]_vars
  BY <1>2
<1> QED BY <1>1, <1>3, ListedStep, InvAlways, BufferAlways, PTL DEF Spec, BulkLoadIsComplete

-----------------------------------------------------------------------------
(* The datasets and the store agree, when all work is done.                *)

(* What arrived, of the entity that is listed, or of any while none is.    *)
ListedArrive ==
  \A e \in Entity : db.keys \subseteq {e} => RowsArrive(OfEntity(e))

LEMMA ListedArriveStep ==
  Inv /\ HandInv /\ BufferInv /\ KeyInv /\ [Next]_vars /\ ListedArrive => ListedArrive'
<1> SUFFICES ASSUME Inv, HandInv, BufferInv, KeyInv, [Next]_vars, ListedArrive,
                    NEW e \in Entity, db'.keys \subseteq {e}
             PROVE  RowsArrive(OfEntity(e))'
  BY DEF ListedArrive, Entity
<1>1. db.keys \subseteq {e}
  BY KeysStay
<1>2. CASE Crash
  <2>1. db.rows = {} \/ e \in db.keys
    BY <1>1 DEF KeyInv, Listed
  <2> QED BY <1>2, <2>1, CrashRowsArrive
<1>3. CASE ~Crash
  <2>1. OfEntity(e) \in SUBSET Metric
    BY DEF OfEntity
  <2> QED BY <1>1, <1>3, <2>1, RowsArriveStep DEF ListedArrive
<1> QED BY <1>2, <1>3

LEMMA ListedArriveAlways == Spec => []ListedArrive
<1>1. Init => ListedArrive
  <2>1. \A e : OfEntity(e) \subseteq Metric
    BY DEF OfEntity
  <2> QED BY <2>1, InitRowsArrive DEF ListedArrive, RowsArrive
<1> QED BY <1>1, ListedArriveStep, InvAlways, HandAlways, BufferAlways, KeyAlways, PTL DEF Spec

LEMMA DataIsFinalAlways == Spec => []DataIsFinal
<1>1. Inv /\ HandInv /\ BufferInv /\ [Next]_vars /\ DataIsFinal => DataIsFinal'
  BY DataIsFinalStep
<1> QED BY <1>1, DataIsFinalInit, InvAlways, HandAlways, BufferAlways, PTL DEF Spec

LEMMA DataFacts ==
  ASSUME Inv, KeyInv, DataIsFinal, ListedArrive
  PROVE  DatasetIsStored
<1> SUFFICES ASSUME Quiescent, dropped = {}
             PROVE  /\ \A m \in InDatasets :
                         \E r \in db.rows : r.id = m /\ (IsProcessed(r) \/ Overtaken(m))
                    /\ \A r \in FindAll(db) : Retained(r) => r.id \in InDatasets
  BY DEF DatasetIsStored
<1>1. Pending = {}
  BY DEF Quiescent, Pending, Tx!InFlight, Tx!Numbers
<1>2. \A w \in Worker : work[w].at = "idle"
  BY DEF Quiescent, Idle
<1>3. InDatasets = Members(data)
  BY DEF InDatasets, Members
<1>4. Members(data) \subseteq Metric
  BY DEF Inv, TypeOK, PlaceInv
<1>5. ASSUME NEW m \in Members(data)
      PROVE  \E r \in db.rows : r.id = m /\ (IsProcessed(r) \/ Overtaken(m))
  <2> HIDE DEF Members
  <2>1. Final(m)
    BY <1>2, <1>4, <1>5 DEF DataIsFinal, Arrives, Finishing
  <2> QED BY <1>1, <2>1 DEF Final
<1>6. ASSUME NEW r \in FindAll(db), Retained(r)
      PROVE  r.id \in Members(data)
  <2> HIDE DEF Members
  <2>1. r \in db.rows /\ r.entity \in db.keys
    BY DEF FindAll
  <2>2. r.id \in Metric /\ r.entity = EntityOf[r.id] /\ r.entity \in Entity
    BY <2>1, RowFacts DEF Inv, RowsInv, StoreInv
  <2>3. RowsArrive(OfEntity(r.entity))
    BY <2>1, <2>2 DEF ListedArrive, KeyInv
  <2>4. Arrives(r.id)
    BY <1>6, <2>1, <2>2, <2>3 DEF RowsArrive, Due, Rows, OfEntity
  <2> QED BY <1>2, <2>4 DEF Arrives
<1> QED BY <1>3, <1>5, <1>6

(* Through all crashes and restarts, in every configuration, for any flush *)
(* size and with batches that overtake each other: when all work is done   *)
(* and every append succeeded, a metric of a dataset has a row that says   *)
(* processed, or rows that were accepted out of order; and a processed     *)
(* metric of the listed entity is in a dataset, if it is to be kept.       *)
THEOREM DatasetIsAlwaysStored == Spec => []DatasetIsStored
<1>1. Inv /\ KeyInv /\ DataIsFinal /\ ListedArrive => DatasetIsStored
  BY DataFacts
<1> QED BY <1>1, InvAlways, KeyAlways, DataIsFinalAlways, ListedArriveAlways, PTL

-----------------------------------------------------------------------------
(* What becomes of a metric: it is queued, in the hands of a worker that   *)
(* has yet to write its last row, or the verdict on it ended the analysis. *)

InQueue(m) == m \in ToSet(queue[EntityOf[m]])
Underway(m) == \E w \in Worker : work[w].m = m /\ work[w].at # "warmAppend"
Traced(m) == InQueue(m) \/ Underway(m) \/ Excused(m)

(* A worker that is about to delete a metric for an error met one.         *)
ErrorInv == \A w \in Worker : work[w].at = "error" => judged[work[w].m] = "error"

LEMMA ErrorStep == Inv /\ ErrorInv /\ [Next]_vars => ErrorInv'
<1> SUFFICES ASSUME Inv, ErrorInv, [Next]_vars, NEW v \in Worker, work'[v].at = "error"
             PROVE  judged'[work'[v].m] = "error"
  BY DEF ErrorInv
<1>1. work \in [Worker -> WorkState] /\ judged \in [Metric -> {None, "outlier", "normal", "error"}]
  BY DEF Inv, TypeOK, WorkState
<1>2. ~Crash
  BY DEF Crash, Idle
<1>3. CASE \A w \in Worker : ~Process(w)
  BY <1>2, <1>3, OtherSteps DEF ErrorInv
<1>4. ASSUME NEW w \in Worker, Process(w), v # w PROVE judged'[work'[v].m] = "error"
  <2>1. work'[v] = work[v] /\ work[v].m \in Metric
    BY <1>4, ProcessOthers, Busy
  <2>2. work[v].m # work[w].m
    BY <1>4, <2>1 DEF Inv, PlaceInv
  <2> QED BY <1>4, <2>1, <2>2, ProcessJudged DEF ErrorInv
<1>5. CASE Judge(v)
  <2>1. PICK u \in {"outlier", "normal", "error"} :
          /\ work' = [work EXCEPT ![v].at = u, ![v].outlier = (u = "outlier")]
          /\ judged' = [judged EXCEPT ![work[v].m] = u]
    BY <1>5 DEF Judge
  <2>2. work'[v].at = u /\ work'[v].m = work[v].m
    BY <1>1, <2>1, ZenonT(60) DEF WorkState
  <2>3. work[v].m \in Metric
    BY <1>5, Busy DEF Judge
  <2> QED BY <1>1, <2>1, <2>2, <2>3
<1>6. CASE Process(v) /\ ~Judge(v)
  <2>1. CASE Receive(v)
    BY <2>1, ReceiveFacts
  <2>2. CASE Lookup(v) \/ Create(v) \/ Alert(v)
    <3>1. work'[v].at \in {"create", "check", "after"}
      BY <1>1, <2>2, ZenonT(60) DEF Lookup, Create, Alert, WorkState
    <3> QED BY <3>1
  <2>3. CASE Check(v) \/ WarmWrite(v) \/ WriteNew(v) \/ SetNormVector(v) \/ Keep(v)
    <3>1. work'[v].at \in {"warm", "new", "warmAppend", "predict", "after", "finish"}
      BY <1>1, <2>3 DEF Check, WarmWrite, WriteNew, SetNormVector, Keep, Goto, WorkState
    <3> QED BY <3>1
  <2>4. CASE WarmAppend(v) \/ JudgeFailed(v) \/ Forget(v) \/ WriteProcessed(v)
    <3>1. work'[v] = Idle
      BY <1>1, <2>4 DEF WarmAppend, JudgeFailed, Forget, DeleteRow, WriteProcessed,
                        Finished, WorkState
    <3> QED BY <3>1 DEF Idle
  <2> QED BY <1>6, <2>1, <2>2, <2>3, <2>4 DEF Process
<1> QED BY <1>3, <1>4, <1>5, <1>6

LEMMA ErrorAlways == Spec => []ErrorInv
<1>1. Init => ErrorInv
  BY DEF Init, ErrorInv, Idle
<1> QED BY <1>1, ErrorStep, InvAlways, PTL DEF Spec

(* What a worker receives is all that leaves the queue.                    *)
LEMMA ReceiveTakes ==
  ASSUME Inv, NEW w \in Worker, Receive(w), NEW m \in Metric, InQueue(m)
  PROVE  InQueue(m)' \/ Underway(m)'
<1> DEFINE e == WorksFor[w]
<1>1. /\ e \in Entity /\ EntityOf[m] \in Entity /\ queue \in [Entity -> Seq(Metric)]
      /\ queue' = [queue EXCEPT ![e] = Tail(@)] /\ queue[e] # <<>>
      /\ work' = [work EXCEPT ![w].at = "lookup", ![w].m = Head(queue[e])]
      /\ work \in [Worker -> WorkState]
  BY WorkerAssumption DEF Inv, TypeOK, WorkState, Receive, Entity
<1>2. CASE EntityOf[m] # e
  BY <1>1, <1>2 DEF InQueue
<1>3. CASE EntityOf[m] = e /\ m = Head(queue[e])
  <2>1. work'[w].m = m /\ work'[w].at = "lookup"
    BY <1>1, <1>3, ZenonT(60) DEF WorkState
  <2> QED BY <2>1 DEF Underway
<1>4. CASE EntityOf[m] = e /\ m # Head(queue[e])
  <2> DEFINE q == queue[e]
  <2>1. q \in Seq(Metric) /\ q # <<>> /\ queue'[e] = Tail(q)
    BY <1>1
  <2>2. PICK i \in DOMAIN q : q[i] = m
    BY <1>4 DEF InQueue, ToSet
  <2>3. i \in 1 .. Len(q) /\ i # 1 /\ Len(q) \in Nat
    BY <1>4, <2>1, <2>2
  <2>4. i - 1 \in DOMAIN Tail(q) /\ Tail(q)[i - 1] = q[i]
    <3> HIDE DEF q
    <3> QED BY <2>1, <2>3
  <2>5. m \in ToSet(Tail(q))
    <3> HIDE DEF q
    <3> QED BY <2>2, <2>4, Zenon DEF ToSet
  <2> QED BY <1>4, <2>1, <2>5 DEF InQueue
<1> QED BY <1>2, <1>3, <1>4

(* The analysis of a metric ends with a processed row, or with a verdict.  *)
LEMMA TracedProcess ==
  ASSUME Inv, HandInv, ErrorInv, NEW w \in Worker, Process(w),
         NEW m \in Metric, Traced(m)
  PROVE  Traced(m)' \/ (m = work[w].m /\ (WarmWrite(w) \/ WriteProcessed(w)))
<1>1. work \in [Worker -> WorkState] /\ judged \in [Metric -> {None, "outlier", "normal", "error"}]
  BY DEF Inv, TypeOK, WorkState
<1>2. CASE InQueue(m)
  <2>1. CASE Receive(w)
    BY <1>2, <2>1, ReceiveTakes DEF Traced
  <2>2. CASE ~Receive(w)
    <3>1. UNCHANGED queue
      BY <2>2 DEF Process, Lookup, Create, Check, WarmWrite, WriteNew, WriteProcessed,
         WriteRow, WarmAppend, Judge, JudgeFailed, DeleteRow, Alert, SetNormVector, Forget, Keep
    <3> QED BY <1>2, <3>1 DEF Traced, InQueue
  <2> QED BY <2>1, <2>2
<1>3. CASE m # work[w].m /\ (Underway(m) \/ Excused(m))
  <2>1. judged'[m] = judged[m]
    BY <1>3, ProcessJudged
  <2>2. \A v \in Worker : work[v].m = m => work'[v] = work[v]
    BY <1>3, ProcessOthers
  <2> QED BY <1>3, <2>1, <2>2 DEF Traced, Underway, Excused
<1>4. CASE m = work[w].m
  <2>1. ~Receive(w)
    BY <1>4, WorkerAssumption DEF Receive, Inv, WorkInv, Idle
  <2>2. work[w].at # "idle" /\ (work'[w] = Idle \/ work'[w].m = m)
    BY <1>4, <2>1, StepMoves DEF Moves
  <2>3. CASE work'[w].m = m /\ work'[w].at # "warmAppend"
    BY <2>3 DEF Traced, Underway
  <2>4. CASE WarmWrite(w) \/ WriteProcessed(w)
    BY <1>4, <2>4
  <2>5. CASE JudgeFailed(w) \/ Forget(w)
    <3>1. judged[m] = "error" \/ (~AllowAppendData /\ judged[m] # None)
      BY <1>4, <2>5 DEF JudgeFailed, Forget, ErrorInv, HandInv, Hand
    <3>2. UNCHANGED judged
      BY <2>5 DEF JudgeFailed, Forget, DeleteRow
    <3> QED BY <3>1, <3>2 DEF Traced, Excused
  <2>6. CASE WarmAppend(w)
    <3>1. ~InQueue(m)
      BY <1>2, <1>4 DEF Inv, PlaceInv, InQueue, Entity
    <3>2. UNCHANGED judged /\ work[w].at = "warmAppend"
      BY <2>6 DEF WarmAppend
    <3>3. ~Underway(m)
      BY <1>4, <3>2 DEF Underway, Inv, PlaceInv
    <3> QED BY <3>1, <3>2, <3>3 DEF Traced, Excused
  <2>7. CASE Judge(w)
    <3>1. PICK u \in {"outlier", "normal", "error"} :
            work' = [work EXCEPT ![w].at = u, ![w].outlier = (u = "outlier")]
      BY <2>7 DEF Judge
    <3>2. work'[w].at = u /\ work'[w].m = work[w].m
      BY <1>1, <3>1, ZenonT(60) DEF WorkState
    <3> QED BY <1>4, <2>3, <3>2
  <2>8. CASE Lookup(w) \/ Create(w) \/ Alert(w)
    <3>1. work'[w].at \in {"create", "check", "after"} /\ work'[w].m = work[w].m
      BY <1>1, <2>8, ZenonT(120) DEF Lookup, Create, Alert, WorkState
    <3> QED BY <1>4, <2>3, <3>1
  <2>9. CASE Check(w) \/ WriteNew(w) \/ SetNormVector(w) \/ Keep(w)
    <3>1. work'[w].at \in {"warm", "new", "predict", "after", "finish"} /\ work'[w].m = work[w].m
      BY <1>1, <2>9 DEF Check, WriteNew, SetNormVector, Keep, Goto, WorkState
    <3> QED BY <1>4, <2>3, <3>1
  <2> QED BY <2>1, <2>4, <2>5, <2>6, <2>7, <2>8, <2>9 DEF Process
<1> QED BY <1>2, <1>3, <1>4 DEF Traced

(* No other step but a crash touches what is traced.                       *)
LEMMA TracedOthers ==
  ASSUME Inv, [Next]_vars, ~Crash, \A w \in Worker : ~Process(w),
         NEW m \in Metric, Traced(m)
  PROVE  Traced(m)'
<1>1. UNCHANGED <<work, judged>>
  BY OtherSteps
<1>2. InQueue(m) => InQueue(m)'
  <2>1. ASSUME NEW n \in Metric, Collect(n), InQueue(m) PROVE InQueue(m)'
    <3>1. /\ queue \in [Entity -> Seq(Metric)] /\ EntityOf[m] \in Entity
          /\ queue' = [queue EXCEPT ![EntityOf[n]] = Append(@, n)]
      BY <2>1 DEF Inv, TypeOK, Entity, Collect
    <3>2. queue'[EntityOf[m]] = IF EntityOf[m] = EntityOf[n]
                                THEN Append(queue[EntityOf[m]], n) ELSE queue[EntityOf[m]]
      BY <3>1
    <3>3. ToSet(Append(queue[EntityOf[m]], n)) = ToSet(queue[EntityOf[m]]) \cup {n}
      BY <3>1, AppendFacts
    <3> QED BY <2>1, <3>2, <3>3 DEF InQueue
  <2>2. CASE UNCHANGED queue
    BY <2>2 DEF InQueue
  <2>3. (\A n \in Metric : ~Collect(n)) => UNCHANGED queue
    BY NextCases DEF Predict, Take, Flush, Commit, Fail, Flusher, Ticking, TickCommit, Rest, Still
  <2> QED BY <2>1, <2>2, <2>3
<1> QED BY <1>1, <1>2 DEF Traced, Underway, Excused

-----------------------------------------------------------------------------
(* While the process has not died: every metric that was collected is      *)
(* traced, or has a processed row among those that were written.           *)
RowWritten(m) == \E n \in DOMAIN log : log[n].id = m /\ IsProcessed(log[n])

TraceInv ==
  crashes = 0 =>
    lost = {} /\ \A m \in collected \ Stored : Traced(m) \/ RowWritten(m)

LEMMA RowIsWritten ==
  ASSUME TypeOK, NEW w \in Worker, NEW s, WriteRow(w, s)
  PROVE  /\ \A m : RowWritten(m) => RowWritten(m)'
         /\ \A m : m = work[w].m /\ s = "processed" => RowWritten(m)'
<1> DEFINE r == Row(work[w].m, s, work[w].outlier)
<1>1. log' = Append(log, r) /\ log \in Seq(AnyRow)
  BY DEF WriteRow, TypeOK
<1>2. r.id = work[w].m /\ r.status = s
  BY DEF Row
<1> HIDE DEF r
<1>3. /\ DOMAIN log \subseteq DOMAIN log' /\ \A n \in DOMAIN log : log'[n] = log[n]
      /\ Len(log) + 1 \in DOMAIN log' /\ log'[Len(log) + 1] = r
  BY <1>1
<1>4. ASSUME NEW m, RowWritten(m) PROVE RowWritten(m)'
  <2>1. PICK n \in DOMAIN log : log[n].id = m /\ log[n].status = "processed"
    BY <1>4 DEF RowWritten, IsProcessed
  <2>2. n \in DOMAIN log' /\ log'[n].id = m /\ log'[n].status = "processed"
    BY <1>3, <2>1
  <2> QED BY <2>2 DEF RowWritten, IsProcessed
<1>5. ASSUME NEW m, m = work[w].m, s = "processed" PROVE RowWritten(m)'
  <2>1. \E n \in DOMAIN log' : log'[n].id = m /\ log'[n].status = "processed"
    BY <1>2, <1>3, <1>5
  <2> QED BY <2>1 DEF RowWritten, IsProcessed
<1> QED BY <1>4, <1>5

LEMMA LogStays ==
  ASSUME [Next]_vars
  PROVE  \/ UNCHANGED log
         \/ \E w \in Worker : \E s \in {"new", "processed"} : WriteRow(w, s) /\ Process(w)
<1>1. ASSUME NEW w \in Worker, Process(w)
      PROVE  UNCHANGED log \/ \E s \in {"new", "processed"} : WriteRow(w, s)
  BY <1>1 DEF Process, Receive, Lookup, Create, Check, WarmWrite, WriteNew, WriteProcessed,
     WarmAppend, Judge, JudgeFailed, DeleteRow, Alert, SetNormVector, Forget, Keep
<1>2. CASE \A w \in Worker : ~Process(w)
  BY <1>2, NextCases DEF Collect, Predict, Take, Flush, Commit, Fail, Flusher, Ticking,
     TickCommit, Rest, Crash, Still
<1> QED BY <1>1, <1>2

LEMMA TraceStep ==
  Inv /\ HandInv /\ ErrorInv /\ TraceInv /\ [Next]_vars => TraceInv'
<1> SUFFICES ASSUME Inv, HandInv, ErrorInv, TraceInv, [Next]_vars, crashes' = 0
             PROVE  lost' = {} /\ \A m \in collected' \ Stored : (Traced(m) \/ RowWritten(m))'
  BY DEF TraceInv
<1>1. crashes \in Nat
  BY ConfigAssumption DEF Inv, TypeOK
<1>2. ~Crash
  BY <1>1 DEF Crash
<1>3. crashes = 0
  BY <1>2, NextCases DEF Process, Receive, Lookup, Create, Check, WarmWrite, WriteNew,
     WriteProcessed, WriteRow, WarmAppend, Judge, JudgeFailed, DeleteRow, Alert,
     SetNormVector, Forget, Keep, Collect, Predict, Take, Flush, Commit, Fail, Flusher,
     Ticking, TickCommit, Rest, Still
<1>4. lost' = {}
  <2>1. UNCHANGED lost
    BY <1>2, NextCases DEF Process, Receive, Lookup, Create, Check, WarmWrite, WriteNew,
       WriteProcessed, WriteRow, WarmAppend, Judge, JudgeFailed, DeleteRow, Alert,
       SetNormVector, Forget, Keep, Collect, Predict, Take, Flush, Commit, Fail, Flusher,
       Ticking, TickCommit, Still, txVars, Tx!Write, Tx!Take, Tx!Commit, Tx!Fail, Tx!Tick,
       Tx!TickTake, Tx!TickCommit, Tx!TickFail
  <2> QED BY <1>3, <2>1 DEF TraceInv
<1>5. ASSUME NEW m, RowWritten(m) PROVE RowWritten(m)'
  <2>1. CASE UNCHANGED log
    BY <1>5, <2>1 DEF RowWritten
  <2> QED BY <1>5, <2>1, LogStays, RowIsWritten DEF Inv
<1>6. ASSUME NEW m \in collected' \ Stored PROVE (Traced(m) \/ RowWritten(m))'
  <2>1. CASE m \notin collected
    <3>1. Collect(m) /\ m \in Metric
      BY <1>2, <1>6, <2>1, NextCases DEF Process, Receive, Lookup, Create, Check, WarmWrite,
         WriteNew, WriteProcessed, WriteRow, WarmAppend, Judge, JudgeFailed, DeleteRow,
         Alert, SetNormVector, Forget, Keep, Collect, Predict, Take, Flush, Commit, Fail,
         Flusher, Ticking, TickCommit, Rest, Still
    <3>2. /\ queue \in [Entity -> Seq(Metric)] /\ EntityOf[m] \in Entity
          /\ queue' = [queue EXCEPT ![EntityOf[m]] = Append(@, m)]
      BY <3>1 DEF Inv, TypeOK, Entity, Collect
    <3>3. m \in ToSet(Append(queue[EntityOf[m]], m))
      BY <3>1, <3>2, AppendFacts
    <3> QED BY <3>2, <3>3 DEF Traced, InQueue
  <2>2. CASE m \in collected /\ Traced(m)
    <3>1. m \in Metric
      BY <2>2 DEF Inv, TypeOK
    <3>2. ASSUME NEW w \in Worker, Process(w) PROVE (Traced(m) \/ RowWritten(m))'
      <4>1. CASE m = work[w].m /\ (WarmWrite(w) \/ WriteProcessed(w))
        BY <4>1, RowIsWritten DEF WarmWrite, WriteProcessed, Inv
      <4> QED BY <2>2, <3>1, <3>2, <4>1, TracedProcess
    <3> QED BY <1>2, <2>2, <3>1, <3>2, TracedOthers
  <2>3. CASE m \in collected /\ RowWritten(m)
    BY <1>5, <2>3
  <2> QED BY <1>3, <1>6, <2>1, <2>2, <2>3 DEF TraceInv
<1> QED BY <1>4, <1>6

(* No accepted metric is forgotten: when all work is done, the analysis of *)
(* every metric that was collected has come to its end, as Settled says,   *)
(* for any number of workers and in every configuration.  This is what is  *)
(* safety in EventuallySettled; that the work gets done is liveness.       *)
THEOREM NothingIsForgotten ==
  Spec => [](Quiescent => \A m \in collected \ Stored : Settled(m))
<1>1. Inv /\ Tx!NothingMissing /\ TraceInv
        => (Quiescent => \A m \in collected \ Stored : Settled(m))
  <2> SUFFICES ASSUME Inv, Tx!NothingMissing, TraceInv, Quiescent, NEW m \in collected \ Stored
               PROVE  Settled(m)
    OBVIOUS
  <2>1. CASE crashes # 0
    BY <2>1, ConfigAssumption DEF Settled, Inv, TypeOK
  <2>2. CASE crashes = 0 /\ Traced(m)
    <3>1. m \in Metric /\ EntityOf[m] \in Entity
      BY DEF Inv, TypeOK, Entity
    <3>2. ~InQueue(m)
      BY <3>1, EmptyFacts DEF Quiescent, InQueue
    <3>3. \A w \in Worker : work[w].m # m
      BY <3>1, WorkerAssumption DEF Quiescent, Idle
    <3> QED BY <2>2, <3>2, <3>3 DEF Traced, Underway, Excused, Settled
  <2>3. CASE crashes = 0 /\ RowWritten(m)
    <3>1. PICK n \in DOMAIN log : log[n].id = m /\ IsProcessed(log[n])
      BY <2>3 DEF RowWritten
    <3>2. n \in 1 .. written
      BY DEF Inv, TypeOK
    <3>3. lost = {} /\ Tx!Numbers(buf) = {} /\ Tx!InFlight = {}
      BY <2>3 DEF TraceInv, Quiescent, Tx!Numbers, Tx!InFlight
    <3>4. n \in Tx!Numbers(durable) \cup dropped
      BY <3>2, <3>3 DEF Tx!NothingMissing, Tx!Gone
    <3> QED BY <3>1, <3>4 DEF Settled
  <2> QED BY <2>1, <2>2, <2>3 DEF TraceInv
<1>2. Init => TraceInv
  BY DEF Init, Tx!Init, TraceInv
<1> QED BY <1>1, <1>2, TraceStep, InvAlways, HandAlways, ErrorAlways,
           DispatcherAccountsForRows, PTL DEF Spec

-----------------------------------------------------------------------------
(* Through crashes: while none is dropped, a metric that has a row, in the *)
(* store or on its way there, and whose entity is listed, if any is, is    *)
(* traced, or what is written of it is final.                              *)
RowsTraced ==
  dropped = {} =>
    \A r \in Rows : db.keys \subseteq {r.entity} => Traced(r.id) \/ Final(r.id)

(* A step of process that touches the rows of a metric leaves it traced or *)
(* writes its processed row.                                               *)
LEMMA TracedOrFinal ==
  ASSUME Inv, HandInv, ErrorInv, BufferInv, NEW w \in Worker, Process(w),
         NEW m \in Metric, Traced(m) \/ Final(m)
  PROVE  Traced(m)' \/ Final(m)'
<1> HIDE DEF Traced, Final
<1>1. CASE m = work[w].m /\ (WarmWrite(w) \/ WriteProcessed(w))
  BY <1>1, FinalWrites
<1>2. CASE Traced(m)
  BY <1>1, <1>2, TracedProcess
<1>3. CASE Final(m) /\ m = work[w].m /\ (WriteNew(w) \/ JudgeFailed(w) \/ Forget(w))
  <2>1. Traced(m)
    BY <1>3 DEF Traced, Underway, WriteNew, JudgeFailed, Forget
  <2> QED BY <1>2, <2>1
<1>4. CASE Final(m) /\ ~(m = work[w].m /\ (WriteNew(w) \/ JudgeFailed(w) \/ Forget(w)))
  BY <1>4, FinalKept
<1> QED BY <1>2, <1>3, <1>4

(* A restart finds the metrics of the listed entity, the new ones go to    *)
(* its queue.                                                              *)
LEMMA LoadedTraced ==
  ASSUME Inv, KeyInv, Crash, NEW r \in Rows', db'.keys \subseteq {r.entity}
  PROVE  Traced(r.id)' \/ Final(r.id)'
<1>1. /\ queue' = LoadedQueue(db) /\ UNCHANGED db
      /\ buf' = <<>> /\ flying' = {} /\ ticked' = <<>>
  BY DEF Crash, Tx!Crash
<1>2. Rows' = db.rows /\ Pending' = {}
  BY <1>1 DEF Rows, Pending, Tx!InFlight, Tx!Numbers
<1>3. StoreInv(db) /\ r \in db.rows /\ r \in AnyRow
  BY <1>2 DEF Inv, RowsInv, StoreInv
<1>4. CASE IsProcessed(r)
  BY <1>1, <1>2, <1>3, <1>4 DEF Final
<1>5. CASE IsNew(r)
  <2> DEFINE e == EntityOf[r.id]
             T == {x \in Loaded(db, e) : IsNew(x)}
  <2>1. e \in Entity /\ r.entity = e
    BY <1>3, RowFacts
  <2>2. e \in db.keys
    BY <1>1, <1>3, <2>1 DEF KeyInv, Listed
  <2>3. r \in T
    BY <1>3, <1>5, <2>1, <2>2 DEF Loaded, FindAll
  <2>4. queue'[e] = SetToSeq(Ids(T))
    BY <1>1, <2>1 DEF LoadedQueue
  <2>5. IsFiniteSet(Ids(T))
    BY <1>3, <2>1, LoadedRows
  <2>6. r.id \in Ids(T)
    BY <2>3 DEF Ids
  <2> HIDE DEF T
  <2>7. r.id \in ToSet(queue'[e])
    BY <2>4, <2>5, <2>6, SetToSeqFacts
  <2> QED BY <2>7 DEF Traced, InQueue
<1>6. IsNew(r) \/ IsProcessed(r)
  BY <1>3 DEF AnyRow, Row, IsNew, IsProcessed
<1> QED BY <1>4, <1>5, <1>6

LEMMA RowsTracedStep ==
  ASSUME Inv, HandInv, ErrorInv, BufferInv, KeyInv, [Next]_vars, RowsTraced
  PROVE  RowsTraced'
<1> SUFFICES ASSUME dropped' = {}, NEW r \in Rows', db'.keys \subseteq {r.entity}
             PROVE  Traced(r.id)' \/ Final(r.id)'
  BY DEF RowsTraced
<1> HIDE DEF Traced, Final
<1>1. CASE Crash
  BY <1>1, LoadedTraced
<1>2. ASSUME r \in Rows PROVE r.id \in Metric
  <2>1. r \in AnyRow
    BY <1>2, PendingRows DEF Rows, Inv, RowsInv, StoreInv
  <2> QED BY <2>1, RowFacts
<1>3. db.keys \subseteq {r.entity}
  BY KeysStay
<1>4. ASSUME NEW w \in Worker, Process(w)
      PROVE  Traced(r.id)' \/ Final(r.id)'
  <2>1. dropped = {}
    BY <1>4 DEF Process, Receive, Lookup, Create, Check, WarmWrite, WriteNew, WriteProcessed,
       WriteRow, WarmAppend, Judge, JudgeFailed, DeleteRow, Alert, SetNormVector, Forget, Keep,
       txVars, Tx!Write
  <2>2. CASE r \in Rows
    BY <1>2, <1>3, <1>4, <2>1, <2>2, TracedOrFinal DEF RowsTraced
  <2>3. CASE ~Crash /\ r \notin Rows
    <3>1. PICK v \in Worker : WarmWrite(v) \/ WriteNew(v) \/ WriteProcessed(v)
      BY <2>3, RowsMove
    <3>2. PICK s \in {"new", "processed"} : WriteRow(v, s)
      BY <3>1 DEF WarmWrite, WriteNew, WriteProcessed
    <3>3. Rows' \subseteq Rows \cup {Row(work[v].m, s, work[v].outlier)}
      BY <3>2, WritePending DEF Rows, WriteRow, Inv
    <3>4. r.id = work[v].m
      BY <2>3, <3>3 DEF Row
    <3>5. Process(v) /\ work[v].m \in Metric
      BY <3>1, Busy DEF Process, WarmWrite, WriteNew, WriteProcessed
    <3>6. CASE WarmWrite(v) \/ WriteProcessed(v)
      BY <3>4, <3>6, FinalWrites
    <3>7. CASE WriteNew(v)
      <4>1. Traced(r.id)
        BY <3>4, <3>7 DEF Traced, Underway, WriteNew
      <4> QED BY <3>4, <3>5, <4>1, TracedOrFinal
    <3> QED BY <3>1, <3>6, <3>7
  <2> QED BY <1>1, <2>2, <2>3
<1>5. CASE ~Crash /\ \A w \in Worker : ~Process(w)
  <2>1. dropped = {}
    BY <1>5, BufferMoves DEF RowsStay, RowsLand, RowsDrop
  <2>2. \A w \in Worker : ~(WarmWrite(w) \/ WriteNew(w) \/ WriteProcessed(w))
    BY <1>5 DEF Process
  <2>3. r \in Rows
    BY <1>5, <2>2, RowsMove
  <2>4. Traced(r.id) \/ Final(r.id)
    BY <1>3, <2>1, <2>3 DEF RowsTraced
  <2> QED BY <1>2, <1>5, <2>3, <2>4, TracedOthers, FinalBuffer
<1> QED BY <1>1, <1>4, <1>5

(* A restart finishes what the death of the process interrupted, for any   *)
(* workers, any number of crashes and any flush size: when all work is     *)
(* done and every append succeeded, a row of the listed entity that still  *)
(* says new is of a metric whose rows were accepted out of order, or that  *)
(* the predictor failed on, or that was judged and is not to be kept.      *)
THEOREM RestartFinishes == Spec => []StoredIsFinished
<1>1. Inv /\ KeyInv /\ RowsTraced => StoredIsFinished
  <2> SUFFICES ASSUME Inv, KeyInv, RowsTraced, Quiescent, dropped = {}, NEW r \in FindAll(db)
               PROVE  IsProcessed(r) \/ Overtaken(r.id) \/ Excused(r.id)
    BY DEF StoredIsFinished
  <2>1. r \in db.rows /\ db.keys \subseteq {r.entity}
    BY DEF FindAll, KeyInv
  <2>2. r.id \in Metric /\ EntityOf[r.id] \in Entity
    BY <2>1, RowFacts DEF Inv, RowsInv, StoreInv, Entity
  <2>3. queue[EntityOf[r.id]] = <<>> /\ Pending = {}
    BY <2>2 DEF Quiescent, Pending, Tx!InFlight, Tx!Numbers
  <2>4. ~InQueue(r.id)
    BY <2>3, EmptyFacts DEF InQueue
  <2>5. ~Underway(r.id)
    BY <2>2, WorkerAssumption DEF Quiescent, Idle, Underway
  <2>6. Final(r.id) => IsProcessed(r) \/ Overtaken(r.id)
    <3>1. Final(r.id) => Overtaken(r.id) \/ \E s \in db.rows : s.id = r.id /\ IsProcessed(s)
      BY <2>3 DEF Final
    <3> QED BY <2>1, <3>1 DEF Inv, RowsInv, StoreInv
  <2>7. Traced(r.id) \/ Final(r.id)
    BY <2>1 DEF RowsTraced, Rows
  <2> QED BY <2>4, <2>5, <2>6, <2>7 DEF Traced
<1>2. Inv /\ HandInv /\ ErrorInv /\ BufferInv /\ KeyInv /\ RowsTraced /\ [Next]_vars
        => RowsTraced'
  BY RowsTracedStep
<1>3. Init => RowsTraced
  <2> SUFFICES ASSUME Init, NEW r \in Rows PROVE Final(r.id)
    BY DEF RowsTraced
  <2>1. r \in StoredDB.rows /\ db = StoredDB /\ Pending = {}
    BY DEF Init, Rows, Pending, Tx!Init, Tx!InFlight, Tx!Numbers
  <2>2. IsProcessed(r)
    BY <2>1, StoredRows DEF Row, IsProcessed
  <2> QED BY <2>1, <2>2 DEF Final
<1> QED BY <1>1, <1>2, <1>3, InvAlways, HandAlways, ErrorAlways, BufferAlways, KeyAlways, PTL
           DEF Spec

-----------------------------------------------------------------------------
(* The metrics that were in the store at the first start stay there, as    *)
(* processed rows of an entity that is listed, and in the datasets; no     *)
(* worker gets one of them and none is written again.                      *)
StoredInv ==
  /\ Stored \subseteq Members(data)
  /\ \A w \in Worker : work[w].m \notin Stored
  /\ \A r \in ToSet(log) : r.id \notin Stored
  /\ \A s \in Stored :
       \E r \in db.rows : r.id = s /\ IsProcessed(r) /\ r.entity \in db.keys

LEMMA StoredLoads ==
  ASSUME StoreInv(db), data = LoadedData(db), work = [w \in Worker |-> Idle],
         \A r \in ToSet(log) : r.id \notin Stored,
         \A s \in Stored :
           \E r \in db.rows : r.id = s /\ IsProcessed(r) /\ r.entity \in db.keys
  PROVE  StoredInv
<1>1. None \notin Stored /\ \A w \in Worker : work[w].m = None
  BY StoredAssumption, WorkerAssumption DEF Idle
<1>2. ASSUME NEW s \in Stored PROVE s \in Members(data)
  <2> HIDE DEF Members
  <2> QED BY LoadedMember
<1> HIDE DEF Members
<1> QED BY <1>1, <1>2 DEF StoredInv

LEMMA StoredInit == Init => StoredInv
<1> SUFFICES ASSUME Init PROVE StoredInv
  OBVIOUS
<1>1. StoreInv(db) /\ db = StoredDB /\ data = LoadedData(db) /\ work = [w \in Worker |-> Idle]
  BY InitInv DEF Init, Inv, RowsInv
<1>2. ASSUME NEW s \in Stored
      PROVE  \E r \in db.rows : r.id = s /\ IsProcessed(r) /\ r.entity \in db.keys
  <2>1. Row(s, "processed", FALSE) \in db.rows /\ EntityOf[s] \in db.keys
    BY <1>1, StoredRows
  <2>2. /\ Row(s, "processed", FALSE).id = s
        /\ IsProcessed(Row(s, "processed", FALSE))
        /\ Row(s, "processed", FALSE).entity = EntityOf[s]
    BY DEF Row, IsProcessed
  <2> QED BY <2>1, <2>2
<1>3. ToSet(log) = {}
  BY EmptyFacts DEF Init
<1> QED BY <1>1, <1>2, <1>3, StoredLoads

LEMMA StoredCrash == Inv /\ StoredInv /\ Crash => StoredInv'
<1> DEFINE Before == /\ StoreInv(db) /\ data = LoadedData(db)
                     /\ work = [w \in Worker |-> Idle]
                     /\ \A r \in ToSet(log) : r.id \notin Stored
                     /\ \A s \in Stored :
                          \E r \in db.rows : r.id = s /\ IsProcessed(r) /\ r.entity \in db.keys
<1>1. Inv /\ StoredInv /\ Crash => Before'
  BY DEF Inv, RowsInv, Crash, StoredInv
<1>2. Before => StoredInv
  BY StoredLoads
<1> QED BY <1>1, <1>2, PTL

LEMMA StoredProcess ==
  ASSUME Inv, StoredInv, NEW w \in Worker, Process(w), Grows
  PROVE  StoredInv'
<1>1. Stored \subseteq Members(data')
  BY DEF StoredInv, Grows, Members
<1> HIDE DEF Members
<1>2. work[w].m \notin Stored
  BY DEF StoredInv
<1>3. \A v \in Worker : work'[v].m \notin Stored
  <2>1. \A v \in Worker : v # w => work'[v] = work[v]
    BY ProcessOthers
  <2>2. CASE Receive(w)
    <3>1. work'[w].m \in ToSet(queue[WorksFor[w]]) /\ WorksFor[w] \in Entity
      BY <2>2, ReceiveFacts, WorkerAssumption
    <3>2. work'[w].m \notin Members(data)
      BY <3>1 DEF Inv, PlaceInv
    <3> QED BY <2>1, <3>2 DEF StoredInv
  <2>3. CASE ~Receive(w)
    <3>1. work'[w] = Idle \/ work'[w].m = work[w].m
      BY <2>3, StepMoves DEF Moves
    <3>2. Idle.m \notin Stored
      BY WorkerAssumption, StoredAssumption DEF Idle
    <3> QED BY <1>2, <2>1, <3>1, <3>2 DEF StoredInv
  <2> QED BY <2>2, <2>3
<1>4. ASSUME NEW s \in {"new", "processed"}, WriteRow(w, s), work[w].m \in Metric
      PROVE  UNCHANGED db /\ \A r \in ToSet(log') : r.id \notin Stored
  <2>1. \A r \in ToSet(log') : r \in ToSet(log) \/ r.id = work[w].m
    BY <1>4, LogGrows DEF Inv
  <2> QED BY <1>2, <1>4, <2>1 DEF WriteRow, StoredInv
<1>5. CASE WarmWrite(w) \/ WriteNew(w) \/ WriteProcessed(w)
  <2>1. work[w].m \in Metric
    BY <1>5, Busy DEF WarmWrite, WriteNew, WriteProcessed
  <2>2. UNCHANGED db /\ \A r \in ToSet(log') : r.id \notin Stored
    BY <1>4, <1>5, <2>1 DEF WarmWrite, WriteNew, WriteProcessed
  <2> QED BY <1>1, <1>3, <2>2 DEF StoredInv
<1>6. CASE JudgeFailed(w) \/ Forget(w)
  <2> DEFINE g == Row(work[w].m, "new", FALSE)
  <2>1. UNCHANGED log /\ (db' = Delete(db, g) \/ UNCHANGED db)
    BY <1>6 DEF JudgeFailed, Forget, DeleteRow
  <2>2. g.id = work[w].m
    BY DEF Row
  <2>3. db \in [rows : SUBSET AnyRow, keys : SUBSET Entity]
    BY DEF Inv, TypeOK
  <2> HIDE DEF g
  <2>4. CASE db' = Delete(db, g)
    <3>1. db'.rows = {x \in db.rows : Key(g) # Key(x)} /\ db'.keys = db.keys
      BY <2>3, <2>4 DEF Delete, DeleteMany
    <3>2. ASSUME NEW x \in db.rows, x.id \in Stored PROVE Key(g) # Key(x)
      BY <1>2, <2>2, <3>2 DEF Key
    <3>3. \A s \in Stored :
            \E r \in db'.rows : r.id = s /\ IsProcessed(r) /\ r.entity \in db'.keys
      BY <3>1, <3>2 DEF StoredInv
    <3> QED BY <1>1, <1>3, <2>1, <3>3 DEF StoredInv
  <2>5. CASE UNCHANGED db
    BY <1>1, <1>3, <2>1, <2>5 DEF StoredInv
  <2> QED BY <2>1, <2>4, <2>5
<1>7. CASE ~(WarmWrite(w) \/ WriteNew(w) \/ WriteProcessed(w) \/ JudgeFailed(w) \/ Forget(w))
  <2>1. UNCHANGED <<log, db>>
    BY <1>7 DEF Process, Receive, Lookup, Create, Check, WarmAppend, Judge, Alert,
       SetNormVector, Keep
  <2> QED BY <1>1, <1>3, <2>1 DEF StoredInv
<1> QED BY <1>5, <1>6, <1>7

LEMMA StoredStep == Inv /\ BufferInv /\ StoredInv /\ [Next]_vars => StoredInv'
<1> SUFFICES ASSUME Inv, BufferInv, StoredInv, [Next]_vars PROVE StoredInv'
  OBVIOUS
<1>1. CASE Crash
  BY <1>1, StoredCrash
<1>2. CASE ~Crash /\ \E w \in Worker : Process(w)
  BY <1>2, StoredProcess, StepGrows
<1>3. CASE ~Crash /\ \A w \in Worker : ~Process(w)
  <2>1. Stored \subseteq Members(data')
    BY <1>3, StepGrows DEF StoredInv, Grows, Members
  <2> HIDE DEF Members
  <2>2. UNCHANGED <<work, log>>
    BY <1>3, OtherSteps
  <2>3. CASE UNCHANGED db
    BY <2>1, <2>2, <2>3 DEF StoredInv
  <2>4. ASSUME NEW b \in flying \cup {ticked}, RowsLand(b) PROVE StoredInv'
    <3>1. /\ RowsOf(b) \in Seq(AnyRow) /\ StoreInv(db) /\ TypeOK
          /\ Tx!Numbers(b) \subseteq Pending /\ db' = AppendMany(db, RowsOf(b))
      BY <2>4, LandedRows DEF Inv, RowsInv, RowsLand
    <3>2. ASSUME NEW n \in Tx!Numbers(b) PROVE log[n].id \notin Stored
      BY <3>1, PendingRows DEF StoredInv
    <3>3. ASSUME NEW r \in db.rows, r.id \in Stored PROVE r \in db'.rows
      BY <3>1, <3>2, <3>3, OtherRowStays
    <3>4. db.keys # {} => db'.keys = db.keys
      BY <3>1 DEF AppendMany
    <3>5. \A s \in Stored :
            \E r \in db'.rows : r.id = s /\ IsProcessed(r) /\ r.entity \in db'.keys
      BY <3>3, <3>4 DEF StoredInv
    <3> QED BY <2>1, <2>2, <3>5 DEF StoredInv
  <2> QED BY <1>3, <2>3, <2>4, BufferMoves DEF RowsStay, RowsDrop
<1> QED BY <1>1, <1>2, <1>3

LEMMA StoredAlways == Spec => []StoredInv
BY StoredInit, StoredStep, InvAlways, BufferAlways, PTL DEF Spec

-----------------------------------------------------------------------------
(* The entity e of the metrics stored at the first start has one dataset,  *)
(* of its current predictor, between any two starts: the others that       *)
(* process or Predict may create are of other entities.                    *)

IsHome(e) == \E s \in Stored : EntityOf[s] = e

Side(w, e, p) ==
  /\ work[w].at \notin {"idle", "lookup"} => (WorksFor[w] = e <=> work[w].pred = p)
  /\ work[w].at = "create" => WorksFor[w] # e

OneDataset(e, p) ==
  /\ p \in DOMAIN data
  /\ Stored \subseteq ToSet(data[p])
  /\ \A m \in ToSet(data[p]) : EntityOf[m] = e
  /\ \A i \in DOMAIN data : i # p => \A m \in ToSet(data[i]) : EntityOf[m] # e

Home(e, p) ==
  /\ predictors[e] = p
  /\ OneDataset(e, p)
  /\ \A f \in Entity : f # e => predictors[f] # p
  /\ \A w \in Worker : Side(w, e, p)

LEMMA HomeLoads ==
  ASSUME StoreInv(db), NEW e \in Entity, IsHome(e),
         data = LoadedData(db), predictors = LoadedPredictors(db),
         work = [w \in Worker |-> Idle],
         \A s \in Stored :
           \E r \in db.rows : r.id = s /\ IsProcessed(r) /\ r.entity \in db.keys
  PROVE  \E p \in Nat : Home(e, p)
<1>1. ASSUME NEW s \in Stored
      PROVE  EntityOf[s] = e /\ \E r \in Loaded(db, e) : r.id = s /\ IsProcessed(r)
  <2>1. EntityOf[s] = e
    BY StoredAssumption DEF IsHome
  <2>2. PICK r \in db.rows : r.id = s /\ IsProcessed(r) /\ r.entity \in db.keys
    OBVIOUS
  <2>3. r.entity = e
    BY <2>1, <2>2, RowFacts DEF StoreInv
  <2> QED BY <2>1, <2>2, <2>3 DEF Loaded, FindAll
<1>2. Loaded(db, e) # {}
  BY <1>1 DEF IsHome
<1>3. Stored \subseteq Ids({r \in Loaded(db, e) : IsProcessed(r)})
  BY <1>1 DEF Ids
<1> DEFINE p == LoadedPredictors(db)[e]
<1>4. /\ p \in DOMAIN LoadedData(db)
      /\ ToSet(LoadedData(db)[p]) = Ids({r \in Loaded(db, e) : IsProcessed(r)})
      /\ \A m \in ToSet(LoadedData(db)[p]) : EntityOf[m] = e
      /\ \A i \in DOMAIN LoadedData(db) :
           i # p => \A m \in ToSet(LoadedData(db)[i]) : EntityOf[m] # e
      /\ \A f \in Entity : f # e => LoadedPredictors(db)[f] # p
  BY <1>2, LoadedHome
<1>5. p \in Nat
  BY LoadFacts
<1> HIDE DEF p
<1>6. OneDataset(e, p)
  BY <1>3, <1>4 DEF OneDataset
<1>7. \A w \in Worker : Side(w, e, p)
  BY DEF Side, Idle
<1> QED BY <1>4, <1>5, <1>6, <1>7 DEF Home, p

(* A step of process that neither takes a metric nor looks for the         *)
(* predictor keeps to it; and a worker begins to warm a dataset only after *)
(* it found it short.                                                      *)
LEMMA ProcessKeeps ==
  ASSUME Inv, NEW w \in Worker, Process(w), ~Receive(w), ~Lookup(w), ~Create(w)
  PROVE  /\ UNCHANGED predictors
         /\ work[w].at \notin {"idle", "lookup", "create"}
         /\ \/ work'[w] = Idle
            \/ /\ work'[w].pred = work[w].pred
               /\ work'[w].at \notin {"idle", "lookup", "create"}
         /\ work'[w].at \in {"warm", "warmAppend"} =>
              WarmWrite(w) \/ (Check(w) /\ Len(data[work[w].pred]) < MinItems)
<1>1. work \in [Worker -> WorkState] /\ w \in DOMAIN work
  BY DEF Inv, TypeOK, WorkState
<1>2. CASE Check(w)
  <2>1. /\ work'[w].at = IF Len(data[work[w].pred]) < MinItems THEN "warm" ELSE "new"
        /\ work'[w].pred = work[w].pred /\ UNCHANGED predictors /\ work[w].at = "check"
    BY <1>1, <1>2 DEF Check, Goto, WorkState
  <2> QED BY <1>2, <2>1
<1>3. CASE WarmWrite(w) \/ WriteNew(w) \/ SetNormVector(w) \/ Keep(w)
  <2>1. /\ work'[w].at \in {"warmAppend", "predict", "after", "finish"}
        /\ work'[w].at = "warmAppend" => WarmWrite(w)
        /\ work'[w].pred = work[w].pred
        /\ work[w].at \in {"warm", "new", "normal", "after"}
    BY <1>1, <1>3 DEF WarmWrite, WriteNew, SetNormVector, Keep, Goto, WorkState
  <2>2. UNCHANGED predictors
    BY <1>3 DEF WarmWrite, WriteNew, WriteRow, SetNormVector, Keep
  <2> QED BY <2>1, <2>2
<1>4. CASE Judge(w)
  <2>1. PICK v \in {"outlier", "normal", "error"} :
          work' = [work EXCEPT ![w].at = v, ![w].outlier = (v = "outlier")]
    BY <1>4 DEF Judge
  <2>2. work'[w].at = v /\ work'[w].pred = work[w].pred
    BY <1>1, <2>1, ZenonT(60) DEF WorkState
  <2>3. UNCHANGED predictors /\ work[w].at = "predict"
    BY <1>4 DEF Judge
  <2> QED BY <2>2, <2>3
<1>5. CASE Alert(w)
  <2>1. work'[w].at = "after" /\ work'[w].pred = work[w].pred
    BY <1>1, <1>5, ZenonT(60) DEF Alert, WorkState
  <2>2. UNCHANGED predictors /\ work[w].at = "outlier"
    BY <1>5 DEF Alert
  <2> QED BY <2>1, <2>2
<1>6. CASE WarmAppend(w) \/ JudgeFailed(w) \/ Forget(w) \/ WriteProcessed(w)
  <2>1. /\ work'[w] = Idle /\ UNCHANGED predictors
        /\ work[w].at \in {"warmAppend", "error", "after", "finish"}
    BY <1>1, <1>6 DEF WarmAppend, JudgeFailed, Forget, DeleteRow, WriteProcessed, WriteRow,
                      Finished
  <2> QED BY <2>1 DEF Idle
<1> QED BY <1>2, <1>3, <1>4, <1>5, <1>6 DEF Process

LEMMA OneDatasetAppend ==
  ASSUME Inv, HandInv, NEW e \in Entity, NEW p, OneDataset(e, p), NEW w \in Worker,
         AppendData(w), work[w].m \in Metric,
         WorksFor[w] = e <=> work[w].pred = p
  PROVE  OneDataset(e, p)'
<1>1. Proper(data) /\ EntityOf[work[w].m] = WorksFor[w]
  BY DEF Inv, PlaceInv, HandInv, Hand
<1>2. /\ DOMAIN data' = DOMAIN data
      /\ \A i \in DOMAIN data :
           ToSet(data'[i]) = IF i = work[w].pred THEN ToSet(data[i]) \cup {work[w].m}
                             ELSE ToSet(data[i])
  BY <1>1, DataAppended
<1> QED BY <1>1, <1>2 DEF OneDataset

LEMMA OneDatasetAdded ==
  ASSUME Inv, NEW e \in Entity, NEW p, OneDataset(e, p), data' = Append(data, <<>>)
  PROVE  OneDataset(e, p)' /\ Len(data') # p
<1>1. /\ DOMAIN data' = DOMAIN data \cup {Len(data')}
      /\ Len(data') \notin DOMAIN data
      /\ \A i \in DOMAIN data : data'[i] = data[i]
      /\ data'[Len(data')] = <<>>
  BY DataAdded DEF Inv, PlaceInv
<1> QED BY <1>1, EmptyFacts DEF OneDataset

LEMMA HomeProcess ==
  ASSUME Inv, HandInv, NEW e \in Entity, NEW p, Home(e, p), NEW w \in Worker, Process(w)
  PROVE  Home(e, p)'
<1>1. /\ OneDataset(e, p) /\ \A f \in Entity : f # e => predictors[f] # p
      /\ \A v \in Worker : Side(v, e, p)
      /\ predictors[e] = p /\ p \in DOMAIN data /\ Proper(data)
  BY DEF Home, OneDataset, Inv, PlaceInv
<1>2. /\ work \in [Worker -> WorkState] /\ predictors \in [Entity -> Nat]
      /\ WorksFor[w] \in Entity /\ p # 0
  BY <1>1, WorkerAssumption DEF Inv, TypeOK, WorkState, Proper
<1>3. \A v \in Worker : v # w => work'[v] = work[v]
  BY ProcessOthers
<1>4. ASSUME predictors'[e] = p, OneDataset(e, p)',
             \A f \in Entity : f # e => predictors'[f] # p,
             /\ work'[w].at \notin {"idle", "lookup"} =>
                  (WorksFor[w] = e <=> work'[w].pred = p)
             /\ work'[w].at = "create" => WorksFor[w] # e
      PROVE  Home(e, p)'
  <2>1. \A v \in Worker : Side(v, e, p)'
    BY <1>1, <1>3, <1>4 DEF Side
  <2> QED BY <1>4, <2>1 DEF Home
<1>5. CASE Receive(w)
  <2>1. UNCHANGED <<predictors, data>> /\ work'[w].at = "lookup"
    BY <1>5, ReceiveFacts DEF Receive
  <2>2. OneDataset(e, p)'
    BY <1>1, <2>1 DEF OneDataset
  <2> QED BY <1>1, <1>4, <2>1, <2>2
<1>6. CASE Lookup(w)
  <2>1. /\ work'[w].at = IF predictors[WorksFor[w]] = 0 THEN "create" ELSE "check"
        /\ work'[w].pred = predictors[WorksFor[w]]
    BY <1>2, <1>6, ZenonT(60) DEF Lookup, WorkState
  <2>2. UNCHANGED <<predictors, data>>
    BY <1>6 DEF Lookup
  <2>3. OneDataset(e, p)'
    BY <1>1, <2>2 DEF OneDataset
  <2> QED BY <1>1, <1>2, <1>4, <2>1, <2>2, <2>3
<1>7. CASE Create(w)
  <2>1. work'[w].at = "check" /\ work'[w].pred = Len(data')
    BY <1>2, <1>7, ZenonT(60) DEF Create, WorkState
  <2>2. /\ data' = Append(data, <<>>)
        /\ predictors' = [predictors EXCEPT ![WorksFor[w]] = Len(data')]
        /\ work[w].at = "create"
    BY <1>7 DEF Create
  <2>3. WorksFor[w] # e
    BY <1>1, <2>2 DEF Side
  <2>4. OneDataset(e, p)' /\ Len(data') # p
    BY <1>1, <2>2, OneDatasetAdded
  <2>5. \A f \in Entity : predictors'[f] = IF f = WorksFor[w] THEN Len(data') ELSE predictors[f]
    BY <1>2, <2>2
  <2> QED BY <1>1, <1>4, <2>1, <2>3, <2>4, <2>5
<1>8. CASE ~Receive(w) /\ ~Lookup(w) /\ ~Create(w)
  <2>1. /\ UNCHANGED predictors
        /\ work[w].at \notin {"idle", "lookup", "create"}
        /\ \/ work'[w] = Idle
           \/ /\ work'[w].pred = work[w].pred
              /\ work'[w].at \notin {"idle", "lookup", "create"}
    BY <1>8, ProcessKeeps
  <2>2. WorksFor[w] = e <=> work[w].pred = p
    BY <1>1, <2>1 DEF Side
  <2>3. OneDataset(e, p)'
    <3>1. CASE UNCHANGED data
      BY <1>1, <3>1 DEF OneDataset
    <3>2. CASE AppendData(w)
      BY <1>1, <2>1, <2>2, <3>2, Busy, OneDatasetAppend
    <3> QED BY <1>8, <3>1, <3>2, ProcessData
  <2> QED BY <1>1, <1>4, <2>1, <2>2, <2>3 DEF Idle
<1> QED BY <1>5, <1>6, <1>7, <1>8

LEMMA HomeOthers ==
  ASSUME Inv, NEW e \in Entity, NEW p, Home(e, p),
         [Next]_vars, ~Crash, \A w \in Worker : ~Process(w)
  PROVE  Home(e, p)'
<1>1. /\ OneDataset(e, p) /\ \A f \in Entity : f # e => predictors[f] # p
      /\ \A v \in Worker : Side(v, e, p)
      /\ predictors[e] = p /\ p \in DOMAIN data /\ predictors \in [Entity -> Nat] /\ p # 0
  BY DEF Home, OneDataset, Inv, TypeOK
<1>2. ASSUME predictors'[e] = p, OneDataset(e, p)', UNCHANGED work,
             \A f \in Entity : f # e => predictors'[f] # p
      PROVE  Home(e, p)'
  <2>1. \A v \in Worker : Side(v, e, p)'
    BY <1>1, <1>2 DEF Side
  <2> QED BY <1>2, <2>1 DEF Home
<1>3. UNCHANGED work
  BY OtherSteps
<1>4. ASSUME NEW f \in Entity, Predict(f) PROVE Home(e, p)'
  <2>1. /\ predictors[f] = 0 /\ data' = Append(data, <<>>)
        /\ predictors' = [predictors EXCEPT ![f] = Len(data')]
    BY <1>4 DEF Predict
  <2>2. f # e /\ OneDataset(e, p)' /\ Len(data') # p
    BY <1>1, <2>1, OneDatasetAdded
  <2>3. \A g \in Entity : predictors'[g] = IF g = f THEN Len(data') ELSE predictors[g]
    BY <1>1, <2>1
  <2> QED BY <1>1, <1>2, <1>3, <2>2, <2>3
<1>5. CASE \A f \in Entity : ~Predict(f)
  <2>1. UNCHANGED <<predictors, data>>
    BY <1>5, NextCases DEF Collect, Take, Flush, Commit, Fail, Flusher, Ticking, TickCommit,
       Rest, Still
  <2>2. OneDataset(e, p)'
    BY <1>1, <2>1 DEF OneDataset
  <2> QED BY <1>1, <1>2, <1>3, <2>1, <2>2
<1> QED BY <1>4, <1>5

-----------------------------------------------------------------------------
(* How many metrics come into the dataset unjudged: those that are in it,  *)
(* and one for each worker that found it short and is not done.  The last  *)
(* one to find it short finds at most MinItems - 1 metrics.                *)

WorkersOf(e) == {w \in Worker : WorksFor[w] = e}
Warming(e) == {w \in WorkersOf(e) : work[w].at \in {"warm", "warmAppend"}}

Room(e) == IF Cardinality(Stored) >= MinItems THEN 0
           ELSE MinItems - Cardinality(Stored) + Cardinality(WorkersOf(e)) - 1

WarmBound(e, p) == Cardinality(Unjudged(p)) + Cardinality(Warming(e)) <= Room(e)

LEMMA Sizes ==
  /\ IsFiniteSet(Stored) /\ Cardinality(Stored) \in Nat /\ MinItems \in Nat
  /\ \A e : /\ IsFiniteSet(WorkersOf(e)) /\ Cardinality(WorkersOf(e)) \in Nat
            /\ IsFiniteSet(Warming(e)) /\ Cardinality(Warming(e)) \in Nat
            /\ Cardinality(Warming(e)) <= Cardinality(WorkersOf(e))
            /\ Room(e) \in Int /\ Room(e) >= 0
<1>1. IsFiniteSet(Stored) /\ Cardinality(Stored) \in Nat /\ MinItems \in Nat
  BY StoredAssumption, ConfigAssumption, FS_CardinalityType
<1>2. ASSUME NEW e
      PROVE  /\ IsFiniteSet(WorkersOf(e)) /\ Cardinality(WorkersOf(e)) \in Nat
             /\ IsFiniteSet(Warming(e)) /\ Cardinality(Warming(e)) \in Nat
             /\ Cardinality(Warming(e)) <= Cardinality(WorkersOf(e))
  <2>1. WorkersOf(e) \in SUBSET Worker /\ Warming(e) \in SUBSET WorkersOf(e)
    BY DEF WorkersOf, Warming
  <2>2. IsFiniteSet(WorkersOf(e)) /\ Cardinality(WorkersOf(e)) \in Nat
    BY <2>1, WorkerAssumption, FS_Subset, FS_CardinalityType
  <2>3. IsFiniteSet(Warming(e)) /\ Cardinality(Warming(e)) <= Cardinality(WorkersOf(e))
    BY <2>1, <2>2, FS_Subset
  <2> QED BY <2>2, <2>3, FS_CardinalityType
<1>3. ASSUME NEW e PROVE Room(e) \in Int /\ Room(e) >= 0
  BY <1>1, <1>2 DEF Room
<1> QED BY <1>1, <1>2, <1>3

LEMMA UnjudgedFinite ==
  ASSUME Proper(data), NEW p \in DOMAIN data
  PROVE  /\ IsFiniteSet(Unjudged(p)) /\ Cardinality(Unjudged(p)) \in Nat
         /\ Len(data[p]) \in Nat
         /\ Stored \subseteq ToSet(data[p]) =>
              Cardinality(Stored) + Cardinality(Unjudged(p)) <= Len(data[p])
<1> DEFINE D == ToSet(data[p])  U == Unjudged(p)
<1>1. data[p] \in Seq(Metric)
  BY DEF Proper
<1>2. IsFiniteSet(D)
  BY <1>1, RangeFinite
<1>3. U \in SUBSET D /\ U \cap Stored = {}
  BY DEF Unjudged
<1>4. Cardinality(D) <= Len(data[p]) /\ Len(data[p]) \in Nat /\ Cardinality(D) \in Nat
  <2>1. Len(data[p]) \in Nat /\ DOMAIN data[p] = 1 .. Len(data[p]) /\ data[p] \in [1 .. Len(data[p]) -> Metric]
    BY <1>1
  <2>2. data[p] \in Surjection(1 .. Len(data[p]), D)
    BY <2>1 DEF Surjection, ToSet
  <2>3. IsFiniteSet(1 .. Len(data[p])) /\ Cardinality(1 .. Len(data[p])) = Len(data[p])
    <3>1. ASSUME NEW n \in Nat PROVE IsFiniteSet(1 .. n) /\ Cardinality(1 .. n) = n
      BY FS_Interval
    <3> QED BY <2>1, <3>1
  <2>4. Cardinality(D) <= Cardinality(1 .. Len(data[p]))
    BY <2>2, <2>3, FS_Surjection
  <2> QED BY <1>2, <2>1, <2>3, <2>4, FS_CardinalityType
<1> HIDE DEF D, U
<1>5. IsFiniteSet(U) /\ Cardinality(U) \in Nat
  BY <1>2, <1>3, FS_Subset, FS_CardinalityType
<1>6. ASSUME Stored \subseteq D
      PROVE  Cardinality(Stored) + Cardinality(U) <= Len(data[p])
  <2>1. /\ IsFiniteSet(Stored \cup U)
        /\ Cardinality(Stored \cup U) = Cardinality(Stored) + Cardinality(U) - Cardinality(Stored \cap U)
    BY <1>5, StoredAssumption, FS_Union
  <2>2. Cardinality(Stored \cap U) = 0
    <3>1. Stored \cap U = {}
      BY <1>3
    <3> QED BY <3>1, FS_EmptySet
  <2>3. Cardinality(Stored \cup U) <= Cardinality(D)
    BY <1>2, <1>3, <1>6, FS_Subset
  <2>4. Cardinality(Stored) \in Nat
    BY Sizes
  <2>5. Cardinality(Stored \cup U) = Cardinality(Stored) + Cardinality(U)
    BY <1>5, <2>1, <2>2, <2>4
  <2> QED BY <1>4, <1>5, <2>3, <2>4, <2>5
<1> QED BY <1>4, <1>5, <1>6 DEF D, U

LEMMA UnjudgedStays ==
  ASSUME Proper(data'), Grows, NEW p \in DOMAIN data', NEW x,
         \A m \in ToSet(data'[p]) :
           m \in ToSet(data[p]) \/ judged[m] # None \/ m = x
  PROVE  Unjudged(p)' \subseteq Unjudged(p) \cup {x}
<1>1. data'[p] \in Seq(Metric)
  BY DEF Proper
<1>2. ToSet(data'[p]) \subseteq Metric
  BY <1>1, RangeFinite
<1> QED BY <1>2 DEF Unjudged, Grows

LEMMA FewerBound ==
  ASSUME NEW e, NEW p, Proper(data), Proper(data'), p \in DOMAIN data, p \in DOMAIN data',
         WarmBound(e, p), Unjudged(p)' \subseteq Unjudged(p), Warming(e)' \subseteq Warming(e)
  PROVE  WarmBound(e, p)'
<1>1. IsFiniteSet(Unjudged(p)) /\ IsFiniteSet(Warming(e))
      /\ Cardinality(Unjudged(p)) \in Nat /\ Cardinality(Warming(e)) \in Nat /\ Room(e) \in Int
  BY UnjudgedFinite, Sizes
<1>2. /\ IsFiniteSet(Unjudged(p)') /\ Cardinality(Unjudged(p)') <= Cardinality(Unjudged(p))
      /\ IsFiniteSet(Warming(e)') /\ Cardinality(Warming(e)') <= Cardinality(Warming(e))
  BY <1>1, FS_Subset
<1>3. Cardinality(Unjudged(p)') \in Nat /\ Cardinality(Warming(e)') \in Nat
  BY <1>2, FS_CardinalityType
<1>4. Room(e)' = Room(e)
  BY DEF Room, WorkersOf
<1> QED BY <1>1, <1>2, <1>3, <1>4 DEF WarmBound

LEMMA WarmProcess ==
  ASSUME Inv, PlaceInv', HandInv, NEW e \in Entity, NEW p, Home(e, p), Home(e, p)',
         WarmBound(e, p), NEW w \in Worker, Process(w), Grows
  PROVE  WarmBound(e, p)'
<1>1. /\ Proper(data) /\ Proper(data') /\ p \in DOMAIN data /\ p \in DOMAIN data'
      /\ Stored \subseteq ToSet(data[p]) /\ Side(w, e, p)
  BY DEF Inv, PlaceInv, Home, OneDataset
<1>2. \A v \in Worker : v # w => work'[v] = work[v]
  BY ProcessOthers
<1>3. CASE Check(w) /\ WorksFor[w] = e /\ Len(data[work[w].pred]) < MinItems
  <2>1. UNCHANGED <<data, judged>> /\ work[w].pred = p
    BY <1>1, <1>3 DEF Check, Side
  <2>2. Unjudged(p)' = Unjudged(p) /\ Room(e)' = Room(e)
    BY <2>1 DEF Unjudged, Room, WorkersOf
  <2>3. /\ Cardinality(Stored) + Cardinality(Unjudged(p)) <= Len(data[p])
        /\ Len(data[p]) < MinItems /\ Len(data[p]) \in Nat
        /\ Cardinality(Unjudged(p)) \in Nat
    BY <1>1, <1>3, <2>1, UnjudgedFinite
  <2>4. /\ Cardinality(Stored) \in Nat /\ MinItems \in Nat
        /\ Cardinality(WorkersOf(e)) \in Nat /\ IsFiniteSet(WorkersOf(e))
    BY Sizes
  <2>5. Warming(e)' \in SUBSET WorkersOf(e)
    BY DEF Warming, WorkersOf
  <2>6. /\ Cardinality(Warming(e)') <= Cardinality(WorkersOf(e))
        /\ Cardinality(Warming(e)') \in Nat
    BY <2>4, <2>5, FS_Subset, FS_CardinalityType
  <2>7. Room(e) = MinItems - Cardinality(Stored) + Cardinality(WorkersOf(e)) - 1
    BY <2>3, <2>4 DEF Room
  <2> HIDE DEF Room
  <2> QED BY <2>2, <2>3, <2>4, <2>6, <2>7 DEF WarmBound
<1>4. CASE WarmAppend(w) /\ WorksFor[w] = e
  <2>1. /\ work[w].at = "warmAppend" /\ work'[w] = Idle /\ work[w].m \in Metric
        /\ AppendData(w) /\ work[w].pred = p
    BY <1>1, <1>4, Busy DEF WarmAppend, Finished, Side, Inv, TypeOK
  <2>2. ToSet(data'[p]) = ToSet(data[p]) \cup {work[w].m}
    BY <1>1, <2>1, DataAppended
  <2>3. Unjudged(p)' \subseteq Unjudged(p) \cup {work[w].m}
    BY <1>1, <2>2, UnjudgedStays
  <2>4. w \in Warming(e) /\ Warming(e)' \subseteq Warming(e) \ {w}
    BY <1>2, <1>4, <2>1 DEF Warming, WorkersOf, Idle
  <2>5. /\ IsFiniteSet(Unjudged(p)) /\ Cardinality(Unjudged(p)) \in Nat
        /\ IsFiniteSet(Warming(e)) /\ Cardinality(Warming(e)) \in Nat /\ Room(e) \in Int
    BY <1>1, UnjudgedFinite, Sizes
  <2>6. /\ IsFiniteSet(Unjudged(p) \cup {work[w].m})
        /\ Cardinality(Unjudged(p) \cup {work[w].m}) <= Cardinality(Unjudged(p)) + 1
        /\ IsFiniteSet(Warming(e) \ {w})
        /\ Cardinality(Warming(e) \ {w}) = Cardinality(Warming(e)) - 1
    <3> DEFINE U == Unjudged(p)  W == Warming(e)
    <3>1. IsFiniteSet(U) /\ Cardinality(U) \in Nat /\ IsFiniteSet(W) /\ w \in W
      BY <2>4, <2>5
    <3> HIDE DEF U, W
    <3>2. /\ IsFiniteSet(U \cup {work[w].m})
          /\ Cardinality(U \cup {work[w].m})
               = IF work[w].m \in U THEN Cardinality(U) ELSE Cardinality(U) + 1
      BY <3>1, FS_AddElement
    <3>3. IsFiniteSet(W \ {w}) /\ Cardinality(W \ {w}) = Cardinality(W) - 1
      BY <3>1, FS_RemoveElement
    <3>4. Cardinality(U \cup {work[w].m}) <= Cardinality(U) + 1
      BY <3>1, <3>2
    <3> QED BY <3>2, <3>3, <3>4 DEF U, W
  <2>7. /\ IsFiniteSet(Unjudged(p)')
        /\ Cardinality(Unjudged(p)') <= Cardinality(Unjudged(p) \cup {work[w].m})
        /\ IsFiniteSet(Warming(e)')
        /\ Cardinality(Warming(e)') <= Cardinality(Warming(e) \ {w})
    BY <2>3, <2>4, <2>6, FS_Subset
  <2>8. /\ Cardinality(Unjudged(p)') \in Nat /\ Cardinality(Warming(e)') \in Nat
        /\ Cardinality(Unjudged(p) \cup {work[w].m}) \in Nat
    BY <2>6, <2>7, FS_CardinalityType
  <2>9. Room(e)' = Room(e)
    BY DEF Room, WorkersOf
  <2> HIDE DEF Room
  <2> QED BY <2>5, <2>6, <2>7, <2>8, <2>9 DEF WarmBound
<1>5. CASE /\ ~(Check(w) /\ WorksFor[w] = e /\ Len(data[work[w].pred]) < MinItems)
           /\ ~(WarmAppend(w) /\ WorksFor[w] = e)
  <2>1. \A m \in ToSet(data'[p]) : m \in ToSet(data[p]) \/ judged[m] # None
    <3>1. CASE UNCHANGED data
      BY <3>1
    <3>2. CASE data' = Append(data, <<>>)
      BY <1>1, <3>2, DataAdded
    <3>3. CASE AppendData(w) /\ (WarmAppend(w) \/ Keep(w))
      <4>1. work[w].at \in {"warmAppend", "after"} /\ work[w].m \in Metric
        BY <3>3, Busy DEF WarmAppend, Keep
      <4>2. ToSet(data'[p]) = IF p = work[w].pred THEN ToSet(data[p]) \cup {work[w].m}
                              ELSE ToSet(data[p])
        BY <1>1, <3>3, <4>1, DataAppended
      <4>3. CASE WarmAppend(w)
        BY <1>1, <1>5, <4>1, <4>2, <4>3 DEF Side
      <4>4. CASE Keep(w)
        <5>1. judged[work[w].m] # None
          BY <4>4 DEF Keep, HandInv, Hand
        <5> QED BY <4>2, <5>1
      <4> QED BY <3>3, <4>3, <4>4
    <3> QED BY <3>1, <3>2, <3>3, ProcessData
  <2>2. Unjudged(p)' \subseteq Unjudged(p)
    <3>1. data'[p] \in Seq(Metric)
      BY <1>1 DEF Proper
    <3>2. ToSet(data'[p]) \subseteq Metric
      BY <3>1, RangeFinite
    <3> QED BY <2>1, <3>2 DEF Unjudged, Grows
  <2>3. ASSUME WorksFor[w] = e, work'[w].at \in {"warm", "warmAppend"}
        PROVE  work[w].at = "warm"
    <3>1. ~Receive(w)
      BY <2>3, ReceiveFacts
    <3>2. ~Lookup(w) /\ ~Create(w)
      <4>1. work \in [Worker -> WorkState]
        BY DEF Inv, TypeOK, WorkState
      <4>2. Lookup(w) \/ Create(w) => work'[w].at \in {"create", "check"}
        BY <4>1, ZenonT(60) DEF Lookup, Create, WorkState
      <4> QED BY <2>3, <4>2
    <3>3. WarmWrite(w)
      BY <1>5, <2>3, <3>1, <3>2, ProcessKeeps
    <3> QED BY <3>3 DEF WarmWrite
  <2>4. Warming(e)' \subseteq Warming(e)
    BY <1>2, <2>3 DEF Warming, WorkersOf
  <2> QED BY <1>1, <2>2, <2>4, FewerBound
<1> QED BY <1>3, <1>4, <1>5

LEMMA WarmOthers ==
  ASSUME Inv, PlaceInv', NEW e \in Entity, NEW p, Home(e, p), Home(e, p)', WarmBound(e, p),
         [Next]_vars, ~Crash, \A w \in Worker : ~Process(w)
  PROVE  WarmBound(e, p)'
<1>1. Proper(data) /\ Proper(data') /\ p \in DOMAIN data /\ p \in DOMAIN data'
  BY DEF Inv, PlaceInv, Home, OneDataset
<1>2. UNCHANGED <<work, judged>> /\ (UNCHANGED data \/ data' = Append(data, <<>>))
  BY OtherSteps
<1>3. data'[p] = data[p]
  BY <1>1, <1>2, DataAdded
<1>4. Unjudged(p)' \subseteq Unjudged(p) /\ Warming(e)' \subseteq Warming(e)
  BY <1>2, <1>3 DEF Unjudged, Warming, WorkersOf
<1> QED BY <1>1, <1>4, FewerBound

(* After a crash: what is read back unjudged was in the dataset, or on its *)
(* way into it.                                                            *)
LEMMA WarmCrash ==
  ASSUME Inv, HandInv, NEW e \in Entity, NEW p, Home(e, p), WarmBound(e, p),
         RowsArrive(OfEntity(e)), Crash, NEW q, Home(e, q)'
  PROVE  WarmBound(e, q)'
<1>1. /\ Proper(data) /\ p \in DOMAIN data /\ StoreInv(db)
      /\ \A i \in DOMAIN data : i # p => \A m \in ToSet(data[i]) : EntityOf[m] # e
  BY DEF Inv, PlaceInv, RowsInv, Home, OneDataset
<1>2. /\ data' = LoadedData(db) /\ work' = [w \in Worker |-> Idle] /\ UNCHANGED judged
      /\ q \in DOMAIN data' /\ \A m \in ToSet(data'[q]) : EntityOf[m] = e
  BY DEF Crash, Home, OneDataset
<1> DEFINE came == {work[w].m : w \in Warming(e)}
<1>3. Unjudged(q)' \subseteq Unjudged(p) \cup came
  <2> SUFFICES ASSUME NEW m \in Unjudged(q)', m \notin Unjudged(p) PROVE m \in came
    OBVIOUS
  <2>1. m \in ToSet(data'[q]) /\ m \notin Stored /\ judged[m] = None /\ EntityOf[m] = e
    BY <1>2 DEF Unjudged
  <2>2. m \in Members(LoadedData(db))
    BY <1>2, <2>1 DEF Members
  <2>3. PICK r \in db.rows : r.id = m /\ IsProcessed(r)
    BY <1>1, <2>2, LoadFacts
  <2>4. m \in Metric /\ r \in Rows
    BY <1>1, <2>3, RowFacts DEF StoreInv, Rows
  <2>5. Arrives(m)
    BY <2>1, <2>3, <2>4 DEF RowsArrive, OfEntity, Due
  <2>6. m \notin Members(data)
    BY <1>1, <2>1 DEF Members, Unjudged
  <2>7. PICK w \in Worker : work[w].m = m /\ work[w].at = "warmAppend"
    BY <2>5, <2>6 DEF Arrives
  <2>8. WorksFor[w] = e
    BY <2>1, <2>4, <2>7 DEF HandInv, Hand
  <2> QED BY <2>7, <2>8 DEF Warming, WorkersOf
<1>4. /\ IsFiniteSet(Unjudged(p)) /\ Cardinality(Unjudged(p)) \in Nat
      /\ IsFiniteSet(Warming(e)) /\ Cardinality(Warming(e)) \in Nat /\ Room(e) \in Int
  BY <1>1, UnjudgedFinite, Sizes
<1>5. IsFiniteSet(came) /\ Cardinality(came) <= Cardinality(Warming(e))
  <2> DEFINE f == [w \in Warming(e) |-> work[w].m]
  <2>1. f \in Surjection(Warming(e), came)
    BY DEF Surjection
  <2> HIDE DEF f, came
  <2> QED BY <1>4, <2>1, FS_Surjection
<1>6. Warming(e)' = {}
  BY <1>2 DEF Warming, WorkersOf, Idle
<1>7. Room(e)' = Room(e)
  BY DEF Room, WorkersOf
<1> HIDE DEF came, Room
<1>8. /\ IsFiniteSet(Unjudged(p) \cup came) /\ Cardinality(came) \in Nat
      /\ Cardinality(Unjudged(p) \cup came)
           = Cardinality(Unjudged(p)) + Cardinality(came) - Cardinality(Unjudged(p) \cap came)
      /\ Cardinality(Unjudged(p) \cap came) \in Nat
  <2>1. Unjudged(p) \cap came \in SUBSET came
    OBVIOUS
  <2>2. IsFiniteSet(Unjudged(p) \cap came)
    BY <1>5, <2>1, FS_Subset
  <2> QED BY <1>4, <1>5, <2>2, FS_Union, FS_CardinalityType
<1>9. /\ Cardinality(Unjudged(q)') <= Cardinality(Unjudged(p) \cup came)
      /\ IsFiniteSet(Unjudged(q)')
  BY <1>3, <1>8, FS_Subset
<1>10. Cardinality(Unjudged(q)') \in Nat /\ Cardinality(Unjudged(p) \cup came) \in Nat
       /\ Cardinality(Warming(e)') = 0
  BY <1>6, <1>8, <1>9, FS_CardinalityType, FS_EmptySet
<1> QED BY <1>4, <1>5, <1>7, <1>8, <1>9, <1>10 DEF WarmBound

LEMMA HomeCrash ==
  ASSUME NEW e \in Entity, IsHome(e)
  PROVE  Inv /\ StoredInv /\ Crash => \E q \in Nat : Home(e, q)'
<1> DEFINE Before == /\ StoreInv(db) /\ data = LoadedData(db)
                     /\ predictors = LoadedPredictors(db)
                     /\ work = [w \in Worker |-> Idle]
                     /\ \A s \in Stored :
                          \E r \in db.rows : r.id = s /\ IsProcessed(r) /\ r.entity \in db.keys
           Homes == \E q \in Nat : Home(e, q)
<1>1. Inv /\ StoredInv /\ Crash => Before'
  BY DEF Inv, RowsInv, Crash, StoredInv
<1>2. Before => Homes
  BY HomeLoads
<1>3. Inv /\ StoredInv /\ Crash => Homes'
  BY <1>1, <1>2, PTL
<1> QED BY <1>3

WarmInv ==
  \A e \in Entity : IsHome(e) =>
    /\ RowsArrive(OfEntity(e))
    /\ \E p \in Nat : Home(e, p) /\ WarmBound(e, p)

LEMMA WarmInit == Init => WarmInv
<1> SUFFICES ASSUME Init, NEW e \in Entity, IsHome(e)
             PROVE  /\ RowsArrive(OfEntity(e))
                    /\ \E p \in Nat : Home(e, p) /\ WarmBound(e, p)
  BY DEF WarmInv
<1>1. RowsArrive(OfEntity(e))
  <2>1. OfEntity(e) \subseteq Metric
    BY DEF OfEntity
  <2> QED BY <2>1, InitRowsArrive DEF RowsArrive
<1>2. /\ StoreInv(db) /\ db = StoredDB /\ data = LoadedData(db)
      /\ predictors = LoadedPredictors(db) /\ work = [w \in Worker |-> Idle]
  BY InitInv DEF Init, Inv, RowsInv
<1>3. PICK p \in Nat : Home(e, p)
  BY <1>2, StoredInit, HomeLoads DEF StoredInv
<1>4. Unjudged(p) = {}
  <2>1. p \in DOMAIN data
    BY <1>3 DEF Home, OneDataset
  <2>2. ASSUME NEW m \in ToSet(data[p]) PROVE m \in Stored
    <3>1. m \in Members(LoadedData(StoredDB))
      BY <1>2, <2>1 DEF Members
    <3>2. PICK r \in StoredDB.rows : r.id = m
      BY <1>2, <3>1, LoadFacts
    <3> QED BY <3>2, StoredRows DEF Ids
  <2> QED BY <2>2 DEF Unjudged
<1>5. Warming(e) = {}
  BY <1>2 DEF Warming, WorkersOf, Idle
<1>6. WarmBound(e, p)
  BY <1>4, <1>5, FS_EmptySet, Sizes DEF WarmBound
<1> QED BY <1>1, <1>3, <1>6

LEMMA WarmStep ==
  Inv /\ Inv' /\ HandInv /\ BufferInv /\ StoredInv /\ [Next]_vars /\ WarmInv => WarmInv'
<1> SUFFICES ASSUME Inv, Inv', HandInv, BufferInv, StoredInv, [Next]_vars, WarmInv,
                    NEW e \in Entity, IsHome(e)
             PROVE  /\ RowsArrive(OfEntity(e))'
                    /\ \E p \in Nat : Home(e, p)' /\ WarmBound(e, p)'
  BY DEF WarmInv, IsHome
<1>1. RowsArrive(OfEntity(e)) /\ PlaceInv'
  BY DEF WarmInv, Inv
<1>2. PICK p \in Nat : Home(e, p) /\ WarmBound(e, p)
  BY DEF WarmInv
<1>3. CASE Crash
  <2>1. PICK q \in Nat : Home(e, q)'
    BY <1>3, HomeCrash
  <2>2. WarmBound(e, q)'
    BY <1>1, <1>2, <1>3, <2>1, WarmCrash
  <2>3. e \in db.keys
    <3>1. PICK s \in Stored : EntityOf[s] = e
      BY DEF IsHome
    <3>2. PICK r \in db.rows : r.id = s /\ r.entity \in db.keys
      BY <3>1 DEF StoredInv
    <3> QED BY <3>1, <3>2, RowFacts DEF Inv, RowsInv, StoreInv
  <2> QED BY <1>3, <2>1, <2>2, <2>3, CrashRowsArrive
<1>4. CASE ~Crash
  <2>1. RowsArrive(OfEntity(e))'
    <3>1. OfEntity(e) \in SUBSET Metric
      BY DEF OfEntity
    <3> QED BY <1>1, <1>4, <3>1, RowsArriveStep
  <2>2. CASE \E w \in Worker : Process(w)
    <3>1. PICK w \in Worker : Process(w)
      BY <2>2
    <3>2. Grows /\ Home(e, p)'
      BY <1>2, <1>4, <3>1, StepGrows, HomeProcess
    <3>3. WarmBound(e, p)'
      BY <1>1, <1>2, <3>1, <3>2, WarmProcess
    <3> QED BY <2>1, <3>2, <3>3
  <2>3. CASE \A w \in Worker : ~Process(w)
    <3>1. Home(e, p)'
      BY <1>2, <1>4, <2>3, HomeOthers
    <3>2. WarmBound(e, p)'
      BY <1>1, <1>2, <1>4, <2>3, <3>1, WarmOthers
    <3> QED BY <2>1, <3>1, <3>2
  <2> QED BY <2>2, <2>3
<1> QED BY <1>3, <1>4

LEMMA WarmFacts == Inv /\ WarmInv => WarmUpIsBounded
<1> SUFFICES ASSUME Inv, WarmInv, NEW i \in DOMAIN data, NEW s \in ToSet(data[i]) \cap Stored
             PROVE  Cardinality(Unjudged(i)) <= Room(EntityOf[s])
  BY DEF WarmUpIsBounded, Room, WorkersOf
<1> DEFINE e == EntityOf[s]
<1>1. e \in Entity /\ IsHome(e)
  BY StoredAssumption DEF Entity, IsHome
<1>2. PICK p \in Nat : Home(e, p) /\ WarmBound(e, p)
  BY <1>1 DEF WarmInv
<1>3. i = p /\ Proper(data)
  BY <1>2 DEF Home, OneDataset, Inv, PlaceInv
<1>4. Cardinality(Unjudged(p)) \in Nat /\ Cardinality(Warming(e)) \in Nat /\ Room(e) \in Int
  BY <1>3, UnjudgedFinite, Sizes
<1> HIDE DEF Room
<1> QED BY <1>2, <1>3, <1>4 DEF WarmBound

(* However many workers overtake each other's checks, crashes interrupt    *)
(* them and batches reach the store in any order: the metrics that enter   *)
(* the dataset of the stored entity without being judged make it up to     *)
(* MinItems, but for one for each worker less one, and there are none when *)
(* what was stored was enough.                                             *)
THEOREM WarmUpIsAlwaysBounded == Spec => []WarmUpIsBounded
<1>1. Inv /\ HandInv /\ BufferInv /\ StoredInv /\ WarmInv /\ [Next]_vars /\ Inv' => WarmInv'
  BY WarmStep
<1> QED BY <1>1, WarmInit, WarmFacts, InvAlways, HandAlways, BufferAlways, StoredAlways, PTL
           DEF Spec
=============================================================================
