---------------------------- MODULE IQueueProofs ----------------------------
(* Proofs about pkg/iqueue: the invariant of Loop, and that the queue      *)
(* implements a FIFO queue, for every set of values and every bound.       *)
EXTENDS IQueue, SequenceTheorems, TLAPS

-----------------------------------------------------------------------------
(* Lemmas on sequences.                                                    *)

(* A value that moves from the front of one sequence to the end of the one *)
(* before it leaves their concatenation as it was.                         *)
LEMMA HandOver ==
  ASSUME NEW S, NEW a \in Seq(S), NEW b \in Seq(S), b # <<>>
  PROVE  /\ Head(b) \in S
         /\ Tail(b) \in Seq(S)
         /\ Append(a, Head(b)) \in Seq(S)
         /\ Append(a, Head(b)) \o Tail(b) = a \o b
         /\ <<Head(b)>> \o Tail(b) = b
<1>1. /\ Head(b) \in S
      /\ Tail(b) \in Seq(S)
      /\ <<Head(b)>> \in Seq(S)
  BY HeadTailProperties
<1>2. <<Head(b)>> \o Tail(b) = b
  <2>1. /\ Len(Tail(b)) = Len(b) - 1
        /\ \A i \in 1 .. Len(Tail(b)) : Tail(b)[i] = b[i + 1]
        /\ Len(b) \in Nat \ {0}
    BY HeadTailProperties, EmptySeq
  <2>2. /\ <<Head(b)>> \o Tail(b) \in Seq(S)
        /\ Len(<<Head(b)>> \o Tail(b)) = 1 + Len(Tail(b))
        /\ \A i \in 1 .. 1 + Len(Tail(b)) :
             (<<Head(b)>> \o Tail(b))[i] =
                IF i <= 1 THEN <<Head(b)>>[i] ELSE Tail(b)[i - 1]
    <3>1. Len(<<Head(b)>>) = 1
      OBVIOUS
    <3>2. QED
      BY <1>1, <3>1, ConcatProperties
  <2>3. Head(b) = b[1]
    OBVIOUS
  <2>4. ASSUME NEW i \in 1 .. Len(b)
        PROVE  (<<Head(b)>> \o Tail(b))[i] = b[i]
    BY <2>1, <2>2, <2>3
  <2>5. QED
    BY <2>1, <2>2, <2>4, SeqEqual
<1>3. Append(a, Head(b)) = a \o <<Head(b)>>
  BY <1>1, AppendIsConcat
<1>4. (a \o <<Head(b)>>) \o Tail(b) = a \o (<<Head(b)>> \o Tail(b))
  BY <1>1, ConcatAssociative
<1>5. QED
  BY <1>1, <1>2, <1>3, <1>4, AppendProperties

(* Appending to the last of several sequences appends to the whole. *)
LEMMA AppendLast ==
  ASSUME NEW S, NEW a \in Seq(S), NEW b \in Seq(S), NEW v \in S
  PROVE  a \o Append(b, v) = Append(a \o b, v)
<1>1. /\ <<v>> \in Seq(S)
      /\ a \o b \in Seq(S)
  BY ConcatProperties
<1>2. /\ Append(b, v) = b \o <<v>>
      /\ Append(a \o b, v) = (a \o b) \o <<v>>
  BY <1>1, AppendIsConcat
<1>3. QED
  BY <1>1, <1>2, ConcatAssociative

(* The same facts for sequences of values, with concatenation as an        *)
(* operator that the provers are not shown the definition of.              *)
Q == Seq(Value)
Cat(x, y) == x \o y

LEMMA CatClosed == \A x, y \in Q : Cat(x, y) \in Q
BY ConcatProperties DEF Q, Cat

LEMMA CatAssoc == \A x, y, z \in Q : Cat(Cat(x, y), z) = Cat(x, Cat(y, z))
BY ConcatAssociative DEF Q, Cat

LEMMA CatEmpty == \A x \in Q : Cat(x, <<>>) = x
BY ConcatEmptySeq DEF Q, Cat

LEMMA CatHandOver ==
  ASSUME NEW x \in Q, NEW y \in Q, y # <<>>
  PROVE  /\ Cat(Append(x, Head(y)), Tail(y)) = Cat(x, y)
         /\ Cat(<<Head(y)>>, Tail(y)) = y
         /\ Append(x, Head(y)) \in Q
         /\ <<Head(y)>> \in Q
         /\ Tail(y) \in Q
<1>1. /\ Append(x, Head(y)) \o Tail(y) = x \o y
      /\ <<Head(y)>> \o Tail(y) = y
      /\ Append(x, Head(y)) \in Seq(Value)
      /\ Tail(y) \in Seq(Value)
      /\ Head(y) \in Value
  BY HandOver DEF Q
<1>2. <<Head(y)>> \in Seq(Value)
  BY <1>1
<1>3. QED
  BY <1>1, <1>2, Zenon DEF Q, Cat

LEMMA CatLast == \A x, y \in Q, v \in Value :
                   Cat(x, Append(y, v)) = Append(Cat(x, y), v)
BY AppendLast DEF Q, Cat

-----------------------------------------------------------------------------
(* The typed control invariant is inductive; TypeOK alone is not, because  *)
(* Head and Tail have a value only where ControlInv says the list has one. *)
Typed == TypeOK /\ ControlInv

LEMMA TypedInit == Init => Typed
BY DEF Init, Typed, TypeOK, ControlInv, ChanCap, Control

LEMMA TypedNext == Typed /\ [Next]_vars => Typed'
<1> SUFFICES ASSUME Typed, [Next]_vars
             PROVE  Typed'
  OBVIOUS
<1> USE DEF Typed, TypeOK, ControlInv, ChanCap, Control
<1>1. ASSUME NEW v \in Value, Send(v)
      PROVE  Typed'
  BY <1>1, AppendProperties DEF Send
<1>2. CASE Receive
  BY <1>2, HandOver, HeadTailProperties DEF Receive
<1>3. CASE Front
  BY <1>3 DEF Front
<1>4. CASE SelectRecv
  BY <1>4, HandOver, AppendProperties DEF SelectRecv
<1>5. CASE Remove
  BY <1>5, HeadTailProperties DEF Remove
<1>6. CASE TakeSent
  BY <1>6, HeadTailProperties DEF TakeSent
<1>7. CASE PushBack
  BY <1>7, ConcatProperties DEF PushBack
<1>8. CASE UNCHANGED vars
  BY <1>8 DEF vars
<1>9. QED
  BY <1>1, <1>2, <1>3, <1>4, <1>5, <1>6, <1>7, <1>8 DEF Next, Loop

(* Every variable keeps its type: the channels never exceed their capacity *)
(* and Loop is at one of its five places.                                  *)
THEOREM TypeCorrect == Spec => []TypeOK
<1>1. Typed => TypeOK
  BY DEF Typed
<1>2. QED
  BY <1>1, TypedInit, TypedNext, PTL DEF Spec

(* Loop has a front whenever it selects, and holds a value only between    *)
(* taking and pushing it.                                                  *)
THEOREM ControlCorrect == Spec => []ControlInv
<1>1. Typed => ControlInv
  BY DEF Typed
<1>2. QED
  BY <1>1, TypedInit, TypedNext, PTL DEF Spec

-----------------------------------------------------------------------------
(* Every step keeps the equation of NothingLost.                           *)
LEMMA NothingLostCat ==
  NothingLost <=> sent = Cat(Cat(Cat(Cat(rcvd, recvCh), Waiting), val), sendCh)
BY DEF NothingLost, Cat

LEMMA TypedCat ==
  Typed => /\ sendCh \in Q
           /\ list \in Q
           /\ recvCh \in Q
           /\ val \in Q
           /\ rcvd \in Q
           /\ Waiting \in Q
BY HeadTailProperties DEF Typed, TypeOK, ControlInv, Waiting, Q

LEMMA NothingLostNext ==
  Typed /\ NothingLost /\ [Next]_vars => NothingLost'
<1> SUFFICES ASSUME Typed, NothingLost, [Next]_vars
             PROVE  sent' = Cat(Cat(Cat(Cat(rcvd', recvCh'), Waiting'), val'), sendCh')
  BY DEF NothingLost, Cat
<1>1. /\ sendCh \in Q
      /\ list \in Q
      /\ recvCh \in Q
      /\ val \in Q
      /\ rcvd \in Q
      /\ Waiting \in Q
      /\ sent = Cat(Cat(Cat(Cat(rcvd, recvCh), Waiting), val), sendCh)
  BY TypedCat, NothingLostCat
<1>2. ASSUME NEW v \in Value, Send(v)
      PROVE  sent' = Cat(Cat(Cat(Cat(rcvd', recvCh'), Waiting'), val'), sendCh')
  <2>1. Waiting' = Waiting
    BY <1>2 DEF Send, Waiting
  <2>2. Cat(Cat(Cat(rcvd, recvCh), Waiting), val) \in Q
    BY <1>1, CatClosed
  <2>3. Cat(Cat(Cat(Cat(rcvd, recvCh), Waiting), val), Append(sendCh, v))
           = Append(sent, v)
    BY <1>1, <2>2, CatLast
  <2>4. QED
    BY <1>2, <2>1, <2>3, Zenon DEF Send
<1>3. CASE Receive
  <2>1. Waiting' = Waiting
    BY <1>3 DEF Receive, Waiting
  <2>2. Cat(Append(rcvd, Head(recvCh)), Tail(recvCh)) = Cat(rcvd, recvCh)
    BY <1>1, <1>3, CatHandOver DEF Receive
  <2>3. QED
    BY <1>1, <1>3, <2>1, <2>2 DEF Receive
<1>4. CASE Front
  BY <1>1, <1>4 DEF Front, Waiting
<1>5. CASE SelectRecv
  <2>1. /\ Waiting = list
        /\ Waiting' = Tail(list)
        /\ list # <<>>
    BY <1>5 DEF SelectRecv, Waiting, Typed, ControlInv
  <2>2. /\ Cat(Append(recvCh, Head(list)), Tail(list)) = Cat(recvCh, list)
        /\ Append(recvCh, Head(list)) \in Q
        /\ Tail(list) \in Q
    BY <1>1, <2>1, CatHandOver
  <2>3. Cat(Cat(rcvd, Append(recvCh, Head(list))), Tail(list))
           = Cat(Cat(rcvd, recvCh), list)
    BY <1>1, <2>2, CatAssoc
  <2>4. QED
    BY <1>1, <1>5, <2>1, <2>3 DEF SelectRecv
<1>6. CASE Remove
  BY <1>1, <1>6 DEF Remove, Waiting
<1>7. CASE TakeSent
  <2>1. /\ Waiting' = Waiting
        /\ val = <<>>
        /\ sendCh # <<>>
    BY <1>7 DEF TakeSent, Waiting, Typed, ControlInv
  <2>2. /\ Cat(<<Head(sendCh)>>, Tail(sendCh)) = sendCh
        /\ <<Head(sendCh)>> \in Q
        /\ Tail(sendCh) \in Q
    BY <1>1, <2>1, CatHandOver
  <2>3. Cat(Cat(rcvd, recvCh), Waiting) \in Q
    BY <1>1, CatClosed
  <2>4. Cat(Cat(Cat(Cat(rcvd, recvCh), Waiting), <<Head(sendCh)>>), Tail(sendCh))
           = Cat(Cat(Cat(rcvd, recvCh), Waiting), sendCh)
    BY <2>2, <2>3, CatAssoc
  <2>5. QED
    BY <1>1, <1>7, <2>1, <2>3, <2>4, CatEmpty DEF TakeSent
<1>8. CASE PushBack
  <2>1. /\ Waiting = list
        /\ Waiting' = Cat(list, val)
        /\ val' = <<>>
    BY <1>8 DEF PushBack, Waiting, Cat
  <2>2. /\ Cat(rcvd, recvCh) \in Q
        /\ Cat(Cat(rcvd, recvCh), Cat(list, val)) \in Q
    BY <1>1, CatClosed
  <2>3. Cat(Cat(Cat(rcvd, recvCh), Cat(list, val)), <<>>)
           = Cat(Cat(Cat(rcvd, recvCh), list), val)
    BY <1>1, <2>2, CatAssoc, CatEmpty
  <2>4. QED
    BY <1>1, <1>8, <2>1, <2>3 DEF PushBack
<1>9. CASE UNCHANGED vars
  BY <1>1, <1>9 DEF vars, Waiting
<1>10. QED
  BY <1>2, <1>3, <1>4, <1>5, <1>6, <1>7, <1>8, <1>9 DEF Next, Loop

LEMMA NothingLostInit == Init => NothingLost
BY ConcatEmptySeq DEF Init, NothingLost, Waiting

(* What was sent is always what was received followed by what the queue    *)
(* holds: Loop loses, duplicates and reorders nothing.                     *)
THEOREM NothingIsLost == Spec => []NothingLost
<1>1. QED
  BY TypedInit, TypedNext, NothingLostInit, NothingLostNext, PTL DEF Spec

-----------------------------------------------------------------------------
(* When a worker receives, it receives the oldest value that was not       *)
(* received yet.                                                           *)
LEMMA ReceiveIsOldest ==
  ASSUME Typed, NothingLost, Receive
  PROVE  Abstract!Receive
<1> DEFINE Rest == Cat(Waiting, Cat(val, sendCh))
           Held == Cat(recvCh, Rest)
<1>1. /\ sendCh \in Q
      /\ recvCh \in Q
      /\ val \in Q
      /\ rcvd \in Q
      /\ Waiting \in Q
      /\ sent = Cat(Cat(Cat(Cat(rcvd, recvCh), Waiting), val), sendCh)
  BY TypedCat, NothingLostCat
<1>2. /\ Cat(val, sendCh) \in Q
      /\ Cat(rcvd, recvCh) \in Q
      /\ Cat(Cat(rcvd, recvCh), Waiting) \in Q
      /\ Rest \in Q
      /\ Held \in Q
  BY <1>1, CatClosed
<1>3. sent = Cat(rcvd, Held)
  BY <1>1, <1>2, CatAssoc
<1> HIDE DEF Rest
<1>4. recvCh # <<>> /\ Len(recvCh) \in Nat \ {0} /\ Len(rcvd) \in Nat
  BY EmptySeq, LenProperties DEF Receive, Typed, TypeOK
<1>5. /\ Len(Held) = Len(recvCh) + Len(Rest)
      /\ Len(Rest) \in Nat
      /\ Held[1] = recvCh[1]
  BY <1>1, <1>2, <1>4, ConcatProperties, LenProperties DEF Q, Cat
<1>6. /\ Len(sent) = Len(rcvd) + Len(Held)
      /\ sent[Len(rcvd) + 1] = Held[1]
  BY <1>1, <1>2, <1>3, <1>4, <1>5, ConcatProperties DEF Q, Cat
<1>7. Len(rcvd) < Len(sent)
  BY <1>4, <1>5, <1>6
<1>8. sent[Len(rcvd) + 1] = Head(recvCh)
  BY <1>5, <1>6
<1>9. QED
  BY <1>7, <1>8 DEF Receive, Abstract!Receive

(* The queue of pkg/iqueue implements the unbounded FIFO queue: every Send *)
(* and every receive is one of the abstract queue, every step of Loop is   *)
(* invisible.                                                              *)
THEOREM QueueImplementsFIFO == Spec => ImplementsFIFO
<1>1. Init => Abstract!Init
  BY DEF Init, Abstract!Init
<1>2. Typed /\ NothingLost /\ [Next]_vars => [Abstract!Next]_(Abstract!vars)
  <2> SUFFICES ASSUME Typed, NothingLost, [Next]_vars
               PROVE  [Abstract!Next]_(Abstract!vars)
    OBVIOUS
  <2>1. ASSUME NEW v \in Value, Send(v)
        PROVE  Abstract!Next
    BY <2>1 DEF Send, Abstract!Next, Abstract!Send
  <2>2. CASE Receive
    BY <2>2, ReceiveIsOldest DEF Abstract!Next
  <2>3. CASE Loop \/ UNCHANGED vars
    BY <2>3 DEF Loop, Front, SelectRecv, Remove, TakeSent, PushBack, vars,
                Abstract!vars
  <2>4. QED
    BY <2>1, <2>2, <2>3 DEF Next
<1>3. QED
  BY <1>1, <1>2, TypedInit, TypedNext, NothingIsLost, PTL
     DEF Spec, ImplementsFIFO, Abstract!Spec
=============================================================================
