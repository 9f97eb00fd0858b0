------------------------------- MODULE PQueue -------------------------------
(***************************************************************************)
(* pkg/pqueue: a queue of values in ascending order of their priorities,   *)
(* with a capacity, as both nearest neighbour searches use it (WithCap;    *)
(* the order is ascending unless WithOrderDesc is given, which no caller   *)
(* does).  sort.Sort puts values of equal priority in some order; here the *)
(* newer one comes last, and what is said of a search speaks of priorities *)
(* only.                                                                   *)
(***************************************************************************)
EXTENDS Integers, Sequences, FiniteSets, TLC

Entry(val, prior) == [value |-> val, prior |-> prior]

(* Mutant: the queue is cut before it is sorted. *)
PushCut(q, cap, e) ==
  IF Len(q) = cap THEN q
  ELSE LET i == Cardinality({j \in DOMAIN q : q[j].prior <= e.prior})
       IN SubSeq(q, 1, i) \o <<e>> \o SubSeq(q, i + 1, Len(q))

Push(q, cap, e) ==
  LET i == Cardinality({j \in DOMAIN q : q[j].prior <= e.prior})
      sorted == SubSeq(q, 1, i) \o <<e>> \o SubSeq(q, i + 1, Len(q))
  IN IF cap < Len(sorted) THEN SubSeq(sorted, 1, cap) ELSE sorted

PopAll(q) == [i \in DOMAIN q |-> q[i].value]

=============================================================================
