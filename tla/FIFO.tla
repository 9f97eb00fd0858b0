-------------------------------- MODULE FIFO --------------------------------
(***************************************************************************)
(* What pkg/iqueue promises its users: an unbounded first-in first-out     *)
(* queue.  The state is the history of the queue: everything that was sent *)
(* to it and everything that was received from it.                         *)
(***************************************************************************)
EXTENDS Naturals, Sequences

CONSTANT Value    \* what can be put into the queue

VARIABLES sent,   \* the values sent, in order
          rcvd    \* the values received, in order

vars == <<sent, rcvd>>

Init == sent = <<>> /\ rcvd = <<>>

Send(v) == /\ sent' = Append(sent, v)
           /\ UNCHANGED rcvd

(* The oldest value that was not received yet comes out. *)
Receive == /\ Len(rcvd) < Len(sent)
           /\ rcvd' = Append(rcvd, sent[Len(rcvd) + 1])
           /\ UNCHANGED sent

Next == (\E v \in Value : Send(v)) \/ Receive

Spec == Init /\ [][Next]_vars

(* Nothing stays in the queue for ever. *)
Fairness == WF_vars(Receive)
=============================================================================
