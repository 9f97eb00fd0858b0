------------------------------- MODULE IQueue -------------------------------
(***************************************************************************)
(* The in-memory queue of pkg/iqueue/queue.go: two channels of capacity    *)
(* one and a goroutine, Loop, that moves the values from the send channel  *)
(* to an unbounded list and from the list to the receive channel.          *)
(*                                                                         *)
(* The dispatcher has one queue per entity.  Its collector is the only     *)
(* sender; 2 * NumCPU workers receive.  Nothing in the program calls Close *)
(* or Init, so the branches for a closed send channel are not reachable    *)
(* and are left out.                                                       *)
(***************************************************************************)
EXTENDS Naturals, Sequences

CONSTANTS Value,     \* the values that are sent
          MaxSends   \* bound: the number of calls of Send

ASSUME MaxSendsAssumption == MaxSends \in Nat

ChanCap == 1    \* the capacity of both channels

VARIABLES
  sendCh,  \* Queue.send
  list,    \* Queue.queue, front first
  recvCh,  \* Queue.recv
  pc,      \* where Loop is
  val,     \* Loop's `value', as a sequence of at most one value: what it took
           \* from sendCh and did not push yet
  sent,    \* history: the values whose Send returned
  rcvd     \* history: the values a worker received

vars == <<sendCh, list, recvCh, pc, val, sent, rcvd>>

(* "top": about to look at the front of the list; "select": in the select  *)
(* statement, the list is not empty; "wait": in the plain receive, the     *)
(* list is empty; "remove": the front went to recvCh and is still in the   *)
(* list; "push": a value was taken from sendCh and is not in the list yet. *)
Control == {"top", "select", "wait", "remove", "push"}

Init == /\ sendCh = <<>>
        /\ list = <<>>
        /\ recvCh = <<>>
        /\ pc = "top"
        /\ val = <<>>
        /\ sent = <<>>
        /\ rcvd = <<>>

(* Send(v): blocks while the buffer of the channel is full. *)
Send(v) == /\ Len(sendCh) < ChanCap
           /\ Len(sent) < MaxSends
           /\ sendCh' = Append(sendCh, v)
           /\ sent' = Append(sent, v)
           /\ UNCHANGED <<list, recvCh, pc, val, rcvd>>

(* A worker takes a value from the channel that Receive() returns. *)
Receive == /\ recvCh # <<>>
           /\ rcvd' = Append(rcvd, Head(recvCh))
           /\ recvCh' = Tail(recvCh)
           /\ UNCHANGED <<sendCh, list, pc, val, sent>>

-----------------------------------------------------------------------------
(* The steps of Loop.                                                      *)

(* Mutant: never select, always wait for the next value. *)
FrontWaits == /\ pc = "top"
              /\ pc' = "wait"
              /\ UNCHANGED <<sendCh, list, recvCh, val, sent, rcvd>>

Front == /\ pc = "top"
         /\ pc' = IF list # <<>> THEN "select" ELSE "wait"
         /\ UNCHANGED <<sendCh, list, recvCh, val, sent, rcvd>>

(* Mutant: the front is not removed after it was handed out. *)
SelectRecvKeeps == /\ pc = "select"
                   /\ Len(recvCh) < ChanCap
                   /\ recvCh' = Append(recvCh, Head(list))
                   /\ pc' = "top"
                   /\ UNCHANGED <<sendCh, list, val, sent, rcvd>>

(* case iq.recv <- front.Value *)
SelectRecv == /\ pc = "select"
              /\ Len(recvCh) < ChanCap
              /\ recvCh' = Append(recvCh, Head(list))
              /\ pc' = "remove"
              /\ UNCHANGED <<sendCh, list, val, sent, rcvd>>

Remove == /\ pc = "remove"
          /\ list' = Tail(list)
          /\ pc' = "top"
          /\ UNCHANGED <<sendCh, recvCh, val, sent, rcvd>>

(* Mutant: the select statement does not receive. *)
TakeSentIdle == /\ pc = "wait"
                /\ sendCh # <<>>
                /\ val' = <<Head(sendCh)>>
                /\ sendCh' = Tail(sendCh)
                /\ pc' = "push"
                /\ UNCHANGED <<list, recvCh, sent, rcvd>>

(* value := <-iq.send, in the select statement or in the plain receive *)
TakeSent == /\ pc \in {"select", "wait"}
            /\ sendCh # <<>>
            /\ val' = <<Head(sendCh)>>
            /\ sendCh' = Tail(sendCh)
            /\ pc' = "push"
            /\ UNCHANGED <<list, recvCh, sent, rcvd>>

(* Mutant: PushFront for PushBack. *)
PushFront == /\ pc = "push"
             /\ list' = val \o list
             /\ val' = <<>>
             /\ pc' = "top"
             /\ UNCHANGED <<sendCh, recvCh, sent, rcvd>>

PushBack == /\ pc = "push"
            /\ list' = list \o val
            /\ val' = <<>>
            /\ pc' = "top"
            /\ UNCHANGED <<sendCh, recvCh, sent, rcvd>>

Loop == Front \/ SelectRecv \/ Remove \/ TakeSent \/ PushBack

Next == (\E v \in Value : Send(v)) \/ Receive \/ Loop

Spec == Init /\ [][Next]_vars

(* The Go scheduler runs every goroutine that can run.  Loop never blocks  *)
(* anywhere but on its channels.                                           *)
FairSpec == Spec /\ WF_vars(Loop)

-----------------------------------------------------------------------------
(* Properties.                                                             *)

TypeOK == /\ sendCh \in Seq(Value) /\ Len(sendCh) <= ChanCap
          /\ list \in Seq(Value)
          /\ recvCh \in Seq(Value) /\ Len(recvCh) <= ChanCap
          /\ pc \in Control
          /\ val \in Seq(Value)
          /\ sent \in Seq(Value)
          /\ rcvd \in Seq(Value)

(* The part of the list that was not handed out yet. *)
Waiting == IF pc = "remove" THEN Tail(list) ELSE list

(* Loop selects with an element in hand, removes the front it has, and     *)
(* holds a value between taking and pushing it only.                       *)
ControlInv == /\ pc \in {"select", "remove"} => list # <<>>
              /\ pc = "wait" => list = <<>>
              /\ pc # "push" => val = <<>>

(* Nothing is lost, duplicated or reordered between Send and Receive: what *)
(* was sent is what was received, followed by the contents of the receive  *)
(* channel, of the list, of Loop's hands and of the send channel.          *)
NothingLost == sent = rcvd \o recvCh \o Waiting \o val \o sendCh

(* The queue is a FIFO queue; and one that delivers everything if the      *)
(* workers receive as long as they can, which they do until they are       *)
(* shut down.                                                              *)
Abstract == INSTANCE FIFO WITH Value <- Value, sent <- sent, rcvd <- rcvd
ImplementsFIFO == Abstract!Spec
DeliversAll == WF_vars(Receive) => Abstract!Fairness

(* A sender is never blocked for ever, even when no worker ever receives:  *)
(* this is why the collector, which serves all entities, cannot be blocked *)
(* by one slow entity.                                                     *)
SenderNotBlocked == sendCh # <<>> ~> sendCh = <<>>
=============================================================================
