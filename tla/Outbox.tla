------------------------------- MODULE Outbox -------------------------------
(***************************************************************************)
(* What a notifier that sends nothing can promise about the outliers it is *)
(* told of: it holds each in memory or keeps it in the store, in one alert *)
(* only and for good, and what is in memory alone is lost when the process *)
(* ends, and only then.  An outlier is the number of its notification.     *)
(***************************************************************************)
EXTENDS Naturals

VARIABLES count,   \* the number of notifications
          held,    \* those in memory only
          kept,    \* the alerts in the store: sets of notifications
          lost     \* those that went with a process

vars == <<count, held, kept, lost>>

Init == count = 0 /\ held = {} /\ kept = {} /\ lost = {}

Accept == /\ count' = count + 1
          /\ held' = held \cup {count + 1}
          /\ UNCHANGED <<kept, lost>>

Keep(S) == /\ S # {}
           /\ kept' = kept \cup {S}
           /\ held' = held \ S
           /\ UNCHANGED <<count, lost>>

Lose == /\ held' = {}
        /\ lost' = lost \cup held
        /\ UNCHANGED <<count, kept>>

Next == Accept \/ (\E S \in SUBSET held : Keep(S)) \/ Lose

Spec == Init /\ [][Next]_vars
=============================================================================
