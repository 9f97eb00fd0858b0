------------------------------ MODULE Dataset -------------------------------
(***************************************************************************)
(* What a dataset that is searched in a tree of its own promises to the    *)
(* outlier factor.  A data point that is added is retained and searched at *)
(* once.  One that is removed is searched until the next refresh, which is *)
(* then due, and never comes back.  One that is retained leaves the search *)
(* only if it was added while the tree was built anew: it came too late.   *)
(***************************************************************************)
CONSTANTS Item,     \* the data points
          Initial   \* those it is built from

VARIABLES added,     \* those it was given
          retained,  \* those it retains
          searched,  \* those a search looks at
          building,  \* a tree is being built
          late,      \* the data points that it will miss
          due        \* a refresh is due

vars == <<added, retained, searched, building, late, due>>

Init == /\ added = Initial
        /\ retained = Initial
        /\ searched = Initial
        /\ building = FALSE
        /\ late = {}
        /\ due = FALSE

Add(i) == /\ i \notin added
          /\ added' = added \cup {i}
          /\ retained' = retained \cup {i}
          /\ searched' = searched \cup {i}
          /\ late' = IF building THEN late \cup {i} ELSE late
          /\ UNCHANGED <<building, due>>

Remove(R) == /\ ~building
             /\ retained' = retained \ R
             /\ due' = TRUE
             /\ UNCHANGED <<added, searched, building, late>>

Start == /\ ~building
         /\ building' = TRUE
         /\ UNCHANGED <<added, retained, searched, late, due>>

Finish == building /\ building' = FALSE /\ late' = {}

(* What is searched becomes what is retained, but for what came too late. *)
Refresh == /\ due
           /\ Finish
           /\ searched' = retained \ late
           /\ due' = FALSE
           /\ UNCHANGED <<added, retained>>

(* The tree is built from what it holds. *)
Rebalance == /\ Finish
             /\ searched' = searched \ late
             /\ UNCHANGED <<added, retained, due>>

Next == \/ \E i \in Item : Add(i)
        \/ \E R \in SUBSET retained : R # {} /\ Remove(R)
        \/ Start \/ Refresh \/ Rebalance

Spec == Init /\ [][Next]_vars
=============================================================================
