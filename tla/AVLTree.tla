------------------------------ MODULE AVLTree -------------------------------
(***************************************************************************)
(* pkg/avltree: the search tree that keeps the data points of a predictor  *)
(* in the order of their times.  Items are records with a field t, the     *)
(* only field that Subtraction compares (knn/avlnode); items of equal      *)
(* times are allowed and go to the left.                                   *)
(*                                                                         *)
(* insertLeft, insertRight and remove choose between a single and a double *)
(* rotation by a comparison with the node itself, which the caller has     *)
(* made already with the same result: only the single rotations are ever   *)
(* reached, and only they are here.                                        *)
(*                                                                         *)
(* The methods of node call themselves for its children: here a function   *)
(* for the trees of a height calls that for the trees below.               *)
(***************************************************************************)
EXTENDS Integers, Sequences

(* A TimeNode: a time, and the number of a data point for the data point.  *)
Item == [t : Nat, v : Nat]

Nil == [height |-> -1]

(* A node whose height is computed: computeHeight follows every change. *)
Node(i, l, r) ==
  [item |-> i, left |-> l, right |-> r,
   height |-> 1 + IF l.height < r.height THEN r.height ELSE l.height]

HeightDiff(n) == n.left.height - n.right.height

(* Mutant: the height of the node that goes down is not computed again. *)
RotateRightStale(n) ==
  Node(n.left.item, n.left.left, [n EXCEPT !.left = n.left.right])

RotateRight(n) ==
  Node(n.left.item, n.left.left, Node(n.item, n.left.right, n.right))

(* Mutant: the grandson goes to the wrong side. *)
RotateLeftSwapped(n) ==
  Node(n.right.item, Node(n.item, n.right.left, n.left), n.right.right)

RotateLeft(n) ==
  Node(n.right.item, Node(n.item, n.left, n.right.left), n.right.right)

LeftHeavy(n) == IF HeightDiff(n) = 2 THEN RotateRight(n) ELSE n
RightHeavy(n) == IF HeightDiff(n) = -2 THEN RotateLeft(n) ELSE n

(* The trees of a height below h.  Every node stores the height that its   *)
(* children give it.                                                       *)
Tree[h \in Nat] ==
  IF h = 0 THEN {Nil}
  ELSE LET Child == Tree[h - 1] IN
       {Nil} \cup {n \in [item : Item, left : Child, right : Child, height : 0 .. h - 1] :
                    n = Node(n.item, n.left, n.right)}

(* The walk through the tree from left to right, with the items that are   *)
(* wanted: pointsAsc wants all of them.                                    *)
InOrder(n, wanted) ==
  LET walk[h \in Nat] == [m \in Tree[h] |->
        IF m = Nil THEN <<>>
        ELSE walk[h - 1][m.left]
               \o (IF m.item \in wanted THEN <<m.item>> ELSE <<>>)
               \o walk[h - 1][m.right]]
  IN walk[n.height + 1][n]

Insert(n, i) ==
  LET add[h \in Nat] == [m \in Tree[h] |->
        CASE m = Nil -> Node(i, Nil, Nil)
          [] m # Nil /\ i.t <= m.item.t ->
               LeftHeavy(Node(m.item, add[h - 1][m.left], m.right))
          [] OTHER ->
               RightHeavy(Node(m.item, m.left, add[h - 1][m.right]))]
  IN add[n.height + 1][n]

(* The way down on the right ends at the last item of the walk. *)
Rightmost(n) == LET items == InOrder(n, Item) IN items[Len(items)]

(* Removes one item of the time of i.  The sides that are looked at after  *)
(* a removal are those that became lighter, so it hardly ever balances.    *)
Delete(n, i) ==
  LET remove[h \in Nat] == [m \in Tree[h] |-> [j \in Item |->
        CASE m = Nil -> Nil
          [] m # Nil /\ j.t = m.item.t ->
               IF m.left = Nil THEN m.right
               ELSE LET child == Rightmost(m.left)
                    IN Node(child, remove[h - 1][m.left][child], m.right)
          [] m # Nil /\ j.t < m.item.t ->
               LeftHeavy(Node(m.item, remove[h - 1][m.left][j], m.right))
          [] OTHER ->
               RightHeavy(Node(m.item, m.left, remove[h - 1][m.right][j]))]]
  IN remove[n.height + 1][n][i]

-----------------------------------------------------------------------------
(* The tree and the count of its items.                                    *)

New == [root |-> Nil, len |-> 0]
Add(tree, i) == [root |-> Insert(tree.root, i), len |-> tree.len + 1]

Remove(tree, i) ==
  IF tree.root = Nil THEN tree
  ELSE [root |-> Delete(tree.root, i), len |-> tree.len - 1]
Points(tree) == InOrder(tree.root, Item)
Filter(tree, wanted) == InOrder(tree.root, wanted)

=============================================================================
