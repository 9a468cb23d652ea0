---------------------------- MODULE NodeForest ----------------------------
(***************************************************************************)
(* What the node graph promises (sg/include/Node.h), whatever the nodes    *)
(* keep to implement it: every node has a sequence of immediate            *)
(* descendants, the most recently inserted first; the nodes are a forest.  *)
(***************************************************************************)
EXTENDS Naturals, Sequences, SequencesExt

CONSTANTS Nodes, Scenes  \* a scene has no ancestors

VARIABLE kids            \* the immediate descendants of each node

Init == kids = [x \in Nodes |-> <<>>]

Has(x, y) == \E k \in DOMAIN kids[x] : kids[x][k] = y

(* x and what descends from it, generation after generation: the least set *)
(* with x and with all that its elements have.                             *)
Closed(S) == \A x \in S, y \in Nodes : Has(x, y) => y \in S
Tree(x) == {y \in Nodes : \A S \in SUBSET Nodes : x \in S /\ Closed(S) => y \in S}

Without(c) ==
  [x \in Nodes |->
     IF Has(x, c) THEN RemoveAt(kids[x], CHOOSE k \in DOMAIN kids[x] : kids[x][k] = c)
                  ELSE kids[x]]

Insert(p, c) ==
  /\ c \notin Scenes
  /\ ~Has(p, c)
  /\ kids' = [Without(c) EXCEPT ![p] = <<c>> \o @]
  /\ p \notin Tree(c)

Drop(c) == kids' = Without(c)

Prune(p) == kids' = [kids EXCEPT ![p] = <<>>]

(* A node that is destroyed, or assigned to, takes leave of all others...  *)
Clear(x) == kids' = [Without(x) EXCEPT ![x] = <<>>]

(* ... and the assigned one then joins the ancestor of the one copied.     *)
Join(x, p) ==
  /\ x \notin Scenes
  /\ p # x
  /\ kids' = [Without(x) EXCEPT ![x] = <<>>, ![p] = <<x>> \o @]

(* Next is about steps that change something.                              *)
Next ==
  /\ kids' # kids
  /\ \/ \E p, c \in Nodes : Insert(p, c) \/ Join(c, p)
     \/ \E x \in Nodes : Drop(x) \/ Prune(x) \/ Clear(x)

Spec == Init /\ [][Next]_kids
=============================================================================
