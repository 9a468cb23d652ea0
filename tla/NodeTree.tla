----------------------------- MODULE NodeTree -----------------------------
(***************************************************************************)
(* The nodes of the scene graph (sg/src/Node.cxx): trees of nodes that are *)
(* linked to their parent, first child and siblings, and that cache the    *)
(* number of nodes of the tree that they are the root of.                  *)
(*                                                                         *)
(* What the client calls is a step of this module.  The notifications that *)
(* the calls make are in module ScenePhysics.  A node that is destroyed is *)
(* taken for the next one that is created.                                 *)
(***************************************************************************)
EXTENDS Integers, Sequences, FiniteSets, SequencesExt

CONSTANTS
  Nodes,
  Scenes,  \* the nodes that are not insertable (Scene::isInsertable)
  None     \* the null pointer

ASSUME NodesAssumption ==
  /\ Scenes \subseteq Nodes
  /\ IsFiniteSet(Nodes)
  /\ None \notin Nodes

VARIABLE
  links  \* the members parent_, child_, prevSib_, nextSib_ and n_ of the nodes

Pointers == Nodes \cup {None}

Links == [parent : [Nodes -> Pointers], child : [Nodes -> Pointers],
          prevSib : [Nodes -> Pointers], nextSib : [Nodes -> Pointers],
          n : [Nodes -> Int]]

LinksOK == links \in Links

TreeInit ==
  links = [parent |-> [x \in Nodes |-> None], child |-> [x \in Nodes |-> None],
           prevSib |-> [x \in Nodes |-> None], nextSib |-> [x \in Nodes |-> None],
           n |-> [x \in Nodes |-> 1]]

-----------------------------------------------------------------------------
(* Walks along the links t.                                                *)

(* The nodes on the walk from x along f, by the number of steps.           *)
Walk(f, x) ==
  LET step[k \in 0..Cardinality(Nodes)] ==
        IF k = 0 THEN x
        ELSE LET y == step[k - 1] IN IF y = None THEN None ELSE f[y]
  IN step

Along(f, x) ==
  LET walk == Walk(f, x)
  IN  {walk[k] : k \in 0..Cardinality(Nodes)} \ {None}

(* x and its ancestors, which the loops over parent_ visit.                *)
Lineage(t, x) == Along(t.parent, x)

Ancestors(t, x) == IF t.parent[x] = None THEN {} ELSE Lineage(t, t.parent[x])

(* Node::Impl::isDescendantOf *)
IsDescendantOf(t, x, y) == y \in Ancestors(t, x)

(* Node::Impl::children: x's child and then its siblings.                  *)
Children(t, x) ==
  LET sib == Walk(t.nextSib, t.child[x])
      steps == {k \in 1..Cardinality(Nodes) : sib[k - 1] # None}
  IN  [k \in 1..Cardinality(steps) |-> sib[k - 1]]

ChildSet(t, x) == Along(t.nextSib, t.child[x])

(* What the children of x count, added up from one sibling to the next.    *)
CountBelow(t, x) ==
  LET sib == Walk(t.nextSib, t.child[x])
      sum[k \in 0..Cardinality(Nodes)] ==
        (IF k = 0 THEN 0 ELSE sum[k - 1])
          + (IF sib[k] = None THEN 0 ELSE t.n[sib[k]])
  IN  sum[Cardinality(Nodes)]

(* The nodes that Node::Impl::traverse visits from x, x included.          *)
Subtree(t, x) == {y \in Nodes : x \in Lineage(t, y)}

-----------------------------------------------------------------------------
(* What the operations make of the links t.                                *)

(* f with f[x] = y for the pairs <<x, y>> of S that have an x.             *)
Set(f, S) == [x \in Nodes |-> IF \E p \in S : p[1] = x
                              THEN (CHOOSE p \in S : p[1] = x)[2] ELSE f[x]]

(* The counts of x and its ancestors change by d.                          *)
Counted(t, x, d) ==
  [y \in Nodes |-> IF y \in Lineage(t, x) THEN t.n[y] + d ELSE t.n[y]]

(* Mutant of Dropped: the parent still has x as its first child.           *)
DroppedFromSiblings(t, x) ==
  LET p == t.parent[x]
      prev == t.prevSib[x]
      next == t.nextSib[x]
  IN  IF p = None THEN t
      ELSE [parent |-> Set(t.parent, {<<x, None>>}),
            child |-> t.child,
            prevSib |-> Set(t.prevSib, {<<next, prev>>, <<x, None>>}),
            nextSib |-> Set(t.nextSib, {<<prev, next>>, <<x, None>>}),
            n |-> Counted(t, p, -t.n[x])]

(* Node::Impl::drop *)
Dropped(t, x) ==
  LET p == t.parent[x]
      prev == t.prevSib[x]
      next == t.nextSib[x]
  IN  IF p = None THEN t
      ELSE [parent |-> Set(t.parent, {<<x, None>>}),
            child |-> IF prev = None THEN Set(t.child, {<<p, next>>}) ELSE t.child,
            prevSib |-> Set(t.prevSib, {<<next, prev>>, <<x, None>>}),
            nextSib |-> Set(t.nextSib, {<<prev, next>>, <<x, None>>}),
            n |-> Counted(t, p, -t.n[x])]

(* Mutant of Linked: x goes after the first child of p, not before it.     *)
LinkedSecond(t, p, x) ==
  LET first == t.child[p]
      next == IF first = None THEN None ELSE t.nextSib[first]
  IN  [parent |-> Set(t.parent, {<<x, p>>}),
       child |-> IF first = None THEN Set(t.child, {<<p, x>>}) ELSE t.child,
       prevSib |-> Set(t.prevSib, {<<x, first>>, <<next, x>>}),
       nextSib |-> Set(t.nextSib, {<<first, x>>, <<x, next>>}),
       n |-> Counted(t, p, t.n[x])]

(* The part of Node::Impl::insert that follows the drop: x, a root, is     *)
(* made the first child of p.                                              *)
Linked(t, p, x) ==
  LET first == t.child[p]
  IN  [parent |-> Set(t.parent, {<<x, p>>}),
       child |-> Set(t.child, {<<p, x>>}),
       prevSib |-> Set(t.prevSib, {<<first, x>>}),
       nextSib |-> IF first = None THEN t.nextSib ELSE Set(t.nextSib, {<<x, first>>}),
       n |-> Counted(t, p, t.n[x])]

(* Mutant of Pruned: the ancestors still count the nodes that left.        *)
PrunedUncounted(t, x) ==
  LET S == ChildSet(t, x)
  IN  IF S = {} THEN t
      ELSE [t EXCEPT !.parent = Set(@, S \X {None}), !.child = Set(@, {<<x, None>>}),
                     !.prevSib = Set(@, S \X {None}), !.nextSib = Set(@, S \X {None})]

(* Node::Impl::prune *)
Pruned(t, x) ==
  LET S == ChildSet(t, x)
  IN  IF S = {} THEN t
      ELSE [parent |-> Set(t.parent, S \X {None}),
            child |-> Set(t.child, {<<x, None>>}),
            prevSib |-> Set(t.prevSib, S \X {None}),
            nextSib |-> Set(t.nextSib, S \X {None}),
            n |-> Counted(t, x, -CountBelow(t, x))]

(* Node::Impl::~Impl: the node leaves its ancestors and its descendants.   *)
Cleared(t, x) == Pruned(Dropped(t, x), x)

-----------------------------------------------------------------------------
(* The operations, with the early returns and the checks that throw.       *)

MayInsert(p, c) ==
  /\ links.parent[c] # p
  /\ c # p
  /\ c \notin Scenes
  /\ ~IsDescendantOf(links, p, c)

Insert(p, c) ==
  /\ MayInsert(p, c)
  /\ links' = Linked(Dropped(links, c), p, c)

Drop(c) ==
  /\ links.parent[c] # None
  /\ links' = Dropped(links, c)

Prune(x) ==
  /\ links.child[x] # None
  /\ links' = Pruned(links, x)

Destroy(x) == links' = Cleared(links, x)

(* Node::operator=, for a node that is not itself: the implementation is   *)
(* replaced, which destroys the old one, and inserted beside the other's.  *)
(* A scene is assigned from a scene alone.                                 *)
Assign(x, other) ==
  LET t == Cleared(links, x)
      p == t.parent[other]
  IN  /\ x # other
      /\ links.child[other] = None
      /\ x \in Scenes <=> other \in Scenes
      /\ links' = IF p = None THEN t ELSE Linked(t, p, x)

TreeNext ==
  \/ \E p, c \in Nodes : Insert(p, c)
  \/ \E x \in Nodes : Drop(x) \/ Prune(x) \/ Destroy(x)
  \/ \E x, other \in Nodes : Assign(x, other)

TreeSpec == TreeInit /\ [][TreeNext]_links

-----------------------------------------------------------------------------
(* Properties.                                                             *)

(* No node is its own ancestor: the loops over parent_ end.                *)
Acyclic == \A x \in Nodes : x \notin Ancestors(links, x)

(* The links of a node are those of its neighbours, seen from their side:  *)
(* children have their parent, siblings follow each other in both          *)
(* directions, no node is reached from two places, and none from itself;   *)
(* nothing precedes a first child.                                         *)
LinksAgree ==
  /\ LinksOK /\ Acyclic
  /\ \A x \in Nodes : ChildSet(links, x) = {y \in Nodes : links.parent[y] = x}
  /\ \A x, y \in Nodes : links.nextSib[x] = y <=> links.prevSib[y] = x
  /\ \A x \in Nodes : links.child[x] # None => links.prevSib[links.child[x]] = None
  /\ \A x \in Nodes : links.parent[x] = None =>
                        links.prevSib[x] = None /\ links.nextSib[x] = None

(* Node::count is the number of nodes that a traversal visits.             *)
CountsRight == \A x \in Nodes : links.n[x] = Cardinality(Subtree(links, x))

(* Node::insert, drop, prune, operator= and ~Impl keep both.               *)
TreeRight == LinksAgree /\ CountsRight

(* The links implement the sequences of descendants of NodeForest.         *)
Forest == INSTANCE NodeForest WITH
  kids <- [x \in Nodes |-> Children(links, x)]

KeepsForest == Forest!Spec
=============================================================================
