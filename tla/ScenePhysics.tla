--------------------------- MODULE ScenePhysics ---------------------------
(***************************************************************************)
(* Scenes and the physics bodies of their nodes (sg/src/Scene.cxx,         *)
(* sg/src/Physics.cxx and Node::setBody in sg/src/Node.cxx), composed with *)
(* the node graph of NodeTree: the calls that change the graph notify the  *)
(* scenes that they concern, whose physics worlds record the bodies to add *)
(* or remove, and apply all of that when they are evaluated.               *)
(*                                                                         *)
(* A scene stands for its physics world too, and lives forever.            *)
(***************************************************************************)
EXTENDS NodeTree, TLC

CONSTANTS
  Bodies,      \* physics bodies that the program may create
  Categories,  \* the bits of a category mask
  Client       \* the calls that the client does not avoid:
               \*   "ascend"    insert(), into a scene, of a node further below it
               \*   "discard"   destruction of (or assignment to) a node whose
               \*               body is in a world
               \*   "rootBody"  setBody() of a scene
               \*   "share"     evaluation of a scene that a body moved to,
               \*               before that of the one it comes from

ASSUME BodiesAssumption == None \notin Bodies

VARIABLES
  body,     \* Node::Impl::body_, per node
  nodeOf,   \* Body::Impl::node_, per body
  worldOf,  \* Body::Impl::physicsWorld_, per body
  mask,     \* Body::Impl::categoryMask_, per body
  alive,    \* the bodies that exist
  bodies,   \* PhysicsWorld::Impl::bodies_, per scene
  groups,   \* PhysicsWorld::Impl::groups_, per scene and category
  changes,  \* PhysicsWorld::Impl::pendingChanges_, per scene
  updates,  \* PhysicsWorld::Impl::pendingUpdates_, per scene and body
  asserted  \* did an assertion of PhysicsWorld::Impl fail?

bodyVars == <<body, nodeOf, worldOf, mask, alive>>
worldVars == <<bodies, groups, changes, updates, asserted>>
physVars == <<links, bodyVars, worldVars>>

Masks == SUBSET Categories

PhysTypeOK ==
  /\ LinksOK
  /\ body \in [Nodes -> Bodies \cup {None}]
  /\ nodeOf \in [Bodies -> Pointers]
  /\ worldOf \in [Bodies -> Scenes \cup {None}]
  /\ mask \in [Bodies -> Masks]
  /\ alive \subseteq Bodies
  /\ bodies \in [Scenes -> SUBSET Bodies]
  /\ groups \in [Scenes -> [Categories -> SUBSET Bodies]]
  /\ changes \in [Scenes -> SUBSET Bodies]
  /\ DOMAIN updates = Scenes
  /\ \A s \in Scenes : DOMAIN updates[s] \subseteq Bodies
                       /\ \A b \in DOMAIN updates[s] : updates[s][b] \in Masks
  /\ asserted \in BOOLEAN

PhysInit ==
  /\ TreeInit
  /\ body = [x \in Nodes |-> None]
  /\ nodeOf = [b \in Bodies |-> None]
  /\ worldOf = [b \in Bodies |-> None]
  /\ mask = [b \in Bodies |-> {}]
  /\ alive = {}
  /\ bodies = [s \in Scenes |-> {}]
  /\ groups = [s \in Scenes |-> [g \in Categories |-> {}]]
  /\ changes = [s \in Scenes |-> {}]
  /\ updates = [s \in Scenes |-> <<>>]
  /\ asserted = FALSE

-----------------------------------------------------------------------------
(* What the worlds record.                                                 *)

(* The bodies of the nodes of S.                                           *)
BodiesOf(S) == {body[x] : x \in S} \ {None}

InWorld(b) == \E s \in Scenes : b \in bodies[s]

(* add() and remove() of a body do the same: a change that is recorded     *)
(* twice is recorded no more.  They differ in what they assert.            *)
Change(toAdd, toRemove) ==
  /\ changes' = [s \in Scenes |->
                   SymDiff(changes[s], SymDiff(toAdd[s], toRemove[s]))]
  /\ asserted' = (asserted \/ \E s \in Scenes :
                     \/ \E b \in toAdd[s] : b \in bodies[s] \ changes[s]
                     \/ \E b \in toRemove[s] : b \notin bodies[s] \cup changes[s])
  /\ UNCHANGED <<bodies, groups, updates>>

(* B for the scenes of S, nothing for the others.                          *)
For(S, B) == [s \in Scenes |-> IF s \in S THEN B ELSE {}]

Nothing == For({}, {})

(* Mutant of Without: they are not.                                        *)
Abandoned(B) == UNCHANGED <<alive, mask>>

(* The bodies of B are destroyed.                                          *)
Without(B) ==
  /\ alive' = alive \ B
  /\ mask' = [b \in Bodies |-> IF b \in B THEN {} ELSE mask[b]]

(* The mask that the world s files the body b under.                       *)
FiledMask(s, b) == IF b \in DOMAIN updates[s] THEN updates[s][b] ELSE mask[b]

-----------------------------------------------------------------------------
(* The calls that change the graph.                                        *)

(* Mutant of InsertNode: common ancestors are notified twice.              *)
InsertNodeNotifyAll(p, c) ==
  LET B == BodiesOf(Subtree(links, c))
  IN  /\ Insert(p, c)
      /\ "ascend" \in Client \/ p \notin Scenes \cap Ancestors(links, c)
      /\ Change(For(Lineage(links, p), B), For(Ancestors(links, c), B))
      /\ UNCHANGED bodyVars

(* Node::insert: the notifications of willInsert stop at the first common  *)
(* ancestor, c's parent's line included; those of willDrop at the first    *)
(* node that p descends from.                                              *)
InsertNode(p, c) ==
  LET B == BodiesOf(Subtree(links, c))
  IN  /\ Insert(p, c)
      /\ "ascend" \in Client \/ p \notin Scenes \cap Ancestors(links, c)
      /\ Change(For(Lineage(links, p) \ Ancestors(links, c), B),
                For(Ancestors(links, c) \ Ancestors(links, p), B))
      /\ UNCHANGED bodyVars

(* Mutant of DropNode: only the node itself is looked at.                  *)
DropNodeAlone(c) ==
  /\ Drop(c)
  /\ Change(Nothing, For(Lineage(links, c), BodiesOf({c})))
  /\ UNCHANGED bodyVars

DropNode(c) ==
  /\ Drop(c)
  /\ Change(Nothing, For(Lineage(links, c), BodiesOf(Subtree(links, c))))
  /\ UNCHANGED bodyVars

(* Node::prune of a node that is not a scene.                              *)
PruneNode(x) ==
  /\ x \notin Scenes
  /\ Prune(x)
  /\ Change(Nothing, For(Lineage(links, x), BodiesOf(Subtree(links, x) \ {x})))
  /\ UNCHANGED bodyVars

(* Node::prune of a scene, which clears its world: the bodies that their   *)
(* nodes released are destroyed.                                           *)
PruneScene(s) ==
  LET released == {b \in changes[s] : nodeOf[b] = None}
  IN  /\ s \in Scenes
      /\ "rootBody" \in Client \/ body[s] = None
      /\ Prune(s)
      /\ worldOf' = [b \in Bodies |-> IF b \in bodies[s] THEN None ELSE worldOf[b]]
      /\ bodies' = [bodies EXCEPT ![s] = {}]
      /\ groups' = [groups EXCEPT ![s] = [g \in Categories |-> {}]]
      /\ changes' = [changes EXCEPT ![s] = {}]
      /\ updates' = [updates EXCEPT ![s] = <<>>]
      /\ Without(released)
      /\ UNCHANGED <<body, nodeOf, asserted>>

(* ~Node: the scene is notified, and the body is destroyed with the node.  *)
DestroyNode(x) ==
  LET gone == {body[x]} \ {None}
  IN  /\ x \notin Scenes
      /\ "discard" \in Client \/ ~InWorld(body[x])
      /\ Destroy(x)
      /\ Change(Nothing, IF links.parent[x] = None THEN Nothing
                         ELSE For(Lineage(links, x), BodiesOf(Subtree(links, x))))
      /\ body' = [body EXCEPT ![x] = None]
      /\ nodeOf' = [b \in Bodies |-> IF b \in gone THEN None ELSE nodeOf[b]]
      /\ worldOf' = [b \in Bodies |-> IF b \in gone THEN None ELSE worldOf[b]]
      /\ Without(gone)

(* Node::operator=, and the copy constructor when x is a new node.  By the *)
(* time that the old implementation sends its notifications, x has the new *)
(* one, so that the scene sees neither the old body nor the descendants.   *)
(* If the other node has a body, b is its copy.                            *)
AssignNode(x, other, b) ==
  LET gone == {body[x]} \ {None}
      p == Cleared(links, x).parent[other]
      copy == {b} \ {None}
  IN  /\ x \notin Scenes
      /\ \/ "discard" \in Client
         \/ ~InWorld(body[x]) /\ Lineage(links, x) \cap Scenes = {}
      /\ Assign(x, other)
      /\ IF body[other] = None THEN b = None ELSE b \in Bodies \ alive
      /\ Change(IF p = None THEN Nothing ELSE For(Lineage(Cleared(links, x), p), copy),
                Nothing)
      /\ body' = [body EXCEPT ![x] = b]
      /\ nodeOf' = [c \in Bodies |-> IF c = b THEN x
                                     ELSE IF c \in gone THEN None ELSE nodeOf[c]]
      /\ worldOf' = [c \in Bodies |-> IF c \in gone THEN None ELSE worldOf[c]]
      /\ alive' = (alive \ gone) \cup copy
      /\ mask' = [c \in Bodies |-> IF c = b THEN mask[body[other]]
                                   ELSE IF c \in gone THEN {} ELSE mask[c]]

-----------------------------------------------------------------------------
(* Bodies.                                                                 *)

(* Node::setBody, with a new body b of category mask m, or with none: the  *)
(* scenes are notified, and the old body is destroyed unless it is in a    *)
(* world, which then has to do it.                                         *)
SetBody(x, b, m) ==
  LET old == body[x]
      leaves == IF old # None /\ worldOf[old] = None THEN {old} ELSE {}
  IN  /\ "rootBody" \in Client \/ x \notin Scenes
      /\ b = None => old # None
      /\ Change(For(Lineage(links, x), {b} \ {None}),
                For(Lineage(links, x), {old} \ {None}))
      /\ body' = [body EXCEPT ![x] = b]
      /\ nodeOf' = [c \in Bodies |-> IF c = b THEN x
                                     ELSE IF c = old THEN None ELSE nodeOf[c]]
      /\ alive' = (alive \ leaves) \cup ({b} \ {None})
      /\ mask' = [c \in Bodies |-> IF c = b THEN m
                                   ELSE IF c \in leaves THEN {} ELSE mask[c]]
      /\ UNCHANGED <<links, worldOf>>

NewBody(x, b, m) == b \notin alive /\ SetBody(x, b, m)

RemoveBody(x) == SetBody(x, None, {})

(* Mutant of SetCategoryMask: a second update replaces the first one.      *)
SetCategoryMaskAgain(b, m) ==
  LET s == worldOf[b]
  IN  /\ b \in alive
      /\ m # mask[b]
      /\ mask' = [mask EXCEPT ![b] = m]
      /\ updates' = IF s = None THEN updates
                    ELSE [updates EXCEPT ![s] = (b :> mask[b]) @@ @]
      /\ UNCHANGED <<links, body, nodeOf, worldOf, alive, bodies, groups, changes,
                     asserted>>

(* Body::setCategoryMask, and operator= from a body that has another mask, *)
(* which call PhysicsWorld::Impl::update: the mask that the world files    *)
(* the body under is kept, until it is the mask.                           *)
SetCategoryMask(b, m) ==
  LET s == worldOf[b]
      filed == FiledMask(s, b)
      pending == IF filed = m THEN DOMAIN updates[s] \ {b}
                 ELSE DOMAIN updates[s] \cup {b}
  IN  /\ b \in alive
      /\ m # mask[b]
      /\ mask' = [mask EXCEPT ![b] = m]
      /\ IF s = None THEN UNCHANGED <<updates, asserted>>
         ELSE /\ updates' = [updates EXCEPT ![s] =
                               [c \in pending |-> FiledMask(s, c)]]
              /\ asserted' = (asserted \/ b \notin bodies[s])
      /\ UNCHANGED <<links, body, nodeOf, worldOf, alive, bodies, groups, changes>>

-----------------------------------------------------------------------------
(* PhysicsWorld::Impl::evaluate, up to the simulation: applyChanges and    *)
(* then applyUpdates.                                                      *)

Evaluate(s) ==
  LET leave == changes[s] \cap bodies[s]
      enter == changes[s] \ bodies[s]
      stay == DOMAIN updates[s] \ changes[s]
      gone(g) == {b \in leave : g \in FiledMask(s, b)}
                   \cup {b \in stay : g \in updates[s][b] \ mask[b]}
      come(g) == {b \in enter : g \in mask[b]}
                   \cup {b \in stay : g \in mask[b] \ updates[s][b]}
      released == {b \in leave : nodeOf[b] = None}
  IN  /\ "share" \in Client \/ \A b \in enter : ~InWorld(b)
      /\ bodies' = [bodies EXCEPT ![s] = SymDiff(@, changes[s])]
      /\ groups' = [groups EXCEPT ![s] =
                      [g \in Categories |-> (@[g] \ gone(g)) \cup come(g)]]
      /\ worldOf' = [b \in Bodies |-> IF b \in leave THEN None
                                      ELSE IF b \in enter THEN s ELSE worldOf[b]]
      /\ changes' = [changes EXCEPT ![s] = {}]
      /\ updates' = [updates EXCEPT ![s] = <<>>]
      /\ Without(released)
      /\ UNCHANGED <<links, body, nodeOf, asserted>>

PhysNext ==
  \/ \E p, c \in Nodes : InsertNode(p, c)
  \/ \E x \in Nodes : DropNode(x) \/ PruneNode(x) \/ DestroyNode(x) \/ RemoveBody(x)
  \/ \E s \in Scenes : PruneScene(s) \/ Evaluate(s)
  \/ \E x \in Nodes, b \in Bodies, m \in Masks : NewBody(x, b, m)
  \/ \E b \in Bodies, m \in Masks : SetCategoryMask(b, m)
  \/ \E x, other \in Nodes, b \in Bodies \cup {None} : AssignNode(x, other, b)

PhysSpec == PhysInit /\ [][PhysNext]_physVars

-----------------------------------------------------------------------------
(* Properties.                                                             *)

(* Once its pending changes are applied, the world of a scene has exactly  *)
(* the bodies of the nodes below the scene, whatever calls were made since *)
(* the last evaluation, in whatever order.                                 *)
WorldsMatch ==
  /\ PhysTypeOK
  /\ \A s \in Scenes : SymDiff(bodies[s], changes[s]) = BodiesOf(Subtree(links, s))

(* A world has a body in the groups of the mask that it files it under,    *)
(* and in no other: when a body leaves it is found where it is looked for. *)
GroupsMatch ==
  \A s \in Scenes, g \in Categories :
    groups[s][g] = {b \in bodies[s] : g \in FiledMask(s, b)}

(* The worlds do not refer to bodies that were destroyed; a body refers to *)
(* the world that it is in; a world that still has a body that no node has *)
(* is about to remove it.                                                  *)
NoDangling ==
  /\ \A s \in Scenes : bodies[s] \cup changes[s] \cup DOMAIN updates[s] \subseteq alive
  /\ \A b \in alive, s \in Scenes : worldOf[b] = s <=> b \in bodies[s]
  /\ \A s \in Scenes : \A b \in bodies[s] : nodeOf[b] = None => b \in changes[s]

(* Every body has one owner that destroys it: its node, or, after its node *)
(* released it, the world that is about to remove it.                      *)
NoLeak ==
  \A b \in alive :
    IF nodeOf[b] # None THEN body[nodeOf[b]] = b
    ELSE \E s \in Scenes : b \in bodies[s] \cap changes[s]

(* What scenes refer to exists, and what exists is owned.                  *)
BodiesOwned == NoDangling /\ NoLeak

(* The assertions of add, remove and update in PhysicsWorld::Impl.         *)
AssertionsHold == ~asserted
=============================================================================
