-------------------------- MODULE MCScenePhysics --------------------------
(***************************************************************************)
(* Model values for ScenePhysics: below one scene, three nodes make every  *)
(* call that moves a subtree with a body at each end; a second body can be *)
(* given to a node while the world still has the one that it released.     *)
(* Below two scenes, two nodes do.                                         *)
(***************************************************************************)
EXTENDS ScenePhysics

Symmetry ==
  Permutations(Scenes) \cup Permutations(Nodes \ Scenes)
    \cup Permutations(Bodies) \cup Permutations(Categories)

(* Bound: a node or a scene is not used.                                   *)
Spare(x) ==
  /\ links.parent[x] = None /\ links.child[x] = None /\ body[x] = None
  /\ x \in Scenes => bodies[x] \cup changes[x] = {}

Apart == \E x \in Nodes : Spare(x)
===========================================================================
