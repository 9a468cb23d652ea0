-------------------------- MODULE SceneGraph_proofs --------------------------
(***************************************************************************)
(* Theorems about the objects of a scene: the node graph and the physics   *)
(* worlds, modules NodeTree and ScenePhysics, and the memory of meshes,    *)
(* module Segments, for any primitives, semantics and sizes, and for a     *)
(* buffer of any size.                                                     *)
(***************************************************************************)
EXTENDS ScenePhysics, Segments, Numbers_proofs, FiniteSetTheorems, SequenceTheorems, TLAPS

-----------------------------------------------------------------------------
(* Walks along a kind of link.                                             *)

LinkTo == [Nodes -> Pointers]

AreSteps(g, f, x, n) ==
  g = [k \in 0..n |-> IF k = 0 THEN x
                      ELSE LET y == g[k - 1] IN IF y = None THEN None ELSE f[y]]

(* There is a walk of any length.                                          *)
LEMMA StepsExist ==
  ASSUME NEW f, NEW x, NEW n \in Nat
  PROVE  \E g : AreSteps(g, f, x, n)
<1> USE DEF AreSteps
<1> DEFINE Reached == {k \in 0..n : \E g : AreSteps(g, f, x, k)}
           Onward(y) == IF y = None THEN None ELSE f[y]
<1>1. 0 \in Reached
  <2>1. PICK g : g = [k \in 0..0 |-> x]
    OBVIOUS
  <2>2. g = [k \in 0..0 |-> IF k = 0 THEN x ELSE Onward(g[k - 1])]
    BY <2>1
  <2> QED BY <2>2
<1>2. ASSUME NEW k \in 0..(n - 1), k \in Reached PROVE k + 1 \in Reached
  <2>1. PICK g : g = [i \in 0..k |-> IF i = 0 THEN x ELSE Onward(g[i - 1])]
    BY <1>2
  <2>2. PICK h : h = [i \in 0..(k + 1) |-> IF i = k + 1 THEN Onward(g[k]) ELSE g[i]]
    OBVIOUS
  <2> HIDE DEF Onward
  <2>3. \A i \in 0..(k + 1) : h[i] = IF i = 0 THEN x ELSE Onward(h[i - 1])
    <3> TAKE i \in 0..(k + 1)
    <3>1. CASE i = 0
      BY <2>1, <2>2, <3>1
    <3>2. CASE i = k + 1
      <4>1. h[k + 1] = Onward(g[k]) /\ h[k] = g[k]
        BY <2>2
      <4> QED BY <3>2, <4>1
    <3>3. CASE i # 0 /\ i # k + 1
      <4>1. i \in 0..k /\ i - 1 \in 0..(k + 1) /\ i - 1 # k + 1
        BY <3>3
      <4>2. h[i] = g[i] /\ h[i - 1] = g[i - 1]
        BY <2>2, <3>3, <4>1
      <4>3. g[i] = Onward(g[i - 1])
        BY <2>1, <3>3, <4>1
      <4> QED BY <3>3, <4>2, <4>3
    <3> QED BY <3>1, <3>2, <3>3
  <2>4. h = [i \in 0..(k + 1) |-> IF i = 0 THEN x ELSE Onward(h[i - 1])]
    BY <2>2, <2>3
  <2> QED BY <2>4 DEF Onward
<1>3. 0..n \subseteq Reached
  <2> HIDE DEF Reached
  <2> QED BY <1>1, <1>2, CountUp
<1> QED BY <1>3

(* The nodes on a walk are the first one and then those that f leads to.   *)
LEMMA WalkSteps ==
  ASSUME NEW f \in LinkTo, NEW x \in Pointers, NEW n \in Nat,
         n = Cardinality(Nodes)
  PROVE  /\ Walk(f, x) \in [0..n -> Pointers]
         /\ Walk(f, x)[0] = x
         /\ \A k \in 0..(n - 1) :
              Walk(f, x)[k + 1] = IF Walk(f, x)[k] = None THEN None
                                  ELSE f[Walk(f, x)[k]]
<1> DEFINE walk == CHOOSE g : AreSteps(g, f, x, n)
<1>1. AreSteps(walk, f, x, n)
  BY StepsExist
<1>2. walk = Walk(f, x)
  BY DEF Walk, AreSteps
<1> HIDE DEF walk
<1>3. walk[0] = x
  BY <1>1 DEF AreSteps
<1>4. \A k \in 0..(n - 1) :
        walk[k + 1] = IF walk[k] = None THEN None ELSE f[walk[k]]
  BY <1>1 DEF AreSteps
<1>5. 0..n \subseteq {k \in 0..n : walk[k] \in Pointers}
  <2> DEFINE S == {k \in 0..n : walk[k] \in Pointers}
  <2>1. 0 \in S
    BY <1>3
  <2>2. ASSUME NEW k \in 0..(n - 1), k \in S PROVE k + 1 \in S
    BY <2>2, <1>4 DEF LinkTo, Pointers
  <2> HIDE DEF S
  <2>3. 0..n \subseteq S
    BY <2>1, <2>2, CountUp
  <2> QED BY <2>3 DEF S
<1>6. walk \in [0..n -> Pointers]
  BY <1>1, <1>5 DEF AreSteps
<1> QED BY <1>2, <1>3, <1>4, <1>6

(* The number of steps of a walk.                                          *)
LEMMA StepsOfWalk ==
  ASSUME NodesAssumption
  PROVE  Cardinality(Nodes) \in Nat
BY NodesAssumption, FS_CardinalityType DEF NodesAssumption

(* What one comes along is nodes, the first one among them.                *)
LEMMA AlongStarts ==
  ASSUME NodesAssumption, NEW f \in LinkTo, NEW x \in Pointers
  PROVE  /\ Along(f, x) \subseteq Nodes
         /\ x # None => x \in Along(f, x)
         /\ x = None => Along(f, x) = {}
<1>1. PICK n \in Nat : n = Cardinality(Nodes)
  BY StepsOfWalk
<1>2. PICK walk : walk = Walk(f, x)
  OBVIOUS
<1>3. /\ walk \in [0..n -> Pointers]
      /\ walk[0] = x
      /\ \A k \in 0..(n - 1) :
           walk[k + 1] = IF walk[k] = None THEN None ELSE f[walk[k]]
  BY <1>1, <1>2, WalkSteps
<1>4. Along(f, x) = {walk[k] : k \in 0..n} \ {None}
  BY <1>1, <1>2 DEF Along
<1>5. Along(f, x) \subseteq Nodes
  BY <1>3, <1>4 DEF Pointers
<1>6. x # None => x \in Along(f, x)
  BY <1>3, <1>4
<1>7. ASSUME x = None PROVE Along(f, x) = {}
  <2> DEFINE S == {k \in 0..n : walk[k] = None}
  <2>1. 0 \in S
    BY <1>3, <1>7
  <2>2. ASSUME NEW k \in 0..(n - 1), k \in S PROVE k + 1 \in S
    BY <2>2, <1>3
  <2> HIDE DEF S
  <2>3. 0..n \subseteq S
    BY <2>1, <2>2, CountUp
  <2> QED BY <2>3, <1>4 DEF S
<1> QED BY <1>5, <1>6, <1>7

(* A set that x is in and that f does not leave has all that one comes     *)
(* along.                                                                  *)
LEMMA AlongWithin ==
  ASSUME NodesAssumption, NEW f \in LinkTo, NEW x \in Pointers, NEW S,
         x # None => x \in S,
         \A y \in S : y \in Nodes /\ f[y] # None => f[y] \in S
  PROVE  Along(f, x) \subseteq S
<1>1. PICK n \in Nat : n = Cardinality(Nodes)
  BY StepsOfWalk
<1>2. PICK walk : walk = Walk(f, x)
  OBVIOUS
<1>3. /\ walk \in [0..n -> Pointers]
      /\ walk[0] = x
      /\ \A k \in 0..(n - 1) :
           walk[k + 1] = IF walk[k] = None THEN None ELSE f[walk[k]]
  BY <1>1, <1>2, WalkSteps
<1>4. Along(f, x) = {walk[k] : k \in 0..n} \ {None}
  BY <1>1, <1>2 DEF Along
<1> DEFINE T == {k \in 0..n : walk[k] = None \/ walk[k] \in S}
<1>5. 0 \in T
  BY <1>3
<1>6. ASSUME NEW k \in 0..(n - 1), k \in T PROVE k + 1 \in T
  <2>1. walk[k] \in Pointers /\ k \in 0..n /\ k + 1 \in 0..n
    BY <1>3
  <2>2. CASE walk[k] = None
    BY <2>1, <2>2, <1>3
  <2>3. CASE walk[k] # None
    <3>1. walk[k] \in Nodes /\ walk[k] \in S
      BY <2>1, <2>3, <1>6 DEF Pointers
    <3>2. walk[k + 1] = f[walk[k]]
      BY <2>3, <1>3
    <3> QED BY <3>1, <3>2, <2>1
  <2> QED BY <2>2, <2>3
<1> HIDE DEF T
<1>7. 0..n \subseteq T
  BY <1>5, <1>6, CountUp
<1> QED BY <1>4, <1>7 DEF T

(* There are fewer nodes than steps: one does not come to a new node       *)
(* forever.                                                                *)
LEMMA AlongCloses ==
  ASSUME NodesAssumption, NEW f \in LinkTo, NEW x \in Pointers,
         NEW y \in Along(f, x), f[y] # None
  PROVE  f[y] \in Along(f, x)
<1>1. PICK n \in Nat : n = Cardinality(Nodes)
  BY StepsOfWalk
<1>2. PICK walk : walk = Walk(f, x)
  OBVIOUS
<1>3. /\ walk \in [0..n -> Pointers]
      /\ walk[0] = x
      /\ \A k \in 0..(n - 1) :
           walk[k + 1] = IF walk[k] = None THEN None ELSE f[walk[k]]
  BY <1>1, <1>2, WalkSteps
<1>4. Along(f, x) = {walk[k] : k \in 0..n} \ {None}
  BY <1>1, <1>2 DEF Along
<1>5. PICK k \in 0..n : y = walk[k] /\ walk[k] # None
  BY <1>4
<1>6. CASE k # n
  <2>1. k \in 0..(n - 1) /\ k + 1 \in 0..n
    BY <1>6
  <2>2. walk[k + 1] = f[y]
    BY <2>1, <1>3, <1>5
  <2> QED BY <2>1, <2>2, <1>4
<1>7. CASE k = n
  <2>1. \A m \in 0..n : walk[m] \in Nodes
    <3> DEFINE S == {m \in 0..n : walk[n - m] \in Nodes}
    <3>1. 0 \in S
      <4>1. n - 0 = n /\ n \in 0..n
        OBVIOUS
      <4> QED BY <4>1, <1>3, <1>5, <1>7 DEF Pointers
    <3>2. ASSUME NEW m \in 0..(n - 1), m \in S PROVE m + 1 \in S
      <4>1. PICK i \in 0..(n - 1) : i = n - (m + 1)
        OBVIOUS
      <4>2. i + 1 = n - m /\ i \in 0..n
        BY <4>1
      <4>3. walk[i + 1] # None
        BY <4>2, <3>2, NodesAssumption DEF NodesAssumption
      <4>4. walk[i] # None
        BY <4>3, <1>3
      <4> QED BY <4>1, <4>2, <4>4, <1>3 DEF Pointers
    <3> HIDE DEF S
    <3>3. 0..n \subseteq S
      BY <3>1, <3>2, CountUp
    <3> TAKE m \in 0..n
    <3>4. n - m \in 0..n /\ n - (n - m) = m
      OBVIOUS
    <3> QED BY <3>3, <3>4 DEF S
  <2>2. PICK i \in 0..n, j \in 0..n : i < j /\ walk[i] = walk[j]
    <3>1. IsFiniteSet(0..n) /\ Cardinality(0..n) = n + 1
      BY FS_Interval
    <3>2. walk \in [0..n -> Nodes]
      BY <2>1, <1>3
    <3>3. \E i, j \in 0..n : i # j /\ walk[i] = walk[j]
      BY <3>1, <3>2, <1>1, FS_PigeonHole, NodesAssumption DEF NodesAssumption
    <3> QED BY <3>3
  <2> DEFINE T == {m \in 0..(n - j) : walk[i + m] = walk[j + m]}
  <2>3. 0 \in T
    <3>1. n - j \in Nat /\ i + 0 = i /\ j + 0 = j
      BY <2>2
    <3> QED BY <3>1, <2>2
  <2>4. ASSUME NEW m \in 0..(n - j - 1), m \in T PROVE m + 1 \in T
    <3>1. /\ i + m \in 0..(n - 1) /\ j + m \in 0..(n - 1) /\ m + 1 \in 0..(n - j)
          /\ i + (m + 1) = (i + m) + 1 /\ j + (m + 1) = (j + m) + 1
      BY <2>2
    <3>2. walk[(i + m) + 1] = walk[(j + m) + 1]
      BY <3>1, <2>4, <1>3
    <3> QED BY <3>1, <3>2
  <2> HIDE DEF T
  <2>5. n - j \in Nat
    BY <2>2
  <2>6. 0..(n - j) \subseteq T
    BY <2>3, <2>4, <2>5, CountUp
  <2>7. walk[i + (n - j)] = y
    <3>1. n - j \in T /\ j + (n - j) = n
      BY <2>5, <2>6
    <3> QED BY <3>1, <1>5, <1>7 DEF T
  <2>8. PICK l \in 0..(n - 1) : l = i + (n - j)
    BY <2>2
  <2>9. walk[l + 1] = f[y] /\ l + 1 \in 0..n
    BY <2>7, <2>8, <1>3, <1>5
  <2> QED BY <2>9, <1>4
<1> QED BY <1>6, <1>7

(* What one comes along from a node that one comes along, and at first.    *)
LEMMA AlongFurther ==
  ASSUME NodesAssumption, NEW f \in LinkTo, NEW x \in Pointers,
         NEW y \in Along(f, x)
  PROVE  Along(f, y) \subseteq Along(f, x)
<1>1. y \in Pointers
  BY AlongStarts DEF Pointers
<1>2. \A z \in Along(f, x) : z \in Nodes /\ f[z] # None => f[z] \in Along(f, x)
  BY AlongCloses
<1> QED BY <1>1, <1>2, AlongWithin

(* A walk visits its first node, and then what a walk from the next one    *)
(* does.                                                                   *)
LEMMA AlongFirst ==
  ASSUME NodesAssumption, NEW f \in LinkTo, NEW x \in Nodes
  PROVE  Along(f, x) = {x} \cup Along(f, f[x])
<1> USE DEF Pointers, LinkTo
<1>1. x \in Pointers /\ f[x] \in Pointers /\ x # None /\ x \in Along(f, x)
  BY AlongStarts, NodesAssumption DEF NodesAssumption
<1>2. Along(f, f[x]) \subseteq Along(f, x)
  <2>1. CASE f[x] = None
    <3>1. Along(f, f[x]) = {}
      BY <1>1, <2>1, AlongStarts
    <3> QED BY <3>1
  <2>2. CASE f[x] # None
    <3>1. f[x] \in Along(f, x)
      BY <1>1, <2>2, AlongCloses
    <3> QED BY <3>1, <1>1, AlongFurther
  <2> QED BY <2>1, <2>2
<1>3. Along(f, x) \subseteq {x} \cup Along(f, f[x])
  <2> DEFINE S == {x} \cup Along(f, f[x])
  <2>1. ASSUME NEW y \in S, y \in Nodes, f[y] # None PROVE f[y] \in S
    <3>1. CASE y = x
      BY <1>1, <2>1, <3>1, AlongStarts
    <3>2. CASE y \in Along(f, f[x])
      <4>1. f[y] \in Along(f, f[x])
        BY <1>1, <2>1, <3>2, AlongCloses
      <4> QED BY <4>1
    <3> QED BY <2>1, <3>1, <3>2
  <2>2. x \in S
    OBVIOUS
  <2> HIDE DEF S
  <2>3. Along(f, x) \subseteq S
    BY <2>1, <2>2, <1>1, AlongWithin
  <2> QED BY <2>3 DEF S
<1> QED BY <1>1, <1>2, <1>3

(* Of two nodes that one comes along, one is further along than the other. *)
LEMMA AlongEither ==
  ASSUME NodesAssumption, NEW f \in LinkTo, NEW x \in Pointers,
         NEW y \in Along(f, x), NEW z \in Along(f, x)
  PROVE  y \in Along(f, z) \/ z \in Along(f, y)
<1> DEFINE S == {u \in Along(f, x) : y \in Along(f, u) \/ u \in Along(f, y)}
<1>1. Along(f, x) \subseteq Nodes /\ y \in Pointers
  BY AlongStarts DEF Pointers
<1>2. x # None => x \in S
  BY AlongStarts
<1>3. ASSUME NEW u \in S, u \in Nodes, f[u] # None PROVE f[u] \in S
  <2>1. f[u] \in Along(f, x)
    BY <1>3, AlongCloses
  <2>2. Along(f, u) = {u} \cup Along(f, f[u])
    BY <1>3, AlongFirst
  <2>3. CASE y = u
    <3>1. f[u] \in Along(f, y)
      <4>1. f[u] \in Along(f, f[u])
        BY <1>3, <2>1, <1>1, AlongStarts DEF Pointers
      <4> QED BY <4>1, <2>2, <2>3
    <3> QED BY <2>1, <3>1
  <2>4. CASE y \in Along(f, f[u])
    BY <2>1, <2>4
  <2>5. CASE u \in Along(f, y)
    <3>1. f[u] \in Along(f, y)
      BY <1>1, <1>3, <2>5, AlongCloses
    <3> QED BY <2>1, <3>1
  <2> QED BY <1>3, <2>2, <2>3, <2>4, <2>5
<1>4. Along(f, x) \subseteq S
  <2> HIDE DEF S
  <2> QED BY <1>2, <1>3, AlongWithin
<1> QED BY <1>4

(* No node comes after itself.                                             *)
NoCircle(f) == \A x \in Nodes : x \notin Along(f, f[x])

(* Two nodes do not come after each other.                                 *)
LEMMA AlongOneWay ==
  ASSUME NodesAssumption, NEW f \in LinkTo, NoCircle(f),
         NEW x \in Nodes, NEW y \in Along(f, x), x \in Along(f, y)
  PROVE  x = y
<1> SUFFICES ASSUME x # y PROVE FALSE
  OBVIOUS
<1>1. y \in Along(f, f[x]) /\ f[x] \in Pointers
  BY AlongFirst DEF LinkTo, Pointers
<1>2. x \in Along(f, f[x])
  BY <1>1, AlongFurther
<1> QED BY <1>2 DEF NoCircle

(* What one comes along depends on the links of those nodes alone.         *)
LEMMA AlongSame ==
  ASSUME NodesAssumption, NEW f \in LinkTo, NEW g \in LinkTo,
         NEW x \in Pointers, \A y \in Along(f, x) : g[y] = f[y]
  PROVE  Along(g, x) = Along(f, x)
<1>1. Along(f, x) \subseteq Nodes /\ (x # None => x \in Along(f, x))
  BY AlongStarts
<1>2. Along(g, x) \subseteq Along(f, x)
  <2>1. \A y \in Along(f, x) : y \in Nodes /\ g[y] # None => g[y] \in Along(f, x)
    BY AlongCloses
  <2> QED BY <2>1, <1>1, AlongWithin
<1>3. Along(f, x) \subseteq Along(g, x)
  <2> DEFINE S == {y \in Along(f, x) : y \in Along(g, x)}
  <2>1. x # None => x \in S
    BY <1>1, AlongStarts
  <2>2. \A y \in S : y \in Nodes /\ f[y] # None => f[y] \in S
    BY AlongCloses
  <2>3. Along(f, x) \subseteq S
    <3> HIDE DEF S
    <3> QED BY <2>1, <2>2, AlongWithin
  <2> QED BY <2>3
<1> QED BY <1>2, <1>3

(* One comes to a node, but the first, from one that links to it.          *)
LEMMA AlongEntered ==
  ASSUME NodesAssumption, NEW f \in LinkTo, NEW x \in Pointers,
         NEW y \in Along(f, x), y # x
  PROVE  \E u \in Along(f, x) : f[u] = y
<1> SUFFICES ASSUME \A u \in Along(f, x) : f[u] # y PROVE FALSE
  OBVIOUS
<1> DEFINE S == Along(f, x) \ {y}
<1>1. x # None => x \in S
  BY AlongStarts
<1>2. \A u \in S : u \in Nodes /\ f[u] # None => f[u] \in S
  BY AlongCloses
<1>3. Along(f, x) \subseteq S
  <2> HIDE DEF S
  <2> QED BY <1>1, <1>2, AlongWithin
<1> QED BY <1>3

(* The links of the nodes of C are cut, which were all to p.               *)
CutAt(g, f, C) ==
  /\ g \in LinkTo
  /\ \A u \in C : g[u] = None
  /\ \A u \in Nodes \ C : g[u] = f[u]

AllTo(f, C, p) == \A u \in C : f[u] = p

(* When links to p are cut, those that came to p that way come no further. *)
LEMMA AlongCut ==
  ASSUME NodesAssumption, NEW f \in LinkTo, NoCircle(f), NEW p \in Nodes,
         NEW C \in SUBSET Nodes, AllTo(f, C, p),
         NEW g \in LinkTo, CutAt(g, f, C), NEW y \in Nodes
  PROVE  /\ (\E u \in C : u \in Along(f, y))
               => Along(g, y) = Along(f, y) \ Along(f, p)
         /\ (\A u \in C : u \notin Along(f, y)) => Along(g, y) = Along(f, y)
<1> USE DEF CutAt, AllTo
<1>0. p \in Pointers /\ y \in Pointers /\ p # None /\ y # None
  BY NodesAssumption DEF Pointers, NodesAssumption
<1>1. /\ Along(f, y) \subseteq Nodes /\ y \in Along(f, y)
      /\ Along(f, p) \subseteq Nodes /\ p \in Along(f, p) /\ y \in Along(g, y)
  BY <1>0, AlongStarts
<1>2. CASE ~ \E u \in C : u \in Along(f, y)
  <2>1. \A u \in Along(f, y) : g[u] = f[u]
    BY <1>1, <1>2
  <2>2. Along(g, y) = Along(f, y)
    BY <1>0, <2>1, AlongSame
  <2> QED BY <1>2, <2>2
<1>3. CASE \E u \in C : u \in Along(f, y)
  <2>1. PICK c \in C : c \in Along(f, y)
    BY <1>3
  <2>2. f[c] = p /\ c \notin Along(f, p) /\ c \in Nodes
    BY <2>1 DEF NoCircle
  <2>3. Along(f, c) = {c} \cup Along(f, p)
    BY <2>2, AlongFirst
  <2>4. Along(g, y) \subseteq Along(f, y) \ Along(f, p)
    <3> DEFINE S == Along(f, y) \ Along(f, p)
    <3>1. y \in S
      <4> SUFFICES ASSUME y \in Along(f, p) PROVE FALSE
        BY <1>1
      <4>1. Along(f, y) \subseteq Along(f, p)
        BY <1>0, AlongFurther
      <4> QED BY <4>1, <2>1, <2>2
    <3>2. ASSUME NEW u \in S, u \in Nodes, g[u] # None PROVE g[u] \in S
      <4>1. u \notin C /\ g[u] = f[u] /\ f[u] # None
        BY <3>2
      <4>2. f[u] \in Along(f, y)
        BY <1>0, <4>1, <3>2, AlongCloses
      <4> SUFFICES ASSUME f[u] \in Along(f, p) PROVE FALSE
        BY <4>1, <4>2
      <4>3. Along(f, u) = {u} \cup Along(f, f[u])
        BY <3>2, AlongFirst
      <4>4. u \in Along(f, c) \/ c \in Along(f, u)
        BY <1>0, <2>1, <3>2, AlongEither
      <4>5. u \notin Along(f, c)
        BY <4>1, <2>1, <2>3, <3>2
      <4>6. c \in Along(f, f[u])
        BY <4>1, <4>3, <4>4, <4>5, <2>1
      <4>7. Along(f, f[u]) \subseteq Along(f, p)
        BY <1>0, AlongFurther
      <4> QED BY <4>6, <4>7, <2>2
    <3> HIDE DEF S
    <3>3. Along(g, y) \subseteq S
      BY <1>0, <3>1, <3>2, AlongWithin
    <3> QED BY <3>3 DEF S
  <2>5. Along(f, y) \ Along(f, p) \subseteq Along(g, y)
    <3> DEFINE S == {u \in Along(f, y) : u \in Along(g, y) \/ u \in Along(f, p)}
    <3>1. y \in S
      BY <1>1
    <3>2. ASSUME NEW u \in S, u \in Nodes, f[u] # None PROVE f[u] \in S
      <4>1. f[u] \in Along(f, y)
        BY <1>0, <3>2, AlongCloses
      <4>2. CASE u \in Along(f, p)
        <5>1. f[u] \in Along(f, p)
          BY <1>0, <3>2, <4>2, AlongCloses
        <5> QED BY <4>1, <5>1
      <4>3. CASE u \in C
        BY <4>1, <4>3, <1>1
      <4>4. CASE u \in Along(g, y) /\ u \notin C
        <5>1. g[u] = f[u]
          BY <3>2, <4>4
        <5>2. f[u] \in Along(g, y)
          BY <1>0, <3>2, <4>4, <5>1, AlongCloses
        <5> QED BY <4>1, <5>2
      <4> QED BY <3>2, <4>2, <4>3, <4>4
    <3> HIDE DEF S
    <3>3. Along(f, y) \subseteq S
      BY <1>0, <3>1, <3>2, AlongWithin
    <3> QED BY <3>3 DEF S
  <2> QED BY <1>3, <2>4, <2>5
<1> QED BY <1>2, <1>3

(* When x, that linked to nothing, links to p, those that come to x come   *)
(* to all that p comes to.                                                 *)
LEMMA AlongJoined ==
  ASSUME NodesAssumption, NEW f \in LinkTo, NEW x \in Nodes, NEW p \in Nodes,
         f[x] = None, x \notin Along(f, p), NEW g \in LinkTo,
         \A u \in Nodes : g[u] = IF u = x THEN p ELSE f[u],
         NEW y \in Nodes
  PROVE  /\ Along(g, y) = Along(f, y) \cup (IF x \in Along(f, y) THEN Along(f, p)
                                            ELSE {})
         /\ Along(g, p) = Along(f, p)
<1>0. /\ p \in Pointers /\ y \in Pointers /\ p # None /\ y # None
      /\ x \in Pointers /\ x # None
  BY NodesAssumption DEF Pointers, NodesAssumption
<1>1. /\ Along(f, y) \subseteq Nodes /\ y \in Along(f, y)
      /\ Along(f, p) \subseteq Nodes /\ p \in Along(f, p) /\ y \in Along(g, y)
  BY <1>0, AlongStarts
<1>2. Along(g, p) = Along(f, p)
  <2>1. \A u \in Along(f, p) : g[u] = f[u]
    BY <1>1
  <2> QED BY <1>0, <2>1, AlongSame
<1>3. CASE x \notin Along(f, y)
  <2>1. \A u \in Along(f, y) : g[u] = f[u]
    BY <1>1, <1>3
  <2>2. Along(g, y) = Along(f, y)
    BY <1>0, <2>1, AlongSame
  <2> QED BY <1>2, <1>3, <2>2
<1>4. CASE x \in Along(f, y)
  <2>1. Along(g, y) \subseteq Along(f, y) \cup Along(f, p)
    <3> DEFINE S == Along(f, y) \cup Along(f, p)
    <3>1. ASSUME NEW u \in S, u \in Nodes, g[u] # None PROVE g[u] \in S
      <4>1. CASE u = x
        BY <1>1, <4>1, <3>1
      <4>2. CASE u # x /\ u \in Along(f, y)
        <5>1. f[u] \in Along(f, y)
          BY <1>0, <3>1, <4>2, AlongCloses
        <5> QED BY <3>1, <4>2, <5>1
      <4>3. CASE u # x /\ u \in Along(f, p)
        <5>1. f[u] \in Along(f, p)
          BY <1>0, <3>1, <4>3, AlongCloses
        <5> QED BY <3>1, <4>3, <5>1
      <4> QED BY <3>1, <4>1, <4>2, <4>3
    <3>2. y \in S
      BY <1>1
    <3> HIDE DEF S
    <3>3. Along(g, y) \subseteq S
      BY <1>0, <3>1, <3>2, AlongWithin
    <3> QED BY <3>3 DEF S
  <2>2. Along(f, y) \subseteq Along(g, y)
    <3> DEFINE S == {u \in Along(f, y) : u \in Along(g, y)}
    <3>1. y \in S
      BY <1>1
    <3>2. ASSUME NEW u \in S, u \in Nodes, f[u] # None PROVE f[u] \in S
      <4>1. f[u] \in Along(f, y) /\ u # x /\ g[u] = f[u]
        BY <1>0, <3>2, AlongCloses
      <4>2. f[u] \in Along(g, y)
        BY <1>0, <3>2, <4>1, AlongCloses
      <4> QED BY <4>1, <4>2
    <3> HIDE DEF S
    <3>3. Along(f, y) \subseteq S
      BY <1>0, <3>1, <3>2, AlongWithin
    <3> QED BY <3>3 DEF S
  <2>3. Along(f, p) \subseteq Along(g, y)
    <3>1. x \in Along(g, y) /\ g[x] = p
      BY <1>4, <2>2
    <3>2. p \in Along(g, y)
      BY <1>0, <3>1, AlongCloses
    <3> QED BY <1>0, <1>2, <3>2, AlongFurther
  <2> QED BY <1>2, <1>4, <2>1, <2>2, <2>3
<1> QED BY <1>3, <1>4

(* When what links to x links to what x links to instead, one comes along  *)
(* the same nodes but x.                                                   *)
LEMMA AlongSpliced ==
  ASSUME NodesAssumption, NEW f \in LinkTo, NEW g \in LinkTo,
         NEW x \in Nodes, f[x] # x,
         \A u \in Nodes : u # x => g[u] = IF f[u] = x THEN f[x] ELSE f[u],
         NEW s \in Pointers, NEW t \in Pointers,
         t = IF s = x THEN f[x] ELSE s
  PROVE  Along(g, t) = Along(f, s) \ {x}
<1>0. /\ Along(f, s) \subseteq Nodes /\ (s # None => s \in Along(f, s))
      /\ t # None => t \in Along(g, t)
  BY AlongStarts
<1>1. Along(g, t) \subseteq Along(f, s) \ {x}
  <2> DEFINE S == Along(f, s) \ {x}
  <2>1. t # None => t \in S
    <3>1. CASE s = x
      <4>1. s # None
        BY <3>1, NodesAssumption DEF NodesAssumption
      <4> QED BY <1>0, <3>1, <4>1, AlongCloses
    <3>2. CASE s # x
      BY <1>0, <3>2
    <3> QED BY <3>1, <3>2
  <2>2. ASSUME NEW u \in S, u \in Nodes, g[u] # None PROVE g[u] \in S
    <3>1. CASE f[u] = x
      <4>1. g[u] = f[x] /\ x \in Along(f, s)
        <5>1. x # None
          BY NodesAssumption DEF NodesAssumption
        <5> QED BY <2>2, <3>1, <5>1, AlongCloses
      <4>2. f[x] \in Along(f, s)
        BY <4>1, <2>2, AlongCloses
      <4> QED BY <4>1, <4>2
    <3>2. CASE f[u] # x
      <4>1. g[u] = f[u]
        BY <2>2, <3>2
      <4>2. f[u] \in Along(f, s)
        BY <4>1, <2>2, AlongCloses
      <4> QED BY <3>2, <4>1, <4>2
    <3> QED BY <3>1, <3>2
  <2> HIDE DEF S
  <2>3. Along(g, t) \subseteq S
    BY <2>1, <2>2, AlongWithin
  <2> QED BY <2>3 DEF S
<1>2. Along(f, s) \ {x} \subseteq Along(g, t)
  <2> DEFINE S == {u \in Along(f, s) :
                     \/ u \in Along(g, t)
                     \/ u = x /\ (s = x \/ \E w \in Along(g, t) : w # x /\ f[w] = x)}
  <2>1. s # None => s \in S
    BY <1>0
  <2>2. ASSUME NEW u \in S, u \in Nodes, f[u] # None PROVE f[u] \in S
    <3>1. f[u] \in Along(f, s)
      BY <2>2, AlongCloses
    <3>2. CASE u # x /\ f[u] = x
      BY <2>2, <3>1, <3>2
    <3>3. CASE u # x /\ f[u] # x
      <4>1. g[u] = f[u] /\ u \in Along(g, t)
        BY <2>2, <3>3
      <4>2. f[u] \in Along(g, t)
        BY <2>2, <4>1, AlongCloses
      <4> QED BY <3>1, <4>2
    <3>4. CASE u = x
      <4>1. x \notin Along(g, t)
        BY <1>1
      <4>2. CASE s = x
        BY <1>0, <2>2, <3>1, <3>4, <4>2
      <4>3. CASE \E w \in Along(g, t) : w # x /\ f[w] = x
        <5>1. PICK w \in Along(g, t) : w # x /\ f[w] = x
          BY <4>3
        <5>2. w \in Nodes /\ g[w] = f[x]
          BY <1>0, <1>1, <5>1
        <5>3. f[x] \in Along(g, t)
          BY <2>2, <3>4, <5>2, AlongCloses
        <5> QED BY <3>1, <3>4, <5>3
      <4> QED BY <2>2, <3>4, <4>1, <4>2, <4>3
    <3> QED BY <3>2, <3>3, <3>4
  <2> HIDE DEF S
  <2>3. Along(f, s) \subseteq S
    BY <2>1, <2>2, AlongWithin
  <2> QED BY <2>3 DEF S
<1> QED BY <1>1, <1>2

-----------------------------------------------------------------------------
(* The links of a forest.                                                  *)

(* LinksAgree of the links t.                                              *)
GoodLinks(t) ==
  /\ t \in Links
  /\ NoCircle(t.parent)
  /\ \A x \in Nodes : ChildSet(t, x) = {y \in Nodes : t.parent[y] = x}
  /\ \A x, y \in Nodes : t.nextSib[x] = y <=> t.prevSib[y] = x
  /\ \A x \in Nodes : t.child[x] # None => t.prevSib[t.child[x]] = None
  /\ \A x \in Nodes : t.parent[x] = None =>
                        t.prevSib[x] = None /\ t.nextSib[x] = None

(* CountsRight of the links t.                                             *)
GoodCounts(t) == \A x \in Nodes : t.n[x] = Cardinality(Subtree(t, x))

(* A change of one pointer, of two, and of those of a set.                 *)
ChangedAt(g, f, a, b) ==
  /\ g \in LinkTo
  /\ \A u \in Nodes : g[u] = IF u = a THEN b ELSE f[u]

ChangedAtTwo(g, f, a, b, c, d) ==
  /\ g \in LinkTo
  /\ \A u \in Nodes : g[u] = IF u = a THEN b ELSE IF u = c THEN d ELSE f[u]

(* Set changes the one link that it is given, if it is the link of a       *)
(* node.                                                                   *)
LEMMA SetOne ==
  ASSUME NEW f \in LinkTo, NEW a \in Pointers, NEW b \in Pointers
  PROVE  ChangedAt(Set(f, {<<a, b>>}), f, a, b)
<1>1. \A u \in Nodes : (\E p \in {<<a, b>>} : p[1] = u) <=> u = a
  OBVIOUS
<1>2. ASSUME NEW u \in Nodes, u = a
      PROVE  (CHOOSE p \in {<<a, b>>} : p[1] = u)[2] = b
  <2>1. PICK p : p = CHOOSE q \in {<<a, b>>} : q[1] = u
    OBVIOUS
  <2>2. p = <<a, b>>
    BY <2>1, <1>1, <1>2
  <2>3. p[2] = b
    BY <2>2
  <2> QED BY <2>1, <2>3, Zenon
<1>3. \A u \in Nodes : Set(f, {<<a, b>>})[u] = IF u = a THEN b ELSE f[u]
  BY <1>1, <1>2 DEF Set
<1>4. Set(f, {<<a, b>>}) = [u \in Nodes |-> IF u = a THEN b ELSE f[u]]
  BY <1>3 DEF Set
<1>5. Set(f, {<<a, b>>}) \in LinkTo
  BY <1>4 DEF LinkTo
<1> QED BY <1>3, <1>5 DEF ChangedAt

(* Set changes the two links that it is given.                             *)
LEMMA SetTwo ==
  ASSUME NEW f \in LinkTo, NEW a \in Pointers, NEW b \in Pointers,
         NEW c \in Pointers, NEW d \in Pointers, a # c
  PROVE  ChangedAtTwo(Set(f, {<<a, b>>, <<c, d>>}), f, a, b, c, d)
<1> DEFINE S == {<<a, b>>, <<c, d>>}
<1>1. \A u \in Nodes : (\E p \in S : p[1] = u) <=> u = a \/ u = c
  OBVIOUS
<1>2. ASSUME NEW u \in Nodes, u = a PROVE (CHOOSE p \in S : p[1] = u)[2] = b
  <2>1. PICK p : p = CHOOSE q \in S : q[1] = u
    OBVIOUS
  <2>2. p \in S /\ p[1] = u
    BY <2>1, <1>1, <1>2
  <2> QED BY <2>1, <2>2, <1>2
<1>3. ASSUME NEW u \in Nodes, u = c PROVE (CHOOSE p \in S : p[1] = u)[2] = d
  <2>1. PICK p : p = CHOOSE q \in S : q[1] = u
    OBVIOUS
  <2>2. p \in S /\ p[1] = u
    BY <2>1, <1>1, <1>3
  <2> QED BY <2>1, <2>2, <1>3
<1> HIDE DEF S
<1>4. \A u \in Nodes : Set(f, S)[u] =
        IF u = a THEN b ELSE IF u = c THEN d ELSE f[u]
  BY <1>1, <1>2, <1>3 DEF Set
<1>5. Set(f, S) = [u \in Nodes |->
                     IF u = a THEN b ELSE IF u = c THEN d ELSE f[u]]
  BY <1>4 DEF Set
<1>6. Set(f, S) \in LinkTo
  BY <1>5 DEF LinkTo
<1> QED BY <1>4, <1>6 DEF S, ChangedAtTwo

(* Set cuts the links of all nodes that it is given.                       *)
LEMMA SetAll ==
  ASSUME NEW f \in LinkTo, NEW C \in SUBSET Nodes
  PROVE  CutAt(Set(f, C \X {None}), f, C)
<1>1. \A u \in Nodes : (\E p \in C \X {None} : p[1] = u) <=> u \in C
  <2> TAKE u \in Nodes
  <2>1. ASSUME u \in C PROVE \E p \in C \X {None} : p[1] = u
    <3>1. <<u, None>> \in C \X {None} /\ <<u, None>>[1] = u
      BY <2>1
    <3> QED BY <3>1
  <2> QED BY <2>1
<1>2. ASSUME NEW u \in Nodes, u \in C
      PROVE  (CHOOSE p \in C \X {None} : p[1] = u)[2] = None
  <2>1. PICK p : p = CHOOSE q \in C \X {None} : q[1] = u
    OBVIOUS
  <2>2. p \in C \X {None}
    BY <2>1, <1>1, <1>2
  <2> QED BY <2>1, <2>2
<1>3. \A u \in Nodes : Set(f, C \X {None})[u] = IF u \in C THEN None ELSE f[u]
  BY <1>1, <1>2 DEF Set
<1>4. Set(f, C \X {None}) = [u \in Nodes |-> IF u \in C THEN None ELSE f[u]]
  BY <1>3 DEF Set
<1>5. Set(f, C \X {None}) \in LinkTo
  BY <1>4 DEF LinkTo, Pointers
<1> QED BY <1>3, <1>5 DEF CutAt

(* The links are functions; no sibling follows itself, and siblings have   *)
(* one parent.                                                             *)
LEMMA LinksTyped ==
  ASSUME NEW t \in Links
  PROVE  /\ t.parent \in LinkTo /\ t.child \in LinkTo
         /\ t.prevSib \in LinkTo /\ t.nextSib \in LinkTo
         /\ t.n \in [Nodes -> Int]
         /\ t = [parent |-> t.parent, child |-> t.child, prevSib |-> t.prevSib,
                 nextSib |-> t.nextSib, n |-> t.n]
BY DEF Links, LinkTo

(* A node and its next sibling are different children of one node.         *)
LEMMA SiblingsShareParent ==
  ASSUME NodesAssumption, NEW t, GoodLinks(t), NEW x \in Nodes, NEW y \in Nodes,
         t.nextSib[x] = y
  PROVE  x # y /\ t.parent[x] # None /\ t.parent[y] = t.parent[x]
<1> USE DEF GoodLinks
<1>0. /\ t.parent \in LinkTo /\ t.child \in LinkTo
      /\ t.prevSib \in LinkTo /\ t.nextSib \in LinkTo
  BY LinksTyped
<1>1. t.prevSib[y] = x /\ x # None /\ y # None
  BY NodesAssumption DEF NodesAssumption
<1>2. PICK p : p = t.parent[y]
  OBVIOUS
<1>3. p \in Nodes
  BY <1>0, <1>1, <1>2 DEF LinkTo, Pointers
<1>4. PICK f \in LinkTo, s \in Pointers : f = t.nextSib /\ s = t.child[p]
  BY <1>0, <1>3 DEF LinkTo
<1>5. Along(f, s) = {u \in Nodes : t.parent[u] = p}
  BY <1>3, <1>4 DEF ChildSet
<1>6. y \in Along(f, s) /\ y # s
  BY <1>1, <1>2, <1>3, <1>4, <1>5
<1>7. PICK u \in Along(f, s) : f[u] = y
  BY <1>6, AlongEntered
<1>8. u = x
  BY <1>1, <1>4, <1>5, <1>7
<1>9. t.parent[x] = p
  BY <1>5, <1>7, <1>8
<1>10. ASSUME x = y PROVE FALSE
  <2> DEFINE S == Along(f, s) \ {x}
  <2>1. s # None => s \in S
    BY <1>6, <1>10, AlongStarts
  <2>2. ASSUME NEW v \in S, v \in Nodes, f[v] # None PROVE f[v] \in S
    <3>1. f[v] \in Along(f, s)
      BY <2>2, AlongCloses
    <3>2. f[v] # x
      BY <1>1, <1>4, <1>10, <2>2
    <3> QED BY <3>1, <3>2
  <2>3. Along(f, s) \subseteq S
    <3> HIDE DEF S
    <3> QED BY <2>1, <2>2, AlongWithin
  <2> QED BY <1>6, <1>10, <2>3
<1>11. p # None
  BY <1>3, NodesAssumption DEF NodesAssumption
<1> QED BY <1>2, <1>9, <1>10, <1>11

(* The links that drop() leaves.                                           *)
LEMMA DroppedLinks ==
  ASSUME NodesAssumption, NEW t, GoodLinks(t), NEW x \in Nodes,
         t.parent[x] # None
  PROVE  /\ Dropped(t, x).parent \in LinkTo /\ Dropped(t, x).child \in LinkTo
         /\ Dropped(t, x).prevSib \in LinkTo /\ Dropped(t, x).nextSib \in LinkTo
         /\ Dropped(t, x).n = Counted(t, t.parent[x], -t.n[x])
         /\ Dropped(t, x) = [parent |-> Dropped(t, x).parent,
                             child |-> Dropped(t, x).child,
                             prevSib |-> Dropped(t, x).prevSib,
                             nextSib |-> Dropped(t, x).nextSib,
                             n |-> Dropped(t, x).n]
         /\ \A u \in Nodes :
              /\ Dropped(t, x).parent[u] = IF u = x THEN None ELSE t.parent[u]
              /\ Dropped(t, x).child[u] = IF t.child[u] = x THEN t.nextSib[x]
                                          ELSE t.child[u]
              /\ Dropped(t, x).nextSib[u] = IF u = x THEN None
                                            ELSE IF t.nextSib[u] = x THEN t.nextSib[x]
                                            ELSE t.nextSib[u]
              /\ Dropped(t, x).prevSib[u] = IF u = x THEN None
                                            ELSE IF t.prevSib[u] = x THEN t.prevSib[x]
                                            ELSE t.prevSib[u]
<1>0. /\ t.parent \in LinkTo /\ t.child \in LinkTo
      /\ t.prevSib \in LinkTo /\ t.nextSib \in LinkTo
      /\ None \in Pointers /\ None \notin Nodes
  BY LinksTyped, NodesAssumption DEF GoodLinks, Pointers, NodesAssumption
<1>1. PICK p, prev, next : p = t.parent[x] /\ prev = t.prevSib[x] /\ next = t.nextSib[x]
  OBVIOUS
<1>2. p \in Nodes /\ prev \in Pointers /\ next \in Pointers
  BY <1>0, <1>1 DEF LinkTo, Pointers
<1>3. next # x /\ prev # x
  <2>1. \A y \in Nodes : t.nextSib[y] = y => FALSE
    BY SiblingsShareParent
  <2>2. t.nextSib[x] # x /\ t.prevSib[x] # x
    BY <2>1 DEF GoodLinks
  <2> QED BY <2>2, <1>1
<1>4. PICK t2 : t2 = Dropped(t, x)
  OBVIOUS
<1> DEFINE fp == t.parent
           fc == t.child
           fv == t.prevSib
           fn == t.nextSib
<1>20. /\ fp \in LinkTo /\ fc \in LinkTo /\ fv \in LinkTo /\ fn \in LinkTo
       /\ None \in Pointers
  BY <1>0
<1>21. fp = t.parent /\ fc = t.child /\ fv = t.prevSib /\ fn = t.nextSib
  OBVIOUS
<1> HIDE DEF fp, fc, fv, fn
<1>5. PICK par, ch, pre, nex :
        /\ par = Set(t.parent, {<<x, None>>})
        /\ ch = IF prev = None THEN Set(t.child, {<<p, next>>}) ELSE t.child
        /\ pre = Set(t.prevSib, {<<next, prev>>, <<x, None>>})
        /\ nex = Set(t.nextSib, {<<prev, next>>, <<x, None>>})
  OBVIOUS
<1>6. t2 = [parent |-> par, child |-> ch, prevSib |-> pre, nextSib |-> nex,
            n |-> Counted(t, p, -t.n[x])]
  BY <1>1, <1>4, <1>5, <1>0, <1>2 DEF Dropped
<1>22. x \in Pointers /\ p \in Pointers
  BY <1>2 DEF Pointers
<1>7. par \in LinkTo /\ \A u \in Nodes : par[u] = IF u = x THEN None ELSE t.parent[u]
  <2>1. par = Set(fp, {<<x, None>>})
    BY <1>5, <1>21
  <2>2. ChangedAt(Set(fp, {<<x, None>>}), fp, x, None)
    BY <1>20, <1>22, SetOne
  <2> QED BY <1>21, <2>1, <2>2 DEF ChangedAt
<1>8. /\ pre \in LinkTo
      /\ \A u \in Nodes : pre[u] = IF u = next THEN prev
                                   ELSE IF u = x THEN None ELSE t.prevSib[u]
  <2>1. pre = Set(fv, {<<next, prev>>, <<x, None>>})
    BY <1>5, <1>21
  <2>2. ChangedAtTwo(Set(fv, {<<next, prev>>, <<x, None>>}), fv, next, prev, x, None)
    BY <1>2, <1>3, <1>20, <1>22, SetTwo
  <2> QED BY <1>21, <2>1, <2>2 DEF ChangedAtTwo
<1>9. /\ nex \in LinkTo
      /\ \A u \in Nodes : nex[u] = IF u = prev THEN next
                                   ELSE IF u = x THEN None ELSE t.nextSib[u]
  <2>1. nex = Set(fn, {<<prev, next>>, <<x, None>>})
    BY <1>5, <1>21
  <2>2. ChangedAtTwo(Set(fn, {<<prev, next>>, <<x, None>>}), fn, prev, next, x, None)
    BY <1>2, <1>3, <1>20, <1>22, SetTwo
  <2> QED BY <1>21, <2>1, <2>2 DEF ChangedAtTwo
<1>10. \A u \in Nodes : (t.nextSib[u] = x <=> u = prev) /\ (t.prevSib[u] = x <=> u = next)
  BY <1>1 DEF GoodLinks
<1>11. /\ ch \in LinkTo
       /\ \A u \in Nodes : ch[u] = IF t.child[u] = x THEN next ELSE t.child[u]
  <2>1. \A u \in Nodes : t.child[u] = x => u = p
    <3> TAKE u \in Nodes
    <3>1. t.child[u] \in Pointers
      BY <1>0 DEF LinkTo
    <3>2. t.child[u] # None => t.child[u] \in ChildSet(t, u)
      BY <1>0, <3>1, AlongStarts DEF ChildSet
    <3> QED BY <3>2, <1>0, <1>1 DEF GoodLinks
  <2>2. CASE prev = None
    <3>1. t.child[p] = x
      <4>1. PICK f \in LinkTo, s \in Pointers : f = t.nextSib /\ s = t.child[p]
        BY <1>0, <1>2 DEF LinkTo
      <4>2. x \in Along(f, s)
        BY <1>1, <1>2, <4>1 DEF ChildSet, GoodLinks
      <4> SUFFICES ASSUME x # s PROVE FALSE
        BY <4>1
      <4>3. PICK u \in Along(f, s) : f[u] = x
        BY <4>2, AlongEntered
      <4>4. u \in Nodes
        BY AlongStarts
      <4> QED BY <1>0, <1>10, <2>2, <4>1, <4>3, <4>4
    <3>2. ch \in LinkTo /\ \A u \in Nodes : ch[u] = IF u = p THEN next ELSE t.child[u]
      <4>1. ch = Set(fc, {<<p, next>>})
        BY <1>5, <1>21, <2>2
      <4>2. ChangedAt(Set(fc, {<<p, next>>}), fc, p, next)
        BY <1>2, <1>20, <1>22, SetOne
      <4> QED BY <1>21, <4>1, <4>2 DEF ChangedAt
    <3> QED BY <2>1, <3>1, <3>2
  <2>3. CASE prev # None
    <3>1. \A u \in Nodes : t.child[u] # x
      BY <1>1, <2>3, <1>0 DEF GoodLinks
    <3> QED BY <1>0, <1>5, <2>3, <3>1
  <2> QED BY <2>2, <2>3
<1>12. \A u \in Nodes :
         /\ nex[u] = IF u = x THEN None ELSE IF t.nextSib[u] = x THEN next
                     ELSE t.nextSib[u]
         /\ pre[u] = IF u = x THEN None ELSE IF t.prevSib[u] = x THEN prev
                     ELSE t.prevSib[u]
  BY <1>3, <1>8, <1>9, <1>10
<1> QED BY <1>1, <1>4, <1>6, <1>7, <1>8, <1>9, <1>11, <1>12

(* What the ancestors count changes by an integer.                         *)
LEMMA CountedTyped ==
  ASSUME NEW t \in Links, NEW x, NEW d \in Int
  PROVE  /\ Counted(t, x, d) \in [Nodes -> Int]
         /\ \A y \in Nodes : Counted(t, x, d)[y] =
              IF y \in Lineage(t, x) THEN t.n[y] + d ELSE t.n[y]
BY DEF Counted, Links

(* drop() takes a node from its ancestors, and all below it.               *)
LEMMA DroppedLineage ==
  ASSUME NodesAssumption, NEW t, GoodLinks(t), NEW x \in Nodes,
         t.parent[x] # None, NEW y \in Nodes
  PROVE  Lineage(Dropped(t, x), y) =
           IF x \in Lineage(t, y) THEN Lineage(t, y) \ Lineage(t, t.parent[x])
           ELSE Lineage(t, y)
<1>1. PICK f \in LinkTo, g \in LinkTo, p \in Nodes :
        f = t.parent /\ g = Dropped(t, x).parent /\ p = t.parent[x]
  BY DroppedLinks, LinksTyped DEF GoodLinks, LinkTo, Pointers
<1>2. PICK C \in SUBSET Nodes : C = {x}
  OBVIOUS
<1>3. CutAt(g, f, C)
  BY <1>1, <1>2, DroppedLinks DEF CutAt
<1>4. NoCircle(f) /\ AllTo(f, C, p)
  BY <1>1, <1>2 DEF GoodLinks, AllTo
<1>5. /\ (\E u \in C : u \in Along(f, y)) => Along(g, y) = Along(f, y) \ Along(f, p)
      /\ (\A u \in C : u \notin Along(f, y)) => Along(g, y) = Along(f, y)
  BY <1>3, <1>4, AlongCut
<1> QED BY <1>1, <1>2, <1>5 DEF Lineage

(* drop() keeps the links right.                                           *)
LEMMA DropKeepsLinks ==
  ASSUME NodesAssumption, NEW t, GoodLinks(t), NEW x \in Nodes
  PROVE  GoodLinks(Dropped(t, x))
<1>1. CASE t.parent[x] = None
  <2>1. Dropped(t, x) = t
    BY <1>1 DEF Dropped
  <2> QED BY <2>1
<1>2. CASE t.parent[x] # None
  <2>1. PICK t2 : t2 = Dropped(t, x)
    OBVIOUS
  <2>2. PICK next, prev : next = t.nextSib[x] /\ prev = t.prevSib[x]
    OBVIOUS
  <2>3. /\ t2.parent \in LinkTo /\ t2.child \in LinkTo
        /\ t2.prevSib \in LinkTo /\ t2.nextSib \in LinkTo
        /\ t2.n = Counted(t, t.parent[x], -t.n[x])
        /\ t2 = [parent |-> t2.parent, child |-> t2.child, prevSib |-> t2.prevSib,
                 nextSib |-> t2.nextSib, n |-> t2.n]
        /\ \A u \in Nodes :
             /\ t2.parent[u] = IF u = x THEN None ELSE t.parent[u]
             /\ t2.child[u] = IF t.child[u] = x THEN next ELSE t.child[u]
             /\ t2.nextSib[u] = IF u = x THEN None
                                ELSE IF t.nextSib[u] = x THEN next ELSE t.nextSib[u]
             /\ t2.prevSib[u] = IF u = x THEN None
                                ELSE IF t.prevSib[u] = x THEN prev ELSE t.prevSib[u]
    BY <1>2, <2>1, <2>2, DroppedLinks
  <2>4. /\ t.parent \in LinkTo /\ t.child \in LinkTo
        /\ t.prevSib \in LinkTo /\ t.nextSib \in LinkTo
        /\ t.n \in [Nodes -> Int] /\ t \in Links
        /\ None \in Pointers /\ None \notin Nodes
    BY LinksTyped, NodesAssumption DEF GoodLinks, Pointers, NodesAssumption
  <2>5. t2 \in Links
    <3>1. -t.n[x] \in Int
      BY <2>4
    <3>2. t2.n \in [Nodes -> Int]
      BY <2>3, <2>4, <3>1, CountedTyped
    <3> QED BY <2>3, <3>2 DEF Links, LinkTo
  <2>6. NoCircle(t2.parent)
    <3> SUFFICES ASSUME NEW u \in Nodes PROVE u \notin Along(t2.parent, t2.parent[u])
      BY DEF NoCircle
    <3>1. CASE u = x \/ t.parent[u] = None
      <4>1. t2.parent[u] = None
        BY <2>3, <3>1
      <4>2. Along(t2.parent, t2.parent[u]) = {}
        BY <2>3, <2>4, <4>1, AlongStarts
      <4> QED BY <4>2
    <3>2. CASE u # x /\ t.parent[u] # None
      <4>1. PICK q \in Nodes : q = t.parent[u]
        BY <2>4, <3>2 DEF LinkTo, Pointers
      <4>2. t2.parent[u] = q
        BY <2>3, <3>2, <4>1
      <4>3. Lineage(t2, q) \subseteq Lineage(t, q)
        BY <1>2, <2>1, DroppedLineage
      <4> QED BY <4>1, <4>2, <4>3 DEF Lineage, GoodLinks, NoCircle
    <3> QED BY <3>1, <3>2
  <2>7. ASSUME NEW a \in Nodes, NEW b \in Nodes, t.nextSib[a] = b PROVE a # b
    BY <2>7, SiblingsShareParent
  <2>8. \A a, b \in Nodes : t.nextSib[a] = b <=> t.prevSib[b] = a
    BY DEF GoodLinks
  <2>9. next # x /\ prev # x
    BY <2>2, <2>7, <2>8
  <2>10. \A z \in Nodes : ChildSet(t2, z) = {y \in Nodes : t2.parent[y] = z}
    <3> TAKE z \in Nodes
    <3>1. PICK f \in LinkTo, g \in LinkTo, s \in Pointers, s2 \in Pointers :
            f = t.nextSib /\ g = t2.nextSib /\ s = t.child[z] /\ s2 = t2.child[z]
      BY <2>3, <2>4 DEF LinkTo
    <3>2. \A u \in Nodes : u # x => g[u] = IF f[u] = x THEN f[x] ELSE f[u]
      BY <2>2, <2>3, <3>1
    <3>3. s2 = IF s = x THEN f[x] ELSE s
      BY <2>2, <2>3, <3>1
    <3>4. f[x] # x
      BY <2>2, <2>9, <3>1
    <3>5. Along(g, s2) = Along(f, s) \ {x}
      BY <3>2, <3>3, <3>4, AlongSpliced
    <3>6. ChildSet(t2, z) = ChildSet(t, z) \ {x}
      BY <3>1, <3>5 DEF ChildSet
    <3>7. ChildSet(t, z) = {y \in Nodes : t.parent[y] = z}
      BY DEF GoodLinks
    <3> QED BY <2>3, <2>4, <3>6, <3>7
  <2>11. \A a, b \in Nodes : t2.nextSib[a] = b <=> t2.prevSib[b] = a
    <3> TAKE a, b \in Nodes
    <3>1. CASE a = x
      BY <2>2, <2>3, <2>4, <2>8, <2>9, <3>1
    <3>2. CASE b = x
      BY <2>2, <2>3, <2>4, <2>8, <2>9, <3>2
    <3>3. CASE a # x /\ b # x
      BY <2>2, <2>3, <2>4, <2>8, <2>9, <3>3
    <3> QED BY <3>1, <3>2, <3>3
  <2>12. ASSUME NEW z \in Nodes, t2.child[z] # None
         PROVE  t2.prevSib[t2.child[z]] = None
    <3>1. CASE t.child[z] = x
      <4>1. prev = None
        BY <2>2, <2>4, <3>1 DEF GoodLinks
      <4>2. t2.child[z] = next /\ next \in Nodes
        BY <2>2, <2>3, <2>4, <2>12, <3>1 DEF LinkTo, Pointers
      <4>3. t.prevSib[next] = x
        BY <2>2, <2>8, <4>2
      <4> QED BY <2>3, <4>1, <4>2, <4>3
    <3>2. CASE t.child[z] # x
      <4>1. PICK c \in Nodes : c = t.child[z] /\ c = t2.child[z]
        BY <2>3, <2>4, <2>12, <3>2 DEF LinkTo, Pointers
      <4>2. t.prevSib[c] = None
        <5>1. \A u \in Nodes : t.child[u] # None => t.prevSib[t.child[u]] = None
          BY DEF GoodLinks
        <5> QED BY <2>4, <4>1, <5>1
      <4> QED BY <2>3, <2>4, <4>1, <4>2
    <3> QED BY <3>1, <3>2
  <2>13. \A u \in Nodes : t2.parent[u] = None =>
                            t2.prevSib[u] = None /\ t2.nextSib[u] = None
    <3> TAKE u \in Nodes
    <3>1. u # x /\ t.parent[u] = None => t.prevSib[u] = None /\ t.nextSib[u] = None
      BY DEF GoodLinks
    <3> QED BY <2>3, <2>4, <3>1
  <2> QED BY <2>1, <2>5, <2>6, <2>10, <2>11, <2>12, <2>13 DEF GoodLinks
<1> QED BY <1>1, <1>2

(* The links that insert() makes of those that drop() left: x is a root.   *)
LEMMA LinkedLinks ==
  ASSUME NodesAssumption, NEW t, GoodLinks(t), NEW x \in Nodes, NEW p \in Nodes,
         t.parent[x] = None
  PROVE  /\ Linked(t, p, x).parent \in LinkTo /\ Linked(t, p, x).child \in LinkTo
         /\ Linked(t, p, x).prevSib \in LinkTo /\ Linked(t, p, x).nextSib \in LinkTo
         /\ Linked(t, p, x).n = Counted(t, p, t.n[x])
         /\ Linked(t, p, x) = [parent |-> Linked(t, p, x).parent,
                               child |-> Linked(t, p, x).child,
                               prevSib |-> Linked(t, p, x).prevSib,
                               nextSib |-> Linked(t, p, x).nextSib,
                               n |-> Linked(t, p, x).n]
         /\ \A u \in Nodes :
              /\ Linked(t, p, x).parent[u] = IF u = x THEN p ELSE t.parent[u]
              /\ Linked(t, p, x).child[u] = IF u = p THEN x ELSE t.child[u]
              /\ Linked(t, p, x).nextSib[u] = IF u = x THEN t.child[p]
                                              ELSE t.nextSib[u]
              /\ Linked(t, p, x).prevSib[u] = IF u = t.child[p] THEN x
                                              ELSE t.prevSib[u]
<1>0. /\ t.parent \in LinkTo /\ t.child \in LinkTo
      /\ t.prevSib \in LinkTo /\ t.nextSib \in LinkTo
      /\ None \in Pointers /\ None \notin Nodes
  BY LinksTyped, NodesAssumption DEF GoodLinks, Pointers, NodesAssumption
<1>1. PICK first : first = t.child[p]
  OBVIOUS
<1>2. first \in Pointers /\ x \in Pointers /\ p \in Pointers
  BY <1>0, <1>1 DEF LinkTo, Pointers
<1> DEFINE fp == t.parent
           fc == t.child
           fv == t.prevSib
           fn == t.nextSib
<1>3. fp \in LinkTo /\ fc \in LinkTo /\ fv \in LinkTo /\ fn \in LinkTo
  BY <1>0
<1>4. fp = t.parent /\ fc = t.child /\ fv = t.prevSib /\ fn = t.nextSib
  OBVIOUS
<1> HIDE DEF fp, fc, fv, fn
<1>5. PICK t2, par, ch, pre, nex :
        /\ t2 = Linked(t, p, x)
        /\ par = Set(fp, {<<x, p>>})
        /\ ch = Set(fc, {<<p, x>>})
        /\ pre = Set(fv, {<<first, x>>})
        /\ nex = IF first = None THEN fn ELSE Set(fn, {<<x, first>>})
  OBVIOUS
<1>6. t2 = [parent |-> par, child |-> ch, prevSib |-> pre, nextSib |-> nex,
            n |-> Counted(t, p, t.n[x])]
  BY <1>1, <1>4, <1>5 DEF Linked
<1>7. ChangedAt(Set(fp, {<<x, p>>}), fp, x, p)
  BY <1>2, <1>3, SetOne
<1>8. ChangedAt(Set(fc, {<<p, x>>}), fc, p, x)
  BY <1>2, <1>3, SetOne
<1>9. ChangedAt(Set(fv, {<<first, x>>}), fv, first, x)
  BY <1>2, <1>3, SetOne
<1>10. ChangedAt(Set(fn, {<<x, first>>}), fn, x, first)
  BY <1>2, <1>3, SetOne
<1>11. par \in LinkTo /\ \A u \in Nodes : par[u] = IF u = x THEN p ELSE t.parent[u]
  BY <1>4, <1>5, <1>7 DEF ChangedAt
<1>12. ch \in LinkTo /\ \A u \in Nodes : ch[u] = IF u = p THEN x ELSE t.child[u]
  BY <1>4, <1>5, <1>8 DEF ChangedAt
<1>13. pre \in LinkTo /\ \A u \in Nodes : pre[u] = IF u = first THEN x
                                                   ELSE t.prevSib[u]
  BY <1>4, <1>5, <1>9 DEF ChangedAt
<1>14. nex \in LinkTo /\ \A u \in Nodes : nex[u] = IF u = x THEN first
                                                   ELSE t.nextSib[u]
  <2>1. CASE first = None
    <3>1. t.nextSib[x] = None
      BY DEF GoodLinks
    <3> QED BY <1>3, <1>4, <1>5, <2>1, <3>1
  <2>2. CASE first # None
    BY <1>4, <1>5, <1>10, <2>2 DEF ChangedAt
  <2> QED BY <2>1, <2>2
<1>15. /\ t2.parent = par /\ t2.child = ch /\ t2.prevSib = pre /\ t2.nextSib = nex
       /\ t2.n = Counted(t, p, t.n[x])
  BY <1>6
<1>16. t2 = [parent |-> t2.parent, child |-> t2.child, prevSib |-> t2.prevSib,
             nextSib |-> t2.nextSib, n |-> t2.n]
  BY <1>6
<1>17. /\ t2.parent \in LinkTo /\ t2.child \in LinkTo
       /\ t2.prevSib \in LinkTo /\ t2.nextSib \in LinkTo
       /\ \A u \in Nodes :
            /\ t2.parent[u] = IF u = x THEN p ELSE t.parent[u]
            /\ t2.child[u] = IF u = p THEN x ELSE t.child[u]
            /\ t2.nextSib[u] = IF u = x THEN t.child[p] ELSE t.nextSib[u]
            /\ t2.prevSib[u] = IF u = t.child[p] THEN x ELSE t.prevSib[u]
  BY <1>1, <1>11, <1>12, <1>13, <1>14, <1>15
<1>18. t2 = Linked(t, p, x)
  BY <1>5
<1> QED BY <1>15, <1>16, <1>17, <1>18

(* insert() puts a node, and all below it, below p and its ancestors.      *)
LEMMA LinkedLineage ==
  ASSUME NodesAssumption, NEW t, GoodLinks(t), NEW x \in Nodes, NEW p \in Nodes,
         t.parent[x] = None, x \notin Lineage(t, p), NEW y \in Nodes
  PROVE  /\ Lineage(Linked(t, p, x), y) =
              Lineage(t, y) \cup (IF x \in Lineage(t, y) THEN Lineage(t, p) ELSE {})
         /\ Lineage(Linked(t, p, x), p) = Lineage(t, p)
<1>1. PICK f \in LinkTo, g \in LinkTo : f = t.parent /\ g = Linked(t, p, x).parent
  BY LinkedLinks, LinksTyped DEF GoodLinks
<1>2. \A u \in Nodes : g[u] = IF u = x THEN p ELSE f[u]
  BY <1>1, LinkedLinks
<1>3. f[x] = None /\ x \notin Along(f, p)
  BY <1>1 DEF Lineage
<1>4. /\ Along(g, y) = Along(f, y) \cup (IF x \in Along(f, y) THEN Along(f, p) ELSE {})
      /\ Along(g, p) = Along(f, p)
  BY <1>2, <1>3, AlongJoined
<1> QED BY <1>1, <1>4 DEF Lineage

(* Inserting keeps the links right.                                        *)
LEMMA LinkKeepsLinks ==
  ASSUME NodesAssumption, NEW t, GoodLinks(t), NEW x \in Nodes, NEW p \in Nodes,
         t.parent[x] = None, x \notin Lineage(t, p)
  PROVE  GoodLinks(Linked(t, p, x))
<1>1. PICK t2 : t2 = Linked(t, p, x)
  OBVIOUS
<1>2. PICK first : first = t.child[p]
  OBVIOUS
<1>3. /\ t2.parent \in LinkTo /\ t2.child \in LinkTo
      /\ t2.prevSib \in LinkTo /\ t2.nextSib \in LinkTo
      /\ t2.n = Counted(t, p, t.n[x])
      /\ t2 = [parent |-> t2.parent, child |-> t2.child, prevSib |-> t2.prevSib,
               nextSib |-> t2.nextSib, n |-> t2.n]
      /\ \A u \in Nodes :
           /\ t2.parent[u] = IF u = x THEN p ELSE t.parent[u]
           /\ t2.child[u] = IF u = p THEN x ELSE t.child[u]
           /\ t2.nextSib[u] = IF u = x THEN first ELSE t.nextSib[u]
           /\ t2.prevSib[u] = IF u = first THEN x ELSE t.prevSib[u]
  BY <1>1, <1>2, LinkedLinks
<1>4. /\ t.parent \in LinkTo /\ t.child \in LinkTo
      /\ t.prevSib \in LinkTo /\ t.nextSib \in LinkTo
      /\ t.n \in [Nodes -> Int] /\ t \in Links
      /\ None \in Pointers /\ None \notin Nodes
  BY LinksTyped, NodesAssumption DEF GoodLinks, Pointers, NodesAssumption
<1>5. t2 \in Links
  <2>1. t.n[x] \in Int
    BY <1>4
  <2>2. t2.n \in [Nodes -> Int]
    BY <1>3, <1>4, <2>1, CountedTyped
  <2> QED BY <1>3, <2>2 DEF Links, LinkTo
<1>6. NoCircle(t2.parent)
  <2> SUFFICES ASSUME NEW u \in Nodes PROVE u \notin Along(t2.parent, t2.parent[u])
    BY DEF NoCircle
  <2>1. CASE u = x
    <3>1. t2.parent[u] = p
      BY <1>3, <2>1
    <3>2. Lineage(t2, p) = Lineage(t, p)
      BY <1>1, LinkedLineage
    <3> QED BY <2>1, <3>1, <3>2 DEF Lineage
  <2>2. CASE u # x /\ t.parent[u] = None
    <3>1. t2.parent[u] = None
      BY <1>3, <2>2
    <3>2. Along(t2.parent, t2.parent[u]) = {}
      BY <1>3, <1>4, <3>1, AlongStarts
    <3> QED BY <3>2
  <2>3. CASE u # x /\ t.parent[u] # None
    <3>1. PICK f \in LinkTo, q \in Nodes : f = t.parent /\ q = t.parent[u]
      BY <1>4, <2>3 DEF LinkTo, Pointers
    <3>2. t2.parent[u] = q
      BY <1>3, <2>3, <3>1
    <3>3. Lineage(t2, q) = Lineage(t, q) \cup (IF x \in Lineage(t, q) THEN Lineage(t, p)
                                               ELSE {})
      BY <1>1, LinkedLineage
    <3>4. u \notin Along(f, q) /\ f[u] = q
      BY <3>1 DEF GoodLinks, NoCircle
    <3>5. ASSUME x \in Along(f, q), u \in Along(f, p) PROVE FALSE
      <4>1. Along(f, u) = {u} \cup Along(f, q)
        BY <3>4, AlongFirst
      <4>2. p \in Pointers
        BY DEF Pointers
      <4>3. Along(f, u) \subseteq Along(f, p)
        BY <3>5, <4>2, AlongFurther
      <4> QED BY <3>1, <3>5, <4>1, <4>3 DEF Lineage
    <3> QED BY <3>1, <3>2, <3>3, <3>4, <3>5 DEF Lineage
  <2> QED BY <2>1, <2>2, <2>3
<1>7. \A z \in Nodes : ChildSet(t, z) = {y \in Nodes : t.parent[y] = z}
  BY DEF GoodLinks
<1>8. \A z \in Nodes : t.child[z] # None => t.child[z] \in ChildSet(t, z)
  <2> TAKE z \in Nodes
  <2>1. t.child[z] \in Pointers
    BY <1>4 DEF LinkTo
  <2> QED BY <1>4, <2>1, AlongStarts DEF ChildSet
<1>9. \A z \in Nodes : ChildSet(t2, z) = {y \in Nodes : t2.parent[y] = z}
  <2> TAKE z \in Nodes
  <2>1. PICK f \in LinkTo, g \in LinkTo, s \in Pointers :
          f = t.nextSib /\ g = t2.nextSib /\ s = t.child[z]
    BY <1>3, <1>4 DEF LinkTo
  <2>2. Along(f, s) = {y \in Nodes : t.parent[y] = z}
    BY <1>7, <2>1 DEF ChildSet
  <2>3. Along(g, s) = Along(f, s)
    <3>1. \A y \in Along(f, s) : g[y] = f[y]
      BY <1>3, <1>4, <2>1, <2>2
    <3> QED BY <3>1, AlongSame
  <2>4. CASE z # p
    <3>1. t2.child[z] = s
      BY <1>3, <2>1, <2>4
    <3>2. ChildSet(t2, z) = {y \in Nodes : t.parent[y] = z}
      BY <2>1, <2>2, <2>3, <3>1 DEF ChildSet
    <3> QED BY <1>3, <1>4, <2>4, <3>2
  <2>5. CASE z = p
    <3>1. t2.child[z] = x /\ s = first /\ g[x] = s
      BY <1>2, <1>3, <2>1, <2>5
    <3>2. Along(g, x) = {x} \cup Along(g, s)
      BY <3>1, AlongFirst
    <3>3. ChildSet(t2, z) = {x} \cup {y \in Nodes : t.parent[y] = z}
      BY <2>1, <2>2, <2>3, <3>1, <3>2 DEF ChildSet
    <3> QED BY <1>3, <1>4, <2>5, <3>3
  <2> QED BY <2>4, <2>5
<1>10. t.prevSib[x] = None /\ t.nextSib[x] = None
  BY DEF GoodLinks
<1>11. first # None => first \in Nodes /\ t.parent[first] = p /\ t.prevSib[first] = None
  <2>1. t.child[p] # None => t.prevSib[t.child[p]] = None
    BY DEF GoodLinks
  <2> QED BY <1>2, <1>7, <1>8, <2>1
<1>12. \A a, b \in Nodes : t2.nextSib[a] = b <=> t2.prevSib[b] = a
  <2> TAKE a, b \in Nodes
  <2>1. \A c, d \in Nodes : t.nextSib[c] = d <=> t.prevSib[d] = c
    BY DEF GoodLinks
  <2>2. CASE a = x
    BY <1>3, <1>4, <1>10, <1>11, <2>1, <2>2
  <2>3. CASE a # x /\ b = first
    BY <1>3, <1>4, <1>10, <1>11, <2>1, <2>3
  <2>4. CASE a # x /\ b # first
    BY <1>3, <2>1, <2>4
  <2> QED BY <2>2, <2>3, <2>4
<1>13. ASSUME NEW z \in Nodes, t2.child[z] # None
       PROVE  t2.prevSib[t2.child[z]] = None
  <2>1. CASE z = p
    <3>1. t2.child[z] = x
      BY <1>3, <2>1
    <3>2. x # first
      BY <1>4, <1>11
    <3> QED BY <1>3, <1>10, <3>1, <3>2
  <2>2. CASE z # p
    <3>1. PICK c \in Nodes : c = t.child[z] /\ c = t2.child[z] /\ c # None
      BY <1>3, <1>4, <1>13, <2>2 DEF LinkTo, Pointers
    <3>2. t.parent[c] = z
      <4>1. c \in ChildSet(t, z)
        BY <1>8, <3>1
      <4>2. ChildSet(t, z) = {y \in Nodes : t.parent[y] = z}
        BY <1>7
      <4> QED BY <4>1, <4>2
    <3>3. c # first
      BY <1>11, <2>2, <3>1, <3>2
    <3>4. \A u \in Nodes : t.child[u] # None => t.prevSib[t.child[u]] = None
      BY DEF GoodLinks
    <3>5. t.prevSib[c] = None
      BY <3>1, <3>4
    <3>6. t2.prevSib[c] = t.prevSib[c]
      BY <1>3, <3>3
    <3> QED BY <3>1, <3>5, <3>6
  <2> QED BY <2>1, <2>2
<1>14. \A u \in Nodes : t2.parent[u] = None =>
                          t2.prevSib[u] = None /\ t2.nextSib[u] = None
  <2> TAKE u \in Nodes
  <2>1. t.parent[u] = None => t.prevSib[u] = None /\ t.nextSib[u] = None
    BY DEF GoodLinks
  <2> QED BY <1>3, <1>4, <1>11, <2>1
<1> QED BY <1>1, <1>5, <1>6, <1>9, <1>12, <1>13, <1>14 DEF GoodLinks

(* The links that prune() leaves.                                          *)
LEMMA PrunedLinks ==
  ASSUME NodesAssumption, NEW t, GoodLinks(t), NEW x \in Nodes,
         NEW C, C = ChildSet(t, x), C # {}
  PROVE  /\ CutAt(Pruned(t, x).parent, t.parent, C)
         /\ CutAt(Pruned(t, x).prevSib, t.prevSib, C)
         /\ CutAt(Pruned(t, x).nextSib, t.nextSib, C)
         /\ ChangedAt(Pruned(t, x).child, t.child, x, None)
         /\ Pruned(t, x).n = Counted(t, x, -CountBelow(t, x))
         /\ Pruned(t, x) = [parent |-> Pruned(t, x).parent,
                            child |-> Pruned(t, x).child,
                            prevSib |-> Pruned(t, x).prevSib,
                            nextSib |-> Pruned(t, x).nextSib,
                            n |-> Pruned(t, x).n]
<1>0. /\ t.parent \in LinkTo /\ t.child \in LinkTo
      /\ t.prevSib \in LinkTo /\ t.nextSib \in LinkTo
      /\ None \in Pointers /\ None \notin Nodes /\ x \in Pointers
  BY LinksTyped, NodesAssumption DEF GoodLinks, Pointers, NodesAssumption
<1>1. C \in SUBSET Nodes
  BY DEF GoodLinks
<1> DEFINE fp == t.parent
           fc == t.child
           fv == t.prevSib
           fn == t.nextSib
<1>3. /\ fp \in LinkTo /\ fc \in LinkTo /\ fv \in LinkTo /\ fn \in LinkTo
      /\ None \in Pointers /\ x \in Pointers
  BY <1>0
<1>4. fp = t.parent /\ fc = t.child /\ fv = t.prevSib /\ fn = t.nextSib
  OBVIOUS
<1> HIDE DEF fp, fc, fv, fn
<1>5. Pruned(t, x) = [parent |-> Set(fp, C \X {None}), child |-> Set(fc, {<<x, None>>}),
                      prevSib |-> Set(fv, C \X {None}),
                      nextSib |-> Set(fn, C \X {None}),
                      n |-> Counted(t, x, -CountBelow(t, x))]
  BY <1>4 DEF Pruned
<1>6. CutAt(Set(fp, C \X {None}), fp, C)
  BY <1>1, <1>3, SetAll
<1>7. CutAt(Set(fv, C \X {None}), fv, C)
  BY <1>1, <1>3, SetAll
<1>8. CutAt(Set(fn, C \X {None}), fn, C)
  BY <1>1, <1>3, SetAll
<1>9. ChangedAt(Set(fc, {<<x, None>>}), fc, x, None)
  BY <1>3, SetOne
<1> QED BY <1>4, <1>5, <1>6, <1>7, <1>8, <1>9

(* prune() takes all that is below x from x and its ancestors.             *)
LEMMA PrunedLineage ==
  ASSUME NodesAssumption, NEW t, GoodLinks(t), NEW x \in Nodes, NEW y \in Nodes
  PROVE  Lineage(Pruned(t, x), y) =
           IF x \in Lineage(t, y) /\ y # x THEN Lineage(t, y) \ Lineage(t, x)
           ELSE Lineage(t, y)
<1>1. PICK C \in SUBSET Nodes : C = ChildSet(t, x)
  BY DEF GoodLinks
<1>2. C = {u \in Nodes : t.parent[u] = x}
  BY <1>1 DEF GoodLinks
<1>3. PICK f \in LinkTo : f = t.parent
  BY LinksTyped DEF GoodLinks
<1>4. NoCircle(f) /\ None \notin Nodes /\ \A u \in C : f[u] = x
  BY <1>2, <1>3, NodesAssumption DEF GoodLinks, NodesAssumption
<1>5. Along(f, y) \subseteq Nodes /\ y \in Along(f, y) /\ y \in Pointers /\ y # None
  <2>1. y \in Pointers /\ y # None
    BY <1>4 DEF Pointers
  <2> QED BY <2>1, AlongStarts
<1>6. x \in Along(f, y) /\ y # x => \E u \in C : u \in Along(f, y)
  <2> SUFFICES ASSUME x \in Along(f, y), y # x PROVE \E u \in C : u \in Along(f, y)
    OBVIOUS
  <2>1. PICK u \in Along(f, y) : f[u] = x
    BY <1>5, AlongEntered
  <2> QED BY <1>2, <1>3, <1>5, <2>1
<1>7. \A u \in C : u \in Along(f, y) => x \in Along(f, y) /\ y # x
  <2> SUFFICES ASSUME NEW u \in C, u \in Along(f, y) PROVE x \in Along(f, y) /\ y # x
    OBVIOUS
  <2>1. u \in Nodes /\ f[u] = x /\ x # None
    BY <1>2, <1>4
  <2>2. x \in Along(f, y)
    BY <1>5, <2>1, AlongCloses
  <2>3. y # x
    BY <1>4, <2>1 DEF NoCircle
  <2> QED BY <2>2, <2>3
<1>8. CASE C = {}
  <2>1. Pruned(t, x) = t
    BY <1>1, <1>8 DEF Pruned
  <2> QED BY <1>3, <1>6, <1>8, <2>1 DEF Lineage
<1>9. CASE C # {}
  <2>1. CutAt(Pruned(t, x).parent, t.parent, C)
    BY <1>1, <1>9, PrunedLinks
  <2>2. PICK g \in LinkTo : g = Pruned(t, x).parent
    BY <2>1 DEF CutAt
  <2>3. CutAt(g, f, C)
    BY <1>3, <2>1, <2>2
  <2>5. /\ (\E u \in C : u \in Along(f, y)) => Along(g, y) = Along(f, y) \ Along(f, x)
        /\ (\A u \in C : u \notin Along(f, y)) => Along(g, y) = Along(f, y)
    <3>1. NoCircle(f) /\ AllTo(f, C, x)
      BY <1>4 DEF AllTo
    <3> QED BY <2>3, <3>1, AlongCut
  <2> QED BY <1>3, <1>6, <1>7, <2>2, <2>5 DEF Lineage
<1> QED BY <1>8, <1>9

(* Pruning keeps the links right.                                          *)
LEMMA PruneKeepsLinks ==
  ASSUME NodesAssumption, NEW t, GoodLinks(t), NEW x \in Nodes, CountBelow(t, x) \in Int
  PROVE  GoodLinks(Pruned(t, x))
<1>1. PICK C \in SUBSET Nodes : C = ChildSet(t, x)
  BY DEF GoodLinks
<1>2. CASE C = {}
  <2>1. Pruned(t, x) = t
    BY <1>1, <1>2 DEF Pruned
  <2> QED BY <2>1
<1>3. CASE C # {}
  <2>1. PICK t2 : t2 = Pruned(t, x)
    OBVIOUS
  <2>2. /\ CutAt(t2.parent, t.parent, C) /\ CutAt(t2.prevSib, t.prevSib, C)
        /\ CutAt(t2.nextSib, t.nextSib, C) /\ ChangedAt(t2.child, t.child, x, None)
        /\ t2.n = Counted(t, x, -CountBelow(t, x))
        /\ t2 = [parent |-> t2.parent, child |-> t2.child, prevSib |-> t2.prevSib,
                 nextSib |-> t2.nextSib, n |-> t2.n]
    BY <1>1, <1>3, <2>1, PrunedLinks
  <2>3. /\ t2.parent \in LinkTo /\ t2.child \in LinkTo
        /\ t2.prevSib \in LinkTo /\ t2.nextSib \in LinkTo
        /\ \A u \in Nodes :
             /\ t2.parent[u] = IF u \in C THEN None ELSE t.parent[u]
             /\ t2.child[u] = IF u = x THEN None ELSE t.child[u]
             /\ t2.nextSib[u] = IF u \in C THEN None ELSE t.nextSib[u]
             /\ t2.prevSib[u] = IF u \in C THEN None ELSE t.prevSib[u]
    BY <2>2 DEF CutAt, ChangedAt
  <2>4. /\ t.parent \in LinkTo /\ t.child \in LinkTo
        /\ t.prevSib \in LinkTo /\ t.nextSib \in LinkTo
        /\ t.n \in [Nodes -> Int] /\ t \in Links
        /\ None \in Pointers /\ None \notin Nodes
    BY LinksTyped, NodesAssumption DEF GoodLinks, Pointers, NodesAssumption
  <2>5. t2 \in Links
    <3>1. -CountBelow(t, x) \in Int
      OBVIOUS
    <3>2. t2.n \in [Nodes -> Int]
      BY <2>2, <2>4, <3>1, CountedTyped
    <3> QED BY <2>2, <2>3, <3>2 DEF Links, LinkTo
  <2>6. NoCircle(t2.parent)
    <3> SUFFICES ASSUME NEW u \in Nodes PROVE u \notin Along(t2.parent, t2.parent[u])
      BY DEF NoCircle
    <3>1. CASE u \in C \/ t.parent[u] = None
      <4>1. t2.parent[u] = None
        BY <2>3, <3>1
      <4>2. Along(t2.parent, t2.parent[u]) = {}
        BY <2>3, <2>4, <4>1, AlongStarts
      <4> QED BY <4>2
    <3>2. CASE u \notin C /\ t.parent[u] # None
      <4>1. PICK q \in Nodes : q = t.parent[u]
        BY <2>4, <3>2 DEF LinkTo, Pointers
      <4>2. t2.parent[u] = q
        BY <2>3, <3>2, <4>1
      <4>3. Lineage(t2, q) \subseteq Lineage(t, q)
        BY <2>1, PrunedLineage
      <4> QED BY <4>1, <4>2, <4>3 DEF Lineage, GoodLinks, NoCircle
    <3> QED BY <3>1, <3>2
  <2>7. \A z \in Nodes : ChildSet(t, z) = {y \in Nodes : t.parent[y] = z}
    BY DEF GoodLinks
  <2>8. C = {y \in Nodes : t.parent[y] = x}
    BY <1>1, <2>7
  <2>9. \A z \in Nodes : ChildSet(t2, z) = {y \in Nodes : t2.parent[y] = z}
    <3> TAKE z \in Nodes
    <3>1. CASE z = x
      <4>1. t2.child[z] = None
        BY <2>3, <3>1
      <4>2. Along(t2.nextSib, t2.child[z]) = {}
        BY <2>3, <2>4, <4>1, AlongStarts
      <4>3. {y \in Nodes : t2.parent[y] = z} = {}
        BY <2>3, <2>4, <2>8, <3>1
      <4> QED BY <4>2, <4>3 DEF ChildSet
    <3>2. CASE z # x
      <4>1. PICK f \in LinkTo, g \in LinkTo, s \in Pointers :
              f = t.nextSib /\ g = t2.nextSib /\ s = t.child[z]
        BY <2>3, <2>4 DEF LinkTo
      <4>2. Along(f, s) = {y \in Nodes : t.parent[y] = z}
        BY <2>7, <4>1 DEF ChildSet
      <4>3. \A y \in Along(f, s) : g[y] = f[y]
        BY <2>3, <2>8, <3>2, <4>1, <4>2
      <4>4. Along(g, s) = Along(f, s)
        BY <4>3, AlongSame
      <4>5. t2.child[z] = s
        BY <2>3, <3>2, <4>1
      <4>6. ChildSet(t2, z) = {y \in Nodes : t.parent[y] = z}
        BY <4>1, <4>2, <4>4, <4>5 DEF ChildSet
      <4> QED BY <2>3, <2>4, <2>8, <3>2, <4>6
    <3> QED BY <3>1, <3>2
  <2>10. \A a, b \in Nodes : t2.nextSib[a] = b <=> t2.prevSib[b] = a
    <3> TAKE a, b \in Nodes
    <3>1. t.nextSib[a] = b <=> t.prevSib[b] = a
      BY DEF GoodLinks
    <3>2. CASE t.nextSib[a] = b
      <4>1. a \in C <=> b \in C
        BY <2>8, <3>2, SiblingsShareParent
      <4> QED BY <2>3, <2>4, <3>1, <3>2, <4>1
    <3>3. CASE t.nextSib[a] # b
      BY <2>3, <2>4, <3>1, <3>3
    <3> QED BY <3>2, <3>3
  <2>11. ASSUME NEW z \in Nodes, t2.child[z] # None
         PROVE  t2.prevSib[t2.child[z]] = None
    <3>1. PICK c \in Nodes : c = t.child[z] /\ c = t2.child[z] /\ c # None
      BY <2>3, <2>4, <2>11 DEF LinkTo, Pointers
    <3>2. \A u \in Nodes : t.child[u] # None => t.prevSib[t.child[u]] = None
      BY DEF GoodLinks
    <3>3. t.prevSib[c] = None
      BY <3>1, <3>2
    <3>4. t2.prevSib[c] = None
      BY <2>3, <3>3
    <3> QED BY <3>1, <3>4
  <2>12. \A u \in Nodes : t2.parent[u] = None =>
                            t2.prevSib[u] = None /\ t2.nextSib[u] = None
    <3> TAKE u \in Nodes
    <3>1. t.parent[u] = None => t.prevSib[u] = None /\ t.nextSib[u] = None
      BY DEF GoodLinks
    <3> QED BY <2>3, <3>1
  <2> QED BY <2>1, <2>5, <2>6, <2>9, <2>10, <2>11, <2>12 DEF GoodLinks
<1> QED BY <1>2, <1>3

-----------------------------------------------------------------------------
(* What the nodes count.                                                   *)

(* The trees of two nodes are apart, or one is in the other.               *)
LEMMA SubtreeFacts ==
  ASSUME NodesAssumption, NEW t, GoodLinks(t), NEW x \in Nodes
  PROVE  /\ Subtree(t, x) \subseteq Nodes /\ x \in Subtree(t, x)
         /\ IsFiniteSet(Subtree(t, x)) /\ Cardinality(Subtree(t, x)) \in Nat
         /\ \A y \in Nodes : x \in Lineage(t, y) => Lineage(t, x) \subseteq Lineage(t, y)
         /\ \A y \in Nodes : x \in Lineage(t, y) /\ y \in Lineage(t, x) => x = y
         /\ \A y \in Nodes, z \in Nodes :
              x \in Lineage(t, z) /\ y \in Lineage(t, z)
                => x \in Lineage(t, y) \/ y \in Lineage(t, x)
<1>1. PICK f \in LinkTo : f = t.parent
  BY LinksTyped DEF GoodLinks
<1>2. NoCircle(f) /\ \A y \in Nodes : Lineage(t, y) = Along(f, y)
  BY <1>1 DEF GoodLinks, Lineage
<1>3. \A y \in Nodes : y \in Pointers /\ y # None
  BY NodesAssumption DEF NodesAssumption, Pointers
<1>4. Subtree(t, x) \subseteq Nodes /\ x \in Subtree(t, x)
  BY <1>2, <1>3, AlongStarts DEF Subtree
<1>5. IsFiniteSet(Subtree(t, x))
  BY <1>4, FS_Subset, NodesAssumption DEF NodesAssumption
<1>6. Cardinality(Subtree(t, x)) \in Nat
  BY <1>5, FS_CardinalityType
<1>7. \A y \in Nodes : x \in Along(f, y) => Along(f, x) \subseteq Along(f, y)
  BY <1>3, AlongFurther
<1>8. ASSUME NEW y \in Nodes, x \in Along(f, y), y \in Along(f, x) PROVE x = y
  BY <1>2, <1>8, AlongOneWay
<1>9. ASSUME NEW y \in Nodes, NEW z \in Nodes, x \in Along(f, z), y \in Along(f, z)
      PROVE  x \in Along(f, y) \/ y \in Along(f, x)
  BY <1>3, <1>9, AlongEither
<1> QED BY <1>2, <1>4, <1>5, <1>6, <1>7, <1>8, <1>9

(* A node that leaves is no longer counted.                                *)
LEMMA DropKeepsCounts ==
  ASSUME NodesAssumption, NEW t, GoodLinks(t), GoodCounts(t), NEW x \in Nodes
  PROVE  GoodCounts(Dropped(t, x))
<1>1. CASE t.parent[x] = None
  <2>1. Dropped(t, x) = t
    BY <1>1 DEF Dropped
  <2> QED BY <2>1
<1>2. CASE t.parent[x] # None
  <2>1. PICK t2 : t2 = Dropped(t, x)
    OBVIOUS
  <2>2. PICK f \in LinkTo, p \in Nodes : f = t.parent /\ p = t.parent[x]
    BY <1>2, LinksTyped DEF GoodLinks, LinkTo, Pointers
  <2>3. t.n \in [Nodes -> Int] /\ t \in Links
    BY LinksTyped DEF GoodLinks
  <2>4. Lineage(t, x) = {x} \cup Lineage(t, p) /\ x \notin Lineage(t, p)
    <3>1. f[x] = p /\ NoCircle(f)
      BY <2>2 DEF GoodLinks
    <3>2. Along(f, x) = {x} \cup Along(f, f[x])
      BY AlongFirst
    <3> QED BY <2>2, <3>1, <3>2 DEF Lineage, NoCircle
  <2>5. \A z \in Nodes : Lineage(t2, z) = IF x \in Lineage(t, z)
                                         THEN Lineage(t, z) \ Lineage(t, p)
                                         ELSE Lineage(t, z)
    BY <1>2, <2>1, <2>2, DroppedLineage
  <2> SUFFICES ASSUME NEW y \in Nodes PROVE t2.n[y] = Cardinality(Subtree(t2, y))
    BY <2>1 DEF GoodCounts
  <2>6. t2.n[y] = IF y \in Lineage(t, p) THEN t.n[y] - t.n[x] ELSE t.n[y]
    <3>1. t2.n = Counted(t, p, -t.n[x])
      BY <1>2, <2>1, <2>2, DroppedLinks
    <3>2. t.n[x] \in Int /\ t.n[y] \in Int /\ -t.n[x] \in Int
      BY <2>3
    <3>3. t2.n[y] = IF y \in Lineage(t, p) THEN t.n[y] + (-t.n[x]) ELSE t.n[y]
      BY <2>3, <3>1, <3>2, CountedTyped
    <3> QED BY <3>2, <3>3
  <2>7. t.n[y] = Cardinality(Subtree(t, y)) /\ t.n[x] = Cardinality(Subtree(t, x))
    BY DEF GoodCounts
  <2>8. CASE y \notin Lineage(t, p)
    <3>1. Subtree(t2, y) = Subtree(t, y)
      BY <2>5, <2>8 DEF Subtree
    <3> QED BY <2>6, <2>7, <2>8, <3>1
  <2>9. CASE y \in Lineage(t, p)
    <3>1. Subtree(t2, y) = Subtree(t, y) \ Subtree(t, x)
      BY <2>5, <2>9 DEF Subtree
    <3>2. Subtree(t, x) \subseteq Subtree(t, y)
      <4>1. \A z \in Nodes : x \in Lineage(t, z) => Lineage(t, x) \subseteq Lineage(t, z)
        BY SubtreeFacts
      <4> QED BY <2>4, <2>9, <4>1 DEF Subtree
    <3>3. IsFiniteSet(Subtree(t, y))
      BY SubtreeFacts
    <3>4. Subtree(t, y) \cap Subtree(t, x) = Subtree(t, x)
      BY <3>2
    <3>5. Cardinality(Subtree(t, y) \ Subtree(t, x)) =
            Cardinality(Subtree(t, y)) - Cardinality(Subtree(t, y) \cap Subtree(t, x))
      BY <3>3, FS_Difference
    <3> QED BY <2>6, <2>7, <2>9, <3>1, <3>4, <3>5
  <2> QED BY <2>8, <2>9
<1> QED BY <1>1, <1>2

(* A node that joins is counted.                                           *)
LEMMA LinkKeepsCounts ==
  ASSUME NodesAssumption, NEW t, GoodLinks(t), GoodCounts(t),
         NEW x \in Nodes, NEW p \in Nodes,
         t.parent[x] = None, x \notin Lineage(t, p)
  PROVE  GoodCounts(Linked(t, p, x))
<1>1. PICK t2 : t2 = Linked(t, p, x)
  OBVIOUS
<1>2. PICK f \in LinkTo : f = t.parent
  BY LinksTyped DEF GoodLinks
<1>3. t.n \in [Nodes -> Int] /\ t \in Links
  BY LinksTyped DEF GoodLinks
<1>4. Lineage(t, x) = {x}
  <2>1. Along(f, x) = {x} \cup Along(f, f[x])
    BY AlongFirst
  <2>2. f[x] = None /\ f[x] \in Pointers
    BY <1>2 DEF Pointers
  <2>3. Along(f, f[x]) = {}
    BY <2>2, AlongStarts
  <2> QED BY <1>2, <2>1, <2>3 DEF Lineage
<1>5. \A z \in Nodes : Lineage(t2, z) =
        Lineage(t, z) \cup (IF x \in Lineage(t, z) THEN Lineage(t, p) ELSE {})
  BY <1>1, LinkedLineage
<1> SUFFICES ASSUME NEW y \in Nodes PROVE t2.n[y] = Cardinality(Subtree(t2, y))
  BY <1>1 DEF GoodCounts
<1>6. t2.n[y] = IF y \in Lineage(t, p) THEN t.n[y] + t.n[x] ELSE t.n[y]
  <2>1. t2.n = Counted(t, p, t.n[x])
    BY <1>1, LinkedLinks
  <2>2. t.n[x] \in Int
    BY <1>3
  <2> QED BY <1>3, <2>1, <2>2, CountedTyped
<1>7. t.n[y] = Cardinality(Subtree(t, y)) /\ t.n[x] = Cardinality(Subtree(t, x))
  BY DEF GoodCounts
<1>8. CASE y \notin Lineage(t, p)
  <2>1. Subtree(t2, y) = Subtree(t, y)
    BY <1>5, <1>8 DEF Subtree
  <2> QED BY <1>6, <1>7, <1>8, <2>1
<1>9. CASE y \in Lineage(t, p)
  <2>1. Subtree(t2, y) = Subtree(t, y) \cup Subtree(t, x)
    BY <1>5, <1>9 DEF Subtree
  <2>2. ASSUME NEW z \in Subtree(t, y), z \in Subtree(t, x) PROVE FALSE
    <3>1. z \in Nodes /\ x \in Lineage(t, z) /\ y \in Lineage(t, z)
      BY <2>2 DEF Subtree
    <3>2. x \in Lineage(t, y) \/ y \in Lineage(t, x)
      BY <3>1, SubtreeFacts
    <3>3. CASE x \in Lineage(t, y)
      <4>1. Lineage(t, y) \subseteq Lineage(t, p)
        BY <1>9, SubtreeFacts
      <4> QED BY <3>3, <4>1
    <3>4. CASE y \in Lineage(t, x)
      BY <1>4, <1>9, <3>4
    <3> QED BY <3>2, <3>3, <3>4
  <2>3. IsFiniteSet(Subtree(t, y)) /\ IsFiniteSet(Subtree(t, x))
    BY SubtreeFacts
  <2>4. Cardinality(Subtree(t, y)) \in Nat /\ Cardinality(Subtree(t, x)) \in Nat
    BY SubtreeFacts
  <2>5. Subtree(t, y) \cap Subtree(t, x) = {}
    BY <2>2
  <2>6. Cardinality(Subtree(t, y) \cup Subtree(t, x)) =
          Cardinality(Subtree(t, y)) + Cardinality(Subtree(t, x))
            - Cardinality(Subtree(t, y) \cap Subtree(t, x))
    BY <2>3, FS_Union
  <2>7. Cardinality({}) = 0
    BY FS_EmptySet
  <2>8. Cardinality(Subtree(t2, y)) =
          Cardinality(Subtree(t, y)) + Cardinality(Subtree(t, x)) - 0
    BY <2>1, <2>5, <2>6, <2>7
  <2>9. t2.n[y] = t.n[y] + t.n[x]
    BY <1>6, <1>9
  <2>10. t2.n[y] = Cardinality(Subtree(t, y)) + Cardinality(Subtree(t, x))
    BY <1>7, <2>9
  <2> QED BY <2>4, <2>8, <2>10
<1> QED BY <1>8, <1>9

AreSums(g, sib, c, n) ==
  g = [k \in 0..n |-> (IF k = 0 THEN 0 ELSE g[k - 1])
                        + (IF sib[k] = None THEN 0 ELSE c[sib[k]])]

(* There are sums along any walk.                                          *)
LEMMA SumsExist ==
  ASSUME NEW sib, NEW c, NEW n \in Nat
  PROVE  \E g : AreSums(g, sib, c, n)
<1> USE DEF AreSums
<1> DEFINE Reached == {k \in 0..n : \E g : AreSums(g, sib, c, k)}
           Of(k) == IF sib[k] = None THEN 0 ELSE c[sib[k]]
<1>1. 0 \in Reached
  <2>1. PICK g : g = [k \in 0..0 |-> 0 + Of(k)]
    OBVIOUS
  <2> HIDE DEF Of
  <2>2. g = [k \in 0..0 |-> (IF k = 0 THEN 0 ELSE g[k - 1]) + Of(k)]
    BY <2>1
  <2> QED BY <2>2 DEF Of
<1>2. ASSUME NEW k \in 0..(n - 1), k \in Reached PROVE k + 1 \in Reached
  <2>1. PICK g : g = [i \in 0..k |-> (IF i = 0 THEN 0 ELSE g[i - 1]) + Of(i)]
    BY <1>2
  <2> HIDE DEF Of
  <2>2. PICK h : h = [i \in 0..(k + 1) |-> IF i = k + 1 THEN g[k] + Of(k + 1) ELSE g[i]]
    OBVIOUS
  <2>3. \A i \in 0..(k + 1) : h[i] = (IF i = 0 THEN 0 ELSE h[i - 1]) + Of(i)
    <3> TAKE i \in 0..(k + 1)
    <3>1. CASE i = 0
      <4>1. h[0] = g[0] /\ g[0] = 0 + Of(0)
        BY <2>1, <2>2
      <4> QED BY <3>1, <4>1
    <3>2. CASE i = k + 1
      <4>1. h[k + 1] = g[k] + Of(k + 1) /\ h[k] = g[k]
        BY <2>2
      <4> QED BY <3>2, <4>1
    <3>3. CASE i # 0 /\ i # k + 1
      <4>1. i \in 0..k /\ i - 1 \in 0..(k + 1) /\ i - 1 # k + 1
        BY <3>3
      <4>2. h[i] = g[i] /\ h[i - 1] = g[i - 1]
        BY <2>2, <3>3, <4>1
      <4>3. g[i] = g[i - 1] + Of(i)
        BY <2>1, <3>3, <4>1
      <4> QED BY <3>3, <4>2, <4>3
    <3> QED BY <3>1, <3>2, <3>3
  <2>4. h = [i \in 0..(k + 1) |-> (IF i = 0 THEN 0 ELSE h[i - 1]) + Of(i)]
    BY <2>2, <2>3
  <2> QED BY <2>4 DEF Of
<1>3. 0..n \subseteq Reached
  <2> HIDE DEF Reached
  <2> QED BY <1>1, <1>2, CountUp
<1> QED BY <1>3

(* The sum that prune() takes from the counts, step by step.               *)
LEMMA CountBelowSums ==
  ASSUME NEW t, NEW x, NEW n \in Nat, n = Cardinality(Nodes),
         NEW sib, sib = Walk(t.nextSib, t.child[x])
  PROVE  \E g : /\ AreSums(g, sib, t.n, n)
                /\ CountBelow(t, x) = g[n]
<1> DEFINE sums == CHOOSE g : AreSums(g, sib, t.n, n)
<1>1. AreSums(sums, sib, t.n, n)
  BY SumsExist
<1>2. CountBelow(t, x) = sums[n]
  BY DEF CountBelow, AreSums
<1> HIDE DEF sums
<1> QED BY <1>1, <1>2

(* The walk along the children of a node meets each of them once.          *)
LEMMA ChildrenDiffer ==
  ASSUME NodesAssumption, NEW t, GoodLinks(t), NEW x \in Nodes,
         NEW n \in Nat, n = Cardinality(Nodes),
         NEW sib, sib = Walk(t.nextSib, t.child[x]),
         NEW i \in 0..n, NEW j \in 0..n, i < j, sib[i] = sib[j]
  PROVE  sib[i] = None
<1>1. PICK f \in LinkTo, g \in LinkTo, s \in Pointers :
        f = t.nextSib /\ g = t.prevSib /\ s = t.child[x]
  BY LinksTyped DEF GoodLinks, LinkTo
<1>2. /\ sib \in [0..n -> Pointers] /\ sib[0] = s
      /\ \A k \in 0..(n - 1) : sib[k + 1] = IF sib[k] = None THEN None ELSE f[sib[k]]
  <2>1. sib = Walk(f, s)
    BY <1>1
  <2> HIDE <1>1
  <2>2. /\ Walk(f, s) \in [0..n -> Pointers] /\ Walk(f, s)[0] = s
        /\ \A k \in 0..(n - 1) :
             Walk(f, s)[k + 1] = IF Walk(f, s)[k] = None THEN None ELSE f[Walk(f, s)[k]]
    BY WalkSteps
  <2> QED BY <2>1, <2>2
<1>3. None \notin Nodes
  BY NodesAssumption DEF NodesAssumption
<1>4. \A k \in 0..(n - 1) : sib[k + 1] # None => sib[k] \in Nodes /\ g[sib[k + 1]] = sib[k]
  <2> SUFFICES ASSUME NEW k \in 0..(n - 1), sib[k + 1] # None
               PROVE  sib[k] \in Nodes /\ g[sib[k + 1]] = sib[k]
    OBVIOUS
  <2>1. k \in 0..n /\ k + 1 \in 0..n
    OBVIOUS
  <2>2. PICK a, b : a = sib[k] /\ b = sib[k + 1]
    OBVIOUS
  <2>3. a \in Pointers /\ b \in Pointers /\ b # None
    BY <1>2, <2>1, <2>2
  <2>4. a # None /\ b = f[a]
    BY <1>2, <2>2, <2>3
  <2>5. a \in Nodes /\ b \in Nodes
    BY <2>3, <2>4 DEF Pointers
  <2>6. \A c, d \in Nodes : t.nextSib[c] = d <=> t.prevSib[d] = c
    BY DEF GoodLinks
  <2>7. g[b] = a
    BY <1>1, <2>4, <2>5, <2>6
  <2> QED BY <2>2, <2>5, <2>7
<1> SUFFICES ASSUME sib[i] # None PROVE FALSE
  OBVIOUS
<1> DEFINE T == {m \in 0..i : sib[i - m] = sib[j - m] /\ sib[i - m] # None}
<1>5. 0 \in T
  <2>1. i - 0 = i /\ j - 0 = j
    OBVIOUS
  <2> QED BY <2>1
<1>6. ASSUME NEW m \in 0..(i - 1), m \in T PROVE m + 1 \in T
  <2>1. PICK a \in 0..(n - 1), b \in 0..(n - 1) : a = i - (m + 1) /\ b = j - (m + 1)
    OBVIOUS
  <2>2. a + 1 = i - m /\ b + 1 = j - m
    BY <2>1
  <2>3. sib[a + 1] = sib[b + 1] /\ sib[a + 1] # None
    BY <1>6, <2>2
  <2>4. sib[a] = sib[b] /\ sib[a] # None
    BY <1>3, <1>4, <2>3
  <2> QED BY <2>1, <2>4
<1> HIDE DEF T
<1>7. 0..i \subseteq T
  BY <1>5, <1>6, CountUp
<1>8. i \in T
  BY <1>7
<1>9. PICK b \in 0..(n - 1) : b + 1 = j - i
  <2>1. j - i - 1 \in 0..(n - 1) /\ (j - i - 1) + 1 = j - i
    OBVIOUS
  <2> QED BY <2>1
<1>10. sib[0] = sib[b + 1] /\ sib[0] # None
  <2>1. i - i = 0
    OBVIOUS
  <2> QED BY <1>8, <1>9, <2>1 DEF T
<1>11. g[s] # None
  BY <1>2, <1>3, <1>4, <1>10
<1> QED BY <1>1, <1>2, <1>10, <1>11 DEF GoodLinks

(* What is below a node is what is below its children, and these.          *)
LEMMA BelowIsChildrens ==
  ASSUME NodesAssumption, NEW t, GoodLinks(t), NEW x \in Nodes, NEW z \in Nodes
  PROVE  z \in Subtree(t, x) \ {x} <=> \E c \in ChildSet(t, x) : z \in Subtree(t, c)
<1>1. PICK f \in LinkTo : f = t.parent
  BY LinksTyped DEF GoodLinks
<1>2. NoCircle(f) /\ z \in Pointers /\ x # None
  BY <1>1, NodesAssumption DEF GoodLinks, Pointers, NodesAssumption
<1>3. ChildSet(t, x) = {c \in Nodes : f[c] = x}
  BY <1>1 DEF GoodLinks
<1>4. Along(f, z) \subseteq Nodes
  BY <1>2, AlongStarts
<1>5. ASSUME x \in Along(f, z), z # x PROVE \E c \in Nodes : f[c] = x /\ c \in Along(f, z)
  BY <1>2, <1>4, <1>5, AlongEntered
<1>6. ASSUME NEW c \in Nodes, f[c] = x, c \in Along(f, z) PROVE x \in Along(f, z) /\ z # x
  <2>1. x \in Along(f, z)
    BY <1>2, <1>6, AlongCloses
  <2>2. z # x
    BY <1>2, <1>6 DEF NoCircle
  <2> QED BY <2>1, <2>2
<1> QED BY <1>1, <1>3, <1>5, <1>6 DEF Subtree, Lineage

(* The trees of two children are apart.                                    *)
LEMMA ChildrenApart ==
  ASSUME NodesAssumption, NEW t, GoodLinks(t), NEW x \in Nodes,
         NEW c \in ChildSet(t, x), NEW d \in ChildSet(t, x),
         NEW z \in Nodes, z \in Subtree(t, c), z \in Subtree(t, d)
  PROVE  c = d
<1>1. PICK f \in LinkTo : f = t.parent
  BY LinksTyped DEF GoodLinks
<1>2. NoCircle(f)
  BY <1>1 DEF GoodLinks
<1>3. c \in Nodes /\ d \in Nodes /\ f[c] = x /\ f[d] = x
  BY <1>1 DEF GoodLinks
<1>4. c \in Lineage(t, z) /\ d \in Lineage(t, z)
  BY DEF Subtree
<1>5. c \in Lineage(t, d) \/ d \in Lineage(t, c)
  BY <1>3, <1>4, SubtreeFacts
<1>6. Along(f, c) = {c} \cup Along(f, x) /\ Along(f, d) = {d} \cup Along(f, x)
  BY <1>3, AlongFirst
<1>7. c \notin Along(f, x) /\ d \notin Along(f, x)
  BY <1>2, <1>3 DEF NoCircle
<1> QED BY <1>1, <1>5, <1>6, <1>7 DEF Lineage

(* What prune() adds up is the number of nodes below.                      *)
LEMMA CountBelowRight ==
  ASSUME NodesAssumption, NEW t, GoodLinks(t), GoodCounts(t), NEW x \in Nodes
  PROVE  /\ CountBelow(t, x) = Cardinality(Subtree(t, x) \ {x})
         /\ CountBelow(t, x) \in Nat
<1>1. PICK n \in Nat : n = Cardinality(Nodes)
  BY StepsOfWalk
<1>2. PICK sib : sib = Walk(t.nextSib, t.child[x])
  OBVIOUS
<1>3. PICK sum : AreSums(sum, sib, t.n, n) /\ CountBelow(t, x) = sum[n]
  BY <1>1, <1>2, CountBelowSums
<1>4. /\ sib \in [0..n -> Pointers]
      /\ ChildSet(t, x) = {sib[k] : k \in 0..n} \ {None}
  <2>1. PICK f \in LinkTo, s \in Pointers : f = t.nextSib /\ s = t.child[x]
    BY LinksTyped DEF GoodLinks, LinkTo
  <2>2. sib = Walk(f, s) /\ ChildSet(t, x) = Along(f, s)
    BY <1>2, <2>1 DEF ChildSet
  <2>3. Walk(f, s) \in [0..n -> Pointers]
    BY <1>1, WalkSteps
  <2> QED BY <1>1, <2>2, <2>3 DEF Along
<1>5. \A i, j \in 0..n : i < j /\ sib[i] = sib[j] => sib[i] = None
  BY <1>1, <1>2, ChildrenDiffer
<1> DEFINE Of(k) == IF sib[k] = None THEN {} ELSE Subtree(t, sib[k])
           UpTo(k) == {z \in Nodes : \E j \in 0..k : z \in Of(j)}
           S == {k \in 0..n : sum[k] = Cardinality(UpTo(k)) /\ sum[k] \in Nat}
<1>6. \A k \in 0..n : sib[k] # None => sib[k] \in Nodes /\ sib[k] \in ChildSet(t, x)
  BY <1>4 DEF Pointers
<1>7. \A k \in 0..n : /\ Of(k) \subseteq Nodes /\ IsFiniteSet(Of(k))
                      /\ Cardinality(Of(k)) \in Nat
                      /\ Cardinality(Of(k)) = IF sib[k] = None THEN 0 ELSE t.n[sib[k]]
  <2> TAKE k \in 0..n
  <2>1. CASE sib[k] = None
    <3>1. IsFiniteSet({}) /\ Cardinality({}) = 0
      BY FS_EmptySet
    <3> QED BY <2>1, <3>1
  <2>2. CASE sib[k] # None
    <3>1. PICK c \in Nodes : c = sib[k]
      BY <1>6, <2>2
    <3>2. /\ Subtree(t, c) \subseteq Nodes
          /\ IsFiniteSet(Subtree(t, c)) /\ Cardinality(Subtree(t, c)) \in Nat
      BY SubtreeFacts
    <3>3. t.n[c] = Cardinality(Subtree(t, c))
      BY DEF GoodCounts
    <3> QED BY <2>2, <3>1, <3>2, <3>3
  <2> QED BY <2>1, <2>2
<1>8. \A i, j \in 0..n : i < j => Of(i) \cap Of(j) = {}
  <2> SUFFICES ASSUME NEW i \in 0..n, NEW j \in 0..n, i < j, NEW z \in Of(i), z \in Of(j)
               PROVE  FALSE
    OBVIOUS
  <2>1. sib[i] # None /\ sib[j] # None /\ sib[i] # sib[j]
    BY <1>5
  <2>2. z \in Subtree(t, sib[i]) /\ z \in Subtree(t, sib[j]) /\ z \in Nodes
    BY <1>7, <2>1
  <2>3. sib[i] \in ChildSet(t, x) /\ sib[j] \in ChildSet(t, x)
    BY <1>6, <2>1
  <2> QED BY <2>1, <2>2, <2>3, ChildrenApart
<1>9. \A k \in 0..n : sum[k] = (IF k = 0 THEN 0 ELSE sum[k - 1]) + Cardinality(Of(k))
  <2> TAKE k \in 0..n
  <2>1. sum[k] = (IF k = 0 THEN 0 ELSE sum[k - 1])
                   + (IF sib[k] = None THEN 0 ELSE t.n[sib[k]])
    BY <1>3 DEF AreSums
  <2>2. Cardinality(Of(k)) = IF sib[k] = None THEN 0 ELSE t.n[sib[k]]
    BY <1>7
  <2> HIDE DEF Of
  <2> QED BY <2>1, <2>2
<1> HIDE DEF Of
<1>10. \A k \in 0..n : IsFiniteSet(UpTo(k))
  <2> TAKE k \in 0..n
  <2>1. UpTo(k) \subseteq Nodes
    OBVIOUS
  <2> QED BY <2>1, FS_Subset, NodesAssumption DEF NodesAssumption
<1>11. 0 \in S
  <2>1. UpTo(0) = Of(0)
    BY <1>7
  <2>2. sum[0] = 0 + Cardinality(Of(0)) /\ Cardinality(Of(0)) \in Nat
    BY <1>7, <1>9
  <2> QED BY <2>1, <2>2
<1>12. ASSUME NEW k \in 0..(n - 1), k \in S PROVE k + 1 \in S
  <2>0. k \in 0..n /\ k + 1 \in 0..n /\ (k + 1) - 1 = k
    OBVIOUS
  <2>1. UpTo(k + 1) = UpTo(k) \cup Of(k + 1)
    BY <1>7, <2>0
  <2>2. UpTo(k) \cap Of(k + 1) = {}
    BY <1>8, <2>0
  <2>3. PICK A, B : A = UpTo(k) /\ B = Of(k + 1)
    OBVIOUS
  <2>4. IsFiniteSet(A) /\ IsFiniteSet(B)
    BY <1>7, <1>10, <2>0, <2>3
  <2>5. Cardinality(A \cup B) = Cardinality(A) + Cardinality(B) - Cardinality(A \cap B)
    BY <2>4, FS_Union
  <2>6. Cardinality(A \cap B) = 0
    BY <2>2, <2>3, FS_EmptySet
  <2>7. sum[k] = Cardinality(A) /\ sum[k] \in Nat
    BY <1>12, <2>3
  <2>8. Cardinality(B) \in Nat /\ sum[k + 1] = sum[k] + Cardinality(B)
    BY <1>7, <1>9, <2>0, <2>3
  <2>9. Cardinality(A \cup B) = sum[k + 1] /\ sum[k + 1] \in Nat
    BY <2>5, <2>6, <2>7, <2>8
  <2>10. UpTo(k + 1) = A \cup B
    BY <2>1, <2>3
  <2> HIDE DEF UpTo
  <2> QED BY <2>0, <2>9, <2>10
<1>13. 0..n \subseteq S
  <2> HIDE DEF S
  <2> QED BY <1>11, <1>12, CountUp
<1>14. UpTo(n) = Subtree(t, x) \ {x}
  <2>1. ASSUME NEW z \in Nodes
        PROVE  z \in UpTo(n) <=> \E c \in ChildSet(t, x) : z \in Subtree(t, c)
    BY <1>4 DEF Of
  <2>2. \A z \in Nodes : z \in Subtree(t, x) \ {x}
                           <=> \E c \in ChildSet(t, x) : z \in Subtree(t, c)
    BY BelowIsChildrens
  <2>3. UpTo(n) \subseteq Nodes /\ Subtree(t, x) \subseteq Nodes
    BY SubtreeFacts
  <2> HIDE DEF UpTo
  <2> QED BY <2>1, <2>2, <2>3
<1>15. sum[n] = Cardinality(UpTo(n)) /\ sum[n] \in Nat
  BY <1>13
<1> QED BY <1>3, <1>14, <1>15

(* Nodes that are pruned are no longer counted.                            *)
LEMMA PruneKeepsCounts ==
  ASSUME NodesAssumption, NEW t, GoodLinks(t), GoodCounts(t), NEW x \in Nodes
  PROVE  GoodCounts(Pruned(t, x))
<1>1. PICK C \in SUBSET Nodes : C = ChildSet(t, x)
  BY DEF GoodLinks
<1>2. CASE C = {}
  <2>1. Pruned(t, x) = t
    BY <1>1, <1>2 DEF Pruned
  <2> QED BY <2>1
<1>3. CASE C # {}
  <2>1. PICK t2 : t2 = Pruned(t, x)
    OBVIOUS
  <2>2. t.n \in [Nodes -> Int] /\ t \in Links
    BY LinksTyped DEF GoodLinks
  <2>3. PICK d \in Nat : d = CountBelow(t, x) /\ d = Cardinality(Subtree(t, x) \ {x})
    BY CountBelowRight
  <2>4. \A z \in Nodes : Lineage(t2, z) = IF x \in Lineage(t, z) /\ z # x
                                         THEN Lineage(t, z) \ Lineage(t, x)
                                         ELSE Lineage(t, z)
    BY <2>1, PrunedLineage
  <2> SUFFICES ASSUME NEW y \in Nodes PROVE t2.n[y] = Cardinality(Subtree(t2, y))
    BY <2>1 DEF GoodCounts
  <2>5. t2.n[y] = IF y \in Lineage(t, x) THEN t.n[y] - d ELSE t.n[y]
    <3>1. t2.n = Counted(t, x, -CountBelow(t, x))
      BY <1>1, <1>3, <2>1, PrunedLinks
    <3>2. PICK e \in Int : e = -d
      BY <2>3
    <3>3. t2.n = Counted(t, x, e)
      <4>1. d = CountBelow(t, x)
        BY <2>3
      <4> QED BY <3>1, <3>2, <4>1, Zenon
    <3>4. t2.n[y] = IF y \in Lineage(t, x) THEN t.n[y] + e ELSE t.n[y]
      BY <2>2, <3>3, CountedTyped
    <3>5. t.n[y] \in Int /\ (t.n[y] + e) = t.n[y] - d
      BY <2>2, <3>2
    <3> QED BY <3>4, <3>5
  <2>6. t.n[y] = Cardinality(Subtree(t, y))
    BY DEF GoodCounts
  <2>7. CASE y \notin Lineage(t, x)
    <3>1. Subtree(t2, y) = Subtree(t, y)
      BY <2>4, <2>7 DEF Subtree
    <3> QED BY <2>5, <2>6, <2>7, <3>1
  <2>8. CASE y \in Lineage(t, x)
    <3>1. Subtree(t2, y) = Subtree(t, y) \ (Subtree(t, x) \ {x})
      BY <2>4, <2>8 DEF Subtree
    <3>2. Subtree(t, x) \subseteq Subtree(t, y)
      <4>1. \A z \in Nodes : x \in Lineage(t, z) => Lineage(t, x) \subseteq Lineage(t, z)
        BY SubtreeFacts
      <4> QED BY <2>8, <4>1 DEF Subtree
    <3>3. IsFiniteSet(Subtree(t, y))
      BY SubtreeFacts
    <3>4. Subtree(t, y) \cap (Subtree(t, x) \ {x}) = Subtree(t, x) \ {x}
      BY <3>2
    <3>5. Cardinality(Subtree(t, y) \ (Subtree(t, x) \ {x})) =
            Cardinality(Subtree(t, y))
              - Cardinality(Subtree(t, y) \cap (Subtree(t, x) \ {x}))
      BY <3>3, FS_Difference
    <3> QED BY <2>3, <2>5, <2>6, <2>8, <3>1, <3>4, <3>5
  <2> QED BY <2>7, <2>8
<1> QED BY <1>2, <1>3

-----------------------------------------------------------------------------
(* The operations on the tree.                                             *)

(* The inductive invariant of the links: TreeRight, and that no scene has  *)
(* a parent.                                                               *)
TreeInv(t) ==
  /\ GoodLinks(t)
  /\ GoodCounts(t)
  /\ \A s \in Scenes : t.parent[s] = None

(* A lineage is a node and its ancestors, among which it is not.           *)
LEMMA LineageParts ==
  ASSUME NodesAssumption, NEW t, GoodLinks(t), NEW x \in Nodes
  PROVE  /\ Lineage(t, x) = {x} \cup Ancestors(t, x)
         /\ x \notin Ancestors(t, x)
         /\ Lineage(t, x) \subseteq Nodes
         /\ Ancestors(t, x) = Along(t.parent, t.parent[x])
         /\ t.parent[x] # None => /\ t.parent[x] \in Nodes
                                  /\ Ancestors(t, x) = Lineage(t, t.parent[x])
         /\ t.parent[x] = None => Ancestors(t, x) = {}
<1>1. PICK f \in LinkTo, p \in Pointers : f = t.parent /\ p = f[x]
  BY LinksTyped DEF GoodLinks, LinkTo
<1>2. x \in Pointers
  BY DEF Pointers
<1>3. Along(f, x) = {x} \cup Along(f, p)
  BY <1>1, AlongFirst
<1>4. x \notin Along(f, p)
  BY <1>1 DEF GoodLinks, NoCircle
<1>5. Along(f, x) \subseteq Nodes
  BY <1>2, AlongStarts
<1>6. Ancestors(t, x) = Along(f, p)
  <2>1. p = None => Along(f, p) = {}
    BY AlongStarts
  <2> QED BY <1>1, <2>1 DEF Ancestors, Lineage
<1>7. p # None => p \in Nodes
  BY DEF Pointers
<1>8. Ancestors(t, x) = IF p = None THEN {} ELSE Lineage(t, p)
  BY <1>1 DEF Ancestors
<1> QED BY <1>1, <1>3, <1>4, <1>5, <1>6, <1>7, <1>8 DEF Lineage

(* At first no node has links.                                             *)
LEMMA InitTree ==
  ASSUME NodesAssumption, TreeInit
  PROVE  TreeInv(links)
<1>1. links = [parent |-> [x \in Nodes |-> None], child |-> [x \in Nodes |-> None],
               prevSib |-> [x \in Nodes |-> None], nextSib |-> [x \in Nodes |-> None],
               n |-> [x \in Nodes |-> 1]]
  BY DEF TreeInit
<1>2. None \in Pointers /\ None \notin Nodes
  BY NodesAssumption DEF NodesAssumption, Pointers
<1>3. links \in Links
  BY <1>1, <1>2 DEF Links
<1>4. PICK f \in LinkTo : f = [x \in Nodes |-> None]
  BY <1>2 DEF LinkTo
<1>5. /\ links.parent = f /\ links.child = f /\ links.prevSib = f /\ links.nextSib = f
      /\ \A x \in Nodes : f[x] = None /\ links.n[x] = 1
  BY <1>1, <1>4
<1>6. Along(f, None) = {}
  BY <1>2, AlongStarts
<1>7. NoCircle(f)
  BY <1>5, <1>6 DEF NoCircle
<1>8. \A x \in Nodes : ChildSet(links, x) = {}
  BY <1>5, <1>6 DEF ChildSet
<1>9. GoodLinks(links)
  BY <1>2, <1>3, <1>5, <1>7, <1>8 DEF GoodLinks
<1>10. GoodCounts(links)
  <2> SUFFICES ASSUME NEW x \in Nodes PROVE links.n[x] = Cardinality(Subtree(links, x))
    BY DEF GoodCounts
  <2>1. \A y \in Nodes : Lineage(links, y) = {y}
    <3> TAKE y \in Nodes
    <3>1. links.parent[y] = None
      BY <1>5
    <3> QED BY <1>9, <3>1, LineageParts
  <2>2. Subtree(links, x) = {x}
    BY <2>1 DEF Subtree
  <2>3. Cardinality({x}) = 1
    BY FS_Singleton
  <2> QED BY <1>5, <2>2, <2>3
<1> QED BY <1>2, <1>5, <1>9, <1>10, NodesAssumption DEF TreeInv, NodesAssumption

(* drop keeps the tree right, and takes the node and what is below it out  *)
(* of the lineage that the node had.                                       *)
LEMMA DroppedTree ==
  ASSUME NodesAssumption, NEW t, TreeInv(t), NEW x \in Nodes
  PROVE  /\ TreeInv(Dropped(t, x))
         /\ \A u \in Nodes : Dropped(t, x).parent[u] = IF u = x THEN None ELSE t.parent[u]
         /\ \A z \in Nodes : Lineage(Dropped(t, x), z) =
              IF x \in Lineage(t, z) THEN Lineage(t, z) \ Ancestors(t, x)
              ELSE Lineage(t, z)
<1> USE DEF TreeInv
<1>1. PICK t2 : t2 = Dropped(t, x)
  OBVIOUS
<1>2. GoodLinks(t2) /\ GoodCounts(t2)
  BY <1>1, DropKeepsLinks, DropKeepsCounts
<1>3. CASE t.parent[x] = None
  <2>1. t2 = t
    BY <1>1, <1>3 DEF Dropped
  <2>2. Ancestors(t, x) = {}
    BY <1>3, LineageParts
  <2> QED BY <1>1, <1>3, <2>1, <2>2
<1>4. CASE t.parent[x] # None
  <2>1. \A u \in Nodes : t2.parent[u] = IF u = x THEN None ELSE t.parent[u]
    BY <1>1, <1>4, DroppedLinks
  <2>2. \A z \in Nodes : Lineage(t2, z) = IF x \in Lineage(t, z)
                                         THEN Lineage(t, z) \ Lineage(t, t.parent[x])
                                         ELSE Lineage(t, z)
    BY <1>1, <1>4, DroppedLineage
  <2>3. Ancestors(t, x) = Lineage(t, t.parent[x])
    BY <1>4, LineageParts
  <2>4. \A s \in Scenes : t2.parent[s] = None
    BY <2>1, NodesAssumption DEF NodesAssumption
  <2> QED BY <1>1, <1>2, <2>1, <2>2, <2>3, <2>4
<1> QED BY <1>3, <1>4

(* So does insert, which gives all of them the lineage of the new parent.  *)
LEMMA InsertedTree ==
  ASSUME NodesAssumption, NEW t, TreeInv(t), NEW p \in Nodes, NEW c \in Nodes,
         c # p, c \notin Scenes, c \notin Ancestors(t, p)
  PROVE  /\ TreeInv(Linked(Dropped(t, c), p, c))
         /\ \A z \in Nodes : Lineage(Linked(Dropped(t, c), p, c), z) =
              IF c \in Lineage(t, z)
              THEN (Lineage(t, z) \ Ancestors(t, c)) \cup Lineage(t, p)
              ELSE Lineage(t, z)
<1> USE DEF TreeInv
<1>1. PICK t2, t3 : t2 = Dropped(t, c) /\ t3 = Linked(t2, p, c)
  OBVIOUS
<1>2. /\ TreeInv(t2)
      /\ \A u \in Nodes : t2.parent[u] = IF u = c THEN None ELSE t.parent[u]
      /\ \A z \in Nodes : Lineage(t2, z) =
           IF c \in Lineage(t, z) THEN Lineage(t, z) \ Ancestors(t, c) ELSE Lineage(t, z)
  BY <1>1, DroppedTree
<1>3. c \notin Lineage(t, p)
  BY LineageParts
<1>4. Lineage(t2, p) = Lineage(t, p) /\ c \notin Lineage(t2, p)
  BY <1>2, <1>3
<1>5. t2.parent[c] = None /\ GoodLinks(t2) /\ GoodCounts(t2)
  BY <1>2
<1>6. GoodLinks(t3)
  BY <1>1, <1>4, <1>5, LinkKeepsLinks
<1>7. GoodCounts(t3)
  BY <1>1, <1>4, <1>5, LinkKeepsCounts
<1>8. \A u \in Nodes : t3.parent[u] = IF u = c THEN p ELSE t2.parent[u]
  BY <1>1, <1>5, LinkedLinks
<1>9. \A s \in Scenes : t3.parent[s] = None
  BY <1>2, <1>8, NodesAssumption DEF NodesAssumption
<1>10. \A z \in Nodes : Lineage(t3, z) =
         Lineage(t2, z) \cup (IF c \in Lineage(t2, z) THEN Lineage(t2, p) ELSE {})
  BY <1>1, <1>4, <1>5, LinkedLineage
<1>11. c \notin Ancestors(t, c)
  BY LineageParts
<1>12. \A z \in Nodes : Lineage(t3, z) =
         IF c \in Lineage(t, z) THEN (Lineage(t, z) \ Ancestors(t, c)) \cup Lineage(t, p)
         ELSE Lineage(t, z)
  <2> TAKE z \in Nodes
  <2>1. c \in Lineage(t2, z) <=> c \in Lineage(t, z)
    BY <1>2, <1>11
  <2>2. CASE c \in Lineage(t, z)
    BY <1>2, <1>4, <1>10, <2>1, <2>2
  <2>3. CASE c \notin Lineage(t, z)
    BY <1>2, <1>10, <2>1, <2>3
  <2> QED BY <2>2, <2>3
<1> QED BY <1>1, <1>6, <1>7, <1>9, <1>12

(* prune keeps the tree right, and takes what is below the node out of     *)
(* the lineage of the node.                                                *)
LEMMA PrunedTree ==
  ASSUME NodesAssumption, NEW t, TreeInv(t), NEW x \in Nodes
  PROVE  /\ TreeInv(Pruned(t, x))
         /\ \A u \in Nodes : Pruned(t, x).parent[u] =
              IF t.parent[u] = x THEN None ELSE t.parent[u]
         /\ \A z \in Nodes : Lineage(Pruned(t, x), z) =
              IF x \in Lineage(t, z) /\ z # x THEN Lineage(t, z) \ Lineage(t, x)
              ELSE Lineage(t, z)
<1> USE DEF TreeInv
<1>1. PICK t2 : t2 = Pruned(t, x)
  OBVIOUS
<1>2. CountBelow(t, x) \in Int
  <2>1. CountBelow(t, x) \in Nat
    BY CountBelowRight
  <2> QED BY <2>1
<1>3. GoodLinks(t2) /\ GoodCounts(t2)
  BY <1>1, <1>2, PruneKeepsLinks, PruneKeepsCounts
<1>4. PICK C \in SUBSET Nodes : C = ChildSet(t, x) /\ C = {u \in Nodes : t.parent[u] = x}
  BY DEF GoodLinks
<1>5. \A u \in Nodes : t2.parent[u] = IF t.parent[u] = x THEN None ELSE t.parent[u]
  <2>1. CASE C = {}
    <3>1. t2 = t
      BY <1>1, <1>4, <2>1 DEF Pruned
    <3> QED BY <1>4, <2>1, <3>1
  <2>2. CASE C # {}
    <3>1. CutAt(t2.parent, t.parent, C)
      BY <1>1, <1>4, <2>2, PrunedLinks
    <3> QED BY <1>4, <3>1 DEF CutAt
  <2> QED BY <2>1, <2>2
<1>6. \A s \in Scenes : t2.parent[s] = None
  BY <1>5, NodesAssumption DEF NodesAssumption
<1>7. \A z \in Nodes : Lineage(t2, z) =
        IF x \in Lineage(t, z) /\ z # x THEN Lineage(t, z) \ Lineage(t, x)
        ELSE Lineage(t, z)
  BY <1>1, PrunedLineage
<1> QED BY <1>1, <1>3, <1>5, <1>6, <1>7

(* ~Impl keeps the tree right, and leaves the node with no link at all.    *)
LEMMA ClearedTree ==
  ASSUME NodesAssumption, NEW t, TreeInv(t), NEW x \in Nodes
  PROVE  /\ TreeInv(Cleared(t, x))
         /\ Cleared(t, x).parent[x] = None
         /\ \A u \in Nodes : Cleared(t, x).parent[u] # x
         /\ \A z \in Nodes : Lineage(Cleared(t, x), z) =
              IF z = x THEN {x}
              ELSE IF x \in Lineage(t, z) THEN Lineage(t, z) \ Lineage(t, x)
              ELSE Lineage(t, z)
<1>1. PICK t2, t3 : t2 = Dropped(t, x) /\ t3 = Pruned(t2, x)
  OBVIOUS
<1>2. /\ TreeInv(t2)
      /\ \A u \in Nodes : t2.parent[u] = IF u = x THEN None ELSE t.parent[u]
      /\ \A z \in Nodes : Lineage(t2, z) =
           IF x \in Lineage(t, z) THEN Lineage(t, z) \ Ancestors(t, x) ELSE Lineage(t, z)
  BY <1>1, DroppedTree
<1>3. /\ TreeInv(t3)
      /\ \A u \in Nodes : t3.parent[u] = IF t2.parent[u] = x THEN None ELSE t2.parent[u]
      /\ \A z \in Nodes : Lineage(t3, z) =
           IF x \in Lineage(t2, z) /\ z # x THEN Lineage(t2, z) \ Lineage(t2, x)
           ELSE Lineage(t2, z)
  BY <1>1, <1>2, PrunedTree
<1>4. Lineage(t, x) = {x} \cup Ancestors(t, x) /\ x \notin Ancestors(t, x)
  BY LineageParts DEF TreeInv
<1>5. Lineage(t2, x) = {x}
  BY <1>2, <1>4
<1>6. \A z \in Nodes : Lineage(t3, z) =
        IF z = x THEN {x}
        ELSE IF x \in Lineage(t, z) THEN Lineage(t, z) \ Lineage(t, x)
        ELSE Lineage(t, z)
  <2> TAKE z \in Nodes
  <2>1. x \in Lineage(t2, z) <=> x \in Lineage(t, z)
    BY <1>2, <1>4
  <2>2. CASE z = x
    BY <1>3, <1>5, <2>2
  <2>3. CASE z # x /\ x \in Lineage(t, z)
    BY <1>2, <1>3, <1>4, <1>5, <2>1, <2>3
  <2>4. CASE z # x /\ x \notin Lineage(t, z)
    BY <1>2, <1>3, <2>1, <2>4
  <2> QED BY <2>2, <2>3, <2>4
<1>7. x # None
  BY NodesAssumption DEF NodesAssumption
<1>8. t3.parent[x] = None /\ \A u \in Nodes : t3.parent[u] # x
  BY <1>2, <1>3, <1>7
<1>9. t3 = Cleared(t, x)
  BY <1>1 DEF Cleared
<1> QED BY <1>3, <1>6, <1>8, <1>9

(* A node that was cleared of all links joins the children of p.           *)
LEMMA AssignedTree ==
  ASSUME NodesAssumption, NEW t, TreeInv(t), NEW x \in Nodes, NEW p \in Nodes,
         x \notin Scenes, p # x, t.parent[x] = None, \A u \in Nodes : t.parent[u] # x
  PROVE  /\ TreeInv(Linked(t, p, x))
         /\ \A z \in Nodes : Lineage(Linked(t, p, x), z) =
              Lineage(t, z) \cup (IF z = x THEN Lineage(t, p) ELSE {})
<1> USE DEF TreeInv
<1>1. PICK t2 : t2 = Linked(t, p, x)
  OBVIOUS
<1>2. PICK f \in LinkTo : f = t.parent
  BY LinksTyped DEF GoodLinks
<1>3. \A z \in Nodes : x \in Lineage(t, z) => z = x
  <2> SUFFICES ASSUME NEW z \in Nodes, x \in Along(f, z), z # x PROVE FALSE
    BY <1>2 DEF Lineage
  <2>1. z \in Pointers
    BY DEF Pointers
  <2>2. Along(f, z) \subseteq Nodes
    BY <2>1, AlongStarts
  <2>3. \E u \in Along(f, z) : f[u] = x
    BY <2>1, AlongEntered
  <2> QED BY <1>2, <2>2, <2>3
<1>4. x \notin Lineage(t, p) /\ x \in Lineage(t, x)
  BY <1>3, LineageParts
<1>5. GoodLinks(t2)
  BY <1>1, <1>4, LinkKeepsLinks
<1>6. GoodCounts(t2)
  BY <1>1, <1>4, LinkKeepsCounts
<1>7. \A u \in Nodes : t2.parent[u] = IF u = x THEN p ELSE t.parent[u]
  BY <1>1, LinkedLinks
<1>8. \A s \in Scenes : t2.parent[s] = None
  BY <1>7, NodesAssumption DEF NodesAssumption
<1>9. \A z \in Nodes : Lineage(t2, z) =
        Lineage(t, z) \cup (IF x \in Lineage(t, z) THEN Lineage(t, p) ELSE {})
  BY <1>1, <1>4, LinkedLineage
<1>10. \A z \in Nodes : Lineage(t2, z) =
         Lineage(t, z) \cup (IF z = x THEN Lineage(t, p) ELSE {})
  BY <1>3, <1>4, <1>9
<1> QED BY <1>1, <1>5, <1>6, <1>8, <1>10

(* Every call keeps the tree right.                                        *)
LEMMA TreeStep ==
  ASSUME NodesAssumption, TreeInv(links), TreeNext
  PROVE  TreeInv(links')
<1>0. GoodLinks(links)
  BY DEF TreeInv
<1>1. ASSUME NEW p \in Nodes, NEW c \in Nodes, Insert(p, c) PROVE TreeInv(links')
  <2>1. c # p /\ c \notin Scenes /\ c \notin Ancestors(links, p)
    BY <1>1 DEF Insert, MayInsert, IsDescendantOf
  <2>2. TreeInv(Linked(Dropped(links, c), p, c))
    BY <2>1, InsertedTree
  <2> QED BY <1>1, <2>2 DEF Insert
<1>2. ASSUME NEW x \in Nodes, Drop(x) PROVE TreeInv(links')
  BY <1>2, DroppedTree DEF Drop
<1>3. ASSUME NEW x \in Nodes, Prune(x) PROVE TreeInv(links')
  BY <1>3, PrunedTree DEF Prune
<1>4. ASSUME NEW x \in Nodes, Destroy(x) PROVE TreeInv(links')
  BY <1>4, ClearedTree DEF Destroy
<1>5. ASSUME NEW x \in Nodes, NEW other \in Nodes, Assign(x, other) PROVE TreeInv(links')
  <2>1. PICK t, p : t = Cleared(links, x) /\ p = t.parent[other]
    OBVIOUS
  <2>2. /\ TreeInv(t) /\ t.parent[x] = None
        /\ \A u \in Nodes : t.parent[u] # x
    BY <2>1, ClearedTree
  <2>3. links' = IF p = None THEN t ELSE Linked(t, p, x)
    BY <1>5, <2>1 DEF Assign
  <2>4. CASE p = None
    BY <2>2, <2>3, <2>4
  <2>5. CASE p # None
    <3>1. p \in Nodes /\ p # x
      BY <2>1, <2>2, <2>5, LineageParts DEF TreeInv
    <3>2. x \notin Scenes
      BY <1>5, <2>1, <2>2, <2>5 DEF Assign, TreeInv
    <3>3. TreeInv(Linked(t, p, x))
      BY <2>2, <3>1, <3>2, AssignedTree
    <3> QED BY <2>3, <2>5, <3>3
  <2> QED BY <2>4, <2>5
<1> QED BY <1>1, <1>2, <1>3, <1>4, <1>5 DEF TreeNext

(* The invariant says no less than TreeRight.                              *)
LEMMA TreeInvRight ==
  ASSUME NodesAssumption, TreeInv(links)
  PROVE  TreeRight
<1>1. GoodLinks(links) /\ GoodCounts(links)
  BY DEF TreeInv
<1>2. Acyclic
  BY <1>1, LineageParts DEF Acyclic
<1>3. LinksAgree
  BY <1>1, <1>2 DEF LinksAgree, LinksOK, GoodLinks
<1>4. CountsRight
  BY <1>1 DEF CountsRight, GoodCounts
<1> QED BY <1>3, <1>4 DEF TreeRight

(* The links of all nodes describe one forest, and every node counts the   *)
(* nodes of its tree, after any sequence of calls of insert, drop, prune,  *)
(* operator= and ~Node.                                                    *)
THEOREM TreesStayRight == TreeSpec => []TreeRight
<1>1. TreeInit => TreeInv(links)
  BY NodesAssumption, InitTree
<1>2. TreeInv(links) /\ [TreeNext]_links => TreeInv(links)'
  <2> SUFFICES ASSUME TreeInv(links), [TreeNext]_links PROVE TreeInv(links')
    OBVIOUS
  <2>1. CASE TreeNext
    BY <2>1, NodesAssumption, TreeStep
  <2>2. CASE UNCHANGED links
    BY <2>2
  <2> QED BY <2>1, <2>2
<1>3. TreeInv(links) => TreeRight
  BY NodesAssumption, TreeInvRight
<1> QED BY <1>1, <1>2, <1>3, PTL DEF TreeSpec

-----------------------------------------------------------------------------
(* The physics worlds.                                                     *)

(* A node and the body that it has know each other; the body exists.       *)
Owners ==
  /\ \A x \in Nodes : body[x] # None => body[x] \in alive /\ nodeOf[body[x]] = x
  /\ \A b \in Bodies : nodeOf[b] # None => body[nodeOf[b]] = b

(* A body is in the world that it refers to, and a world has bodies that   *)
(* exist.                                                                  *)
Placed ==
  /\ \A s \in Scenes : bodies[s] \subseteq alive
  /\ \A b \in Bodies, s \in Scenes : worldOf[b] = s <=> b \in bodies[s]

(* A body that no node has is in a world.                                  *)
StraysHeld == \A b \in alive : nodeOf[b] = None => worldOf[b] # None

(* The part of WorldsMatch that is not about types.                        *)
WorldsRight ==
  \A s \in Scenes : SymDiff(bodies[s], changes[s]) = BodiesOf(Subtree(links, s))

(* A world has updates pending for bodies that it has.                     *)
UpdatesPlaced == \A s \in Scenes : DOMAIN updates[s] \subseteq bodies[s]

(* The inductive invariant of the graph and its worlds.                    *)
PhysInv ==
  /\ PhysTypeOK
  /\ TreeInv(links)
  /\ Owners
  /\ Placed
  /\ StraysHeld
  /\ WorldsRight
  /\ UpdatesPlaced
  /\ GroupsMatch
  /\ AssertionsHold

(* Different nodes have different bodies.                                  *)
LEMMA BodiesOfParts ==
  ASSUME BodiesAssumption, NodesAssumption, PhysTypeOK, Owners,
         NEW S \in SUBSET Nodes, NEW T \in SUBSET Nodes
  PROVE  /\ BodiesOf(S \ T) = BodiesOf(S) \ BodiesOf(T)
         /\ BodiesOf(S \cup T) = BodiesOf(S) \cup BodiesOf(T)
         /\ S \cap T = {} => BodiesOf(S) \cap BodiesOf(T) = {}
         /\ S \subseteq T => BodiesOf(S) \subseteq BodiesOf(T)
         /\ BodiesOf(S) \subseteq Bodies
<1>1. body \in [Nodes -> Bodies \cup {None}]
  BY DEF PhysTypeOK
<1>2. \A x, y \in Nodes : body[x] # None /\ body[x] = body[y] => x = y
  BY DEF Owners
<1>3. BodiesOf(S \ T) = BodiesOf(S) \ BodiesOf(T)
  BY <1>2 DEF BodiesOf
<1>4. BodiesOf(S \cup T) = BodiesOf(S) \cup BodiesOf(T)
  BY DEF BodiesOf
<1>5. S \cap T = {} => BodiesOf(S) \cap BodiesOf(T) = {}
  BY <1>2 DEF BodiesOf
<1>6. BodiesOf(S) \subseteq Bodies
  BY <1>1 DEF BodiesOf
<1>7. S \subseteq T => BodiesOf(S) \subseteq BodiesOf(T)
  BY DEF BodiesOf
<1> QED BY <1>3, <1>4, <1>5, <1>6, <1>7

(* A change makes of what a world is to have what it is told, and asserts  *)
(* nothing wrong, when what is added was not there and what is removed was.*)
LEMMA ChangeRight ==
  ASSUME PhysTypeOK, WorldsRight, AssertionsHold, NEW toAdd, NEW toRemove,
         Change(toAdd, toRemove),
         \A s \in Scenes : toAdd[s] \subseteq Bodies /\ toRemove[s] \subseteq Bodies,
         \A s \in Scenes : toAdd[s] \cap BodiesOf(Subtree(links, s)) = {},
         \A s \in Scenes : toRemove[s] \subseteq BodiesOf(Subtree(links, s))
  PROVE  /\ \A s \in Scenes : SymDiff(bodies'[s], changes'[s]) =
              (BodiesOf(Subtree(links, s)) \ toRemove[s]) \cup toAdd[s]
         /\ changes' \in [Scenes -> SUBSET Bodies]
         /\ AssertionsHold' /\ asserted' \in BOOLEAN
         /\ bodies' = bodies /\ groups' = groups /\ updates' = updates
<1>1. bodies' = bodies /\ groups' = groups /\ updates' = updates
  BY DEF Change
<1>2. \A s \in Scenes : changes[s] \subseteq Bodies
  BY DEF PhysTypeOK
<1>3. changes' = [s \in Scenes |->
                    SymDiff(changes[s], SymDiff(toAdd[s], toRemove[s]))]
  BY DEF Change
<1>4. changes' \in [Scenes -> SUBSET Bodies]
  <2>1. \A s \in Scenes : SymDiff(changes[s], SymDiff(toAdd[s], toRemove[s])) \subseteq Bodies
    BY <1>2 DEF SymDiff
  <2> QED BY <1>3, <2>1
<1>5. \A s \in Scenes : SymDiff(bodies'[s], changes'[s]) =
        (BodiesOf(Subtree(links, s)) \ toRemove[s]) \cup toAdd[s]
  <2> TAKE s \in Scenes
  <2>1. PICK P, A, R, B, C :
          /\ P = BodiesOf(Subtree(links, s)) /\ A = toAdd[s] /\ R = toRemove[s]
          /\ B = bodies[s] /\ C = changes[s]
    OBVIOUS
  <2>2. A \cap P = {} /\ R \subseteq P /\ SymDiff(B, C) = P
    BY <2>1 DEF WorldsRight
  <2>3. SymDiff(B, SymDiff(C, SymDiff(A, R))) = (P \ R) \cup A
    BY <2>2 DEF SymDiff
  <2> QED BY <1>1, <1>3, <2>1, <2>3
<1>6. ASSUME NEW s \in Scenes, NEW b \in toAdd[s] PROVE b \notin bodies[s] \ changes[s]
  <2>1. b \notin SymDiff(bodies[s], changes[s])
    BY <1>6 DEF WorldsRight
  <2> QED BY <2>1 DEF SymDiff
<1>7. ASSUME NEW s \in Scenes, NEW b \in toRemove[s] PROVE b \in bodies[s] \cup changes[s]
  <2>1. b \in SymDiff(bodies[s], changes[s])
    BY <1>7 DEF WorldsRight
  <2> QED BY <2>1 DEF SymDiff
<1>8. AssertionsHold'
  BY <1>6, <1>7 DEF AssertionsHold, Change
<1>9. asserted' \in BOOLEAN
  BY Zenon DEF Change
<1> QED BY <1>1, <1>4, <1>5, <1>8, <1>9

(* What calls keep that only move nodes.                                   *)
LEMMA GraphStep ==
  ASSUME PhysInv, UNCHANGED bodyVars,
         bodies' = bodies, groups' = groups, updates' = updates,
         changes' \in [Scenes -> SUBSET Bodies], AssertionsHold',
         asserted' \in BOOLEAN, TreeInv(links'), WorldsRight'
  PROVE  PhysInv'
<1> USE DEF PhysInv, bodyVars
<1>1. PhysTypeOK'
  <2>1. links' \in Links
    BY DEF TreeInv, GoodLinks
  <2> QED BY <2>1 DEF PhysTypeOK, LinksOK
<1>2. Owners' /\ Placed' /\ StraysHeld' /\ UpdatesPlaced'
  BY DEF Owners, Placed, StraysHeld, UpdatesPlaced
<1>3. GroupsMatch'
  BY DEF GroupsMatch, FiledMask
<1> QED BY <1>1, <1>2, <1>3

(* insert keeps the invariant: the worlds above the new parent, and those  *)
(* above the old one, are told of the bodies of the node's tree, unless    *)
(* they are above both.                                                    *)
LEMMA InsertPhys ==
  ASSUME BodiesAssumption, NodesAssumption, Client = {}, PhysInv,
         NEW p \in Nodes, NEW c \in Nodes, InsertNode(p, c)
  PROVE  PhysInv'
<1> USE DEF PhysInv
<1>1. PICK B : B = BodiesOf(Subtree(links, c))
  OBVIOUS
<1>2. PICK A, R : /\ A = For(Lineage(links, p) \ Ancestors(links, c), B)
                  /\ R = For(Ancestors(links, c) \ Ancestors(links, p), B)
  OBVIOUS
<1>3. /\ Insert(p, c) /\ p \notin Scenes \cap Ancestors(links, c)
      /\ Change(A, R) /\ UNCHANGED bodyVars
  BY <1>1, <1>2 DEF InsertNode
<1>4. c # p /\ c \notin Scenes /\ c \notin Ancestors(links, p)
  BY <1>3 DEF Insert, MayInsert, IsDescendantOf
<1>5. links' = Linked(Dropped(links, c), p, c)
  BY <1>3 DEF Insert
<1>6. /\ TreeInv(links')
      /\ \A z \in Nodes : Lineage(links', z) =
           IF c \in Lineage(links, z)
           THEN (Lineage(links, z) \ Ancestors(links, c)) \cup Lineage(links, p)
           ELSE Lineage(links, z)
  BY <1>4, <1>5, InsertedTree
<1>7. GoodLinks(links)
  BY DEF TreeInv
<1>8. /\ Lineage(links, p) = {p} \cup Ancestors(links, p)
      /\ Lineage(links, c) = {c} \cup Ancestors(links, c)
      /\ c \notin Ancestors(links, c) /\ c \notin Lineage(links, p)
  BY <1>4, <1>7, LineageParts
<1>9. Scenes \subseteq Nodes
  BY NodesAssumption DEF NodesAssumption
<1>10. ASSUME NEW s \in Scenes
       PROVE  /\ A[s] = IF s \in Lineage(links, p) \ Ancestors(links, c) THEN B ELSE {}
              /\ R[s] = IF s \in Ancestors(links, c) \ Lineage(links, p) THEN B ELSE {}
  BY <1>2, <1>3, <1>8 DEF For
<1>11. \A s \in Scenes : Subtree(links, s) \subseteq Nodes
  BY DEF Subtree
<1>12. Subtree(links, c) \subseteq Nodes /\ B \subseteq Bodies
  BY <1>1, BodiesOfParts DEF Subtree
<1>13. ASSUME NEW s \in Scenes, s \in Lineage(links, p) \ Ancestors(links, c)
       PROVE  /\ Subtree(links, c) \cap Subtree(links, s) = {}
              /\ Subtree(links', s) = Subtree(links, s) \cup Subtree(links, c)
  <2>0. s \in Nodes
    BY <1>9
  <2>1. ASSUME NEW z \in Nodes, c \in Lineage(links, z), s \in Lineage(links, z) PROVE FALSE
    <3>1. c \in Lineage(links, s) \/ s \in Lineage(links, c)
      BY <1>7, <2>0, <2>1, SubtreeFacts
    <3>2. Lineage(links, s) \subseteq Lineage(links, p)
      BY <1>7, <1>13, <2>0, SubtreeFacts
    <3> QED BY <1>4, <1>8, <1>13, <3>1, <3>2
  <2> QED BY <1>6, <1>13, <2>1 DEF Subtree
<1>14. ASSUME NEW s \in Scenes, s \in Ancestors(links, c) \ Lineage(links, p)
       PROVE  /\ Subtree(links, c) \subseteq Subtree(links, s)
              /\ Subtree(links', s) = Subtree(links, s) \ Subtree(links, c)
  <2>1. \A z \in Nodes : c \in Lineage(links, z) => Lineage(links, c) \subseteq Lineage(links, z)
    BY <1>7, SubtreeFacts
  <2> QED BY <1>6, <1>8, <1>14, <2>1 DEF Subtree
<1>15. ASSUME NEW s \in Scenes, s \in Ancestors(links, c) <=> s \in Lineage(links, p)
       PROVE  Subtree(links', s) = Subtree(links, s)
  <2>1. \A z \in Nodes : c \in Lineage(links, z) => Lineage(links, c) \subseteq Lineage(links, z)
    BY <1>7, SubtreeFacts
  <2>2. \A z \in Nodes : s \in Lineage(links', z) <=> s \in Lineage(links, z)
    BY <1>6, <1>8, <1>15, <2>1
  <2> QED BY <2>2 DEF Subtree
<1>16. ASSUME NEW s \in Scenes
       PROVE  /\ A[s] \subseteq Bodies /\ R[s] \subseteq Bodies
              /\ A[s] \cap BodiesOf(Subtree(links, s)) = {}
              /\ R[s] \subseteq BodiesOf(Subtree(links, s))
              /\ BodiesOf(Subtree(links', s)) =
                   (BodiesOf(Subtree(links, s)) \ R[s]) \cup A[s]
  <2>1. CASE s \in Lineage(links, p) \ Ancestors(links, c)
    <3>1. A[s] = B /\ R[s] = {}
      BY <1>10, <2>1
    <3>2. B \cap BodiesOf(Subtree(links, s)) = {}
      BY <1>1, <1>11, <1>12, <1>13, <2>1, BodiesOfParts
    <3>3. BodiesOf(Subtree(links, s) \cup Subtree(links, c)) =
            BodiesOf(Subtree(links, s)) \cup B
      BY <1>1, <1>11, <1>12, BodiesOfParts
    <3> QED BY <1>12, <1>13, <2>1, <3>1, <3>2, <3>3
  <2>2. CASE s \in Ancestors(links, c) \ Lineage(links, p)
    <3>1. A[s] = {} /\ R[s] = B
      BY <1>10, <2>2
    <3>2. B \subseteq BodiesOf(Subtree(links, s))
      BY <1>1, <1>11, <1>12, <1>14, <2>2, BodiesOfParts
    <3>3. BodiesOf(Subtree(links, s) \ Subtree(links, c)) =
            BodiesOf(Subtree(links, s)) \ B
      BY <1>1, <1>11, <1>12, BodiesOfParts
    <3> QED BY <1>12, <1>14, <2>2, <3>1, <3>2, <3>3
  <2>3. CASE s \in Ancestors(links, c) <=> s \in Lineage(links, p)
    BY <1>10, <1>15, <2>3
  <2> QED BY <2>1, <2>2, <2>3
<1>17. /\ \A s \in Scenes : SymDiff(bodies'[s], changes'[s]) =
            (BodiesOf(Subtree(links, s)) \ R[s]) \cup A[s]
       /\ changes' \in [Scenes -> SUBSET Bodies]
       /\ AssertionsHold' /\ asserted' \in BOOLEAN
       /\ bodies' = bodies /\ groups' = groups /\ updates' = updates
  BY <1>3, <1>16, ChangeRight
<1>18. WorldsRight'
  <2>1. body' = body
    BY <1>3 DEF bodyVars
  <2> QED BY <1>16, <1>17, <2>1 DEF WorldsRight, BodiesOf
<1> QED BY <1>3, <1>6, <1>17, <1>18, GraphStep

(* When the nodes of D leave the scenes of S, and the worlds of these are  *)
(* told to remove their bodies, the worlds are told what is right.         *)
LEMMA LeaveRight ==
  ASSUME BodiesAssumption, NodesAssumption, PhysInv,
         NEW S, NEW D \in SUBSET Nodes, Change(Nothing, For(S, BodiesOf(D))),
         NEW t, \A s \in Scenes : IF s \in S
           THEN /\ D \subseteq Subtree(links, s)
                /\ Subtree(t, s) = Subtree(links, s) \ D
           ELSE Subtree(t, s) = Subtree(links, s)
  PROVE  /\ \A s \in Scenes : SymDiff(bodies'[s], changes'[s]) = BodiesOf(Subtree(t, s))
         /\ changes' \in [Scenes -> SUBSET Bodies]
         /\ AssertionsHold' /\ asserted' \in BOOLEAN
         /\ bodies' = bodies /\ groups' = groups /\ updates' = updates
<1> USE DEF PhysInv
<1>1. PICK A, R : A = Nothing /\ R = For(S, BodiesOf(D))
  OBVIOUS
<1>2. \A s \in Scenes : A[s] = {} /\ R[s] = IF s \in S THEN BodiesOf(D) ELSE {}
  BY <1>1 DEF Nothing, For
<1>3. BodiesOf(D) \subseteq Bodies
  BY BodiesOfParts
<1>4. \A s \in Scenes : Subtree(links, s) \in SUBSET Nodes
  BY DEF Subtree
<1>5. ASSUME NEW s \in Scenes
      PROVE  /\ R[s] \subseteq BodiesOf(Subtree(links, s))
             /\ BodiesOf(Subtree(t, s)) = (BodiesOf(Subtree(links, s)) \ R[s]) \cup A[s]
  <2>1. CASE s \in S
    <3>1. BodiesOf(D) \subseteq BodiesOf(Subtree(links, s))
      BY <1>4, <2>1, BodiesOfParts
    <3>2. BodiesOf(Subtree(links, s) \ D) = BodiesOf(Subtree(links, s)) \ BodiesOf(D)
      BY <1>4, BodiesOfParts
    <3> QED BY <1>2, <2>1, <3>1, <3>2
  <2>2. CASE s \notin S
    BY <1>2, <2>2
  <2> QED BY <2>1, <2>2
<1>6. \A s \in Scenes : A[s] \subseteq Bodies /\ R[s] \subseteq Bodies
  BY <1>2, <1>3
<1>7. \A s \in Scenes : A[s] \cap BodiesOf(Subtree(links, s)) = {}
  BY <1>2
<1>8. /\ \A s \in Scenes : SymDiff(bodies'[s], changes'[s]) =
           (BodiesOf(Subtree(links, s)) \ R[s]) \cup A[s]
      /\ changes' \in [Scenes -> SUBSET Bodies]
      /\ AssertionsHold' /\ asserted' \in BOOLEAN
      /\ bodies' = bodies /\ groups' = groups /\ updates' = updates
  <2>1. Change(A, R)
    BY <1>1
  <2> QED BY <1>5, <1>6, <1>7, <2>1, ChangeRight
<1> QED BY <1>5, <1>8

(* drop keeps the invariant: the scenes above the node, among which it is  *)
(* not, lose the nodes of its tree.                                        *)
LEMMA DropPhys ==
  ASSUME BodiesAssumption, NodesAssumption, PhysInv, NEW c \in Nodes, DropNode(c)
  PROVE  PhysInv'
<1> USE DEF PhysInv
<1>1. /\ links.parent[c] # None /\ links' = Dropped(links, c)
      /\ Change(Nothing, For(Lineage(links, c), BodiesOf(Subtree(links, c))))
      /\ UNCHANGED bodyVars
  BY DEF DropNode, Drop
<1>2. GoodLinks(links) /\ c \notin Scenes
  BY <1>1 DEF TreeInv
<1>3. /\ TreeInv(links')
      /\ \A z \in Nodes : Lineage(links', z) =
           IF c \in Lineage(links, z) THEN Lineage(links, z) \ Ancestors(links, c)
           ELSE Lineage(links, z)
  BY <1>1, DroppedTree
<1>4. /\ Lineage(links, c) = {c} \cup Ancestors(links, c)
      /\ \A z \in Nodes : c \in Lineage(links, z) => Lineage(links, c) \subseteq Lineage(links, z)
  BY <1>2, LineageParts, SubtreeFacts
<1>5. \A s \in Scenes : IF s \in Lineage(links, c)
        THEN /\ Subtree(links, c) \subseteq Subtree(links, s)
             /\ Subtree(links', s) = Subtree(links, s) \ Subtree(links, c)
        ELSE Subtree(links', s) = Subtree(links, s)
  BY <1>2, <1>3, <1>4 DEF Subtree
<1>6. Subtree(links, c) \in SUBSET Nodes
  BY DEF Subtree
<1>7. /\ \A s \in Scenes : SymDiff(bodies'[s], changes'[s]) = BodiesOf(Subtree(links', s))
      /\ changes' \in [Scenes -> SUBSET Bodies]
      /\ AssertionsHold' /\ asserted' \in BOOLEAN
      /\ bodies' = bodies /\ groups' = groups /\ updates' = updates
  BY <1>1, <1>5, <1>6, LeaveRight
<1>8. WorldsRight'
  BY <1>1, <1>7 DEF WorldsRight, BodiesOf, bodyVars
<1> QED BY <1>1, <1>3, <1>7, <1>8, GraphStep

(* prune of a node that is not a scene keeps the invariant: the scenes     *)
(* above the node lose the nodes below it.                                 *)
LEMMA PrunePhys ==
  ASSUME BodiesAssumption, NodesAssumption, PhysInv, NEW x \in Nodes, PruneNode(x)
  PROVE  PhysInv'
<1> USE DEF PhysInv
<1>1. /\ x \notin Scenes /\ links' = Pruned(links, x)
      /\ Change(Nothing, For(Lineage(links, x), BodiesOf(Subtree(links, x) \ {x})))
      /\ UNCHANGED bodyVars
  BY DEF PruneNode, Prune
<1>2. GoodLinks(links)
  BY DEF TreeInv
<1>3. /\ TreeInv(links')
      /\ \A z \in Nodes : Lineage(links', z) =
           IF x \in Lineage(links, z) /\ z # x THEN Lineage(links, z) \ Lineage(links, x)
           ELSE Lineage(links, z)
  BY <1>1, PrunedTree
<1>4. \A z \in Nodes : x \in Lineage(links, z) => Lineage(links, x) \subseteq Lineage(links, z)
  BY <1>2, SubtreeFacts
<1>5. \A s \in Scenes : IF s \in Lineage(links, x)
        THEN /\ Subtree(links, x) \ {x} \subseteq Subtree(links, s)
             /\ Subtree(links', s) = Subtree(links, s) \ (Subtree(links, x) \ {x})
        ELSE Subtree(links', s) = Subtree(links, s)
  BY <1>3, <1>4 DEF Subtree
<1>6. Subtree(links, x) \ {x} \in SUBSET Nodes
  BY DEF Subtree
<1>7. /\ \A s \in Scenes : SymDiff(bodies'[s], changes'[s]) = BodiesOf(Subtree(links', s))
      /\ changes' \in [Scenes -> SUBSET Bodies]
      /\ AssertionsHold' /\ asserted' \in BOOLEAN
      /\ bodies' = bodies /\ groups' = groups /\ updates' = updates
  BY <1>1, <1>5, <1>6, LeaveRight
<1>8. WorldsRight'
  BY <1>1, <1>7 DEF WorldsRight, BodiesOf, bodyVars
<1> QED BY <1>1, <1>3, <1>7, <1>8, GraphStep

(* A world that has a body that no node has is about to remove it, and a   *)
(* world is never about to add one.                                        *)
LEMMA OrphanLeaves ==
  ASSUME NodesAssumption, BodiesAssumption, PhysInv, NEW b \in Bodies, nodeOf[b] = None,
         NEW s \in Scenes
  PROVE  b \in bodies[s] <=> b \in changes[s]
<1>1. b \notin BodiesOf(Subtree(links, s))
  BY NodesAssumption DEF BodiesOf, Subtree, PhysInv, Owners, NodesAssumption
<1>2. SymDiff(bodies[s], changes[s]) = BodiesOf(Subtree(links, s))
  BY DEF PhysInv, WorldsRight
<1> QED BY <1>1, <1>2 DEF SymDiff

(* A body is in one world at most.                                         *)
LEMMA OneWorld ==
  ASSUME NodesAssumption, PhysInv, NEW b \in Bodies
  PROVE  /\ \A r, s \in Scenes : b \in bodies[r] /\ b \in bodies[s] => r = s
         /\ worldOf[b] \in Scenes \cup {None}
         /\ worldOf[b] = None <=> ~InWorld(b)
<1>1. None \notin Scenes
  BY NodesAssumption DEF NodesAssumption
<1>2. worldOf[b] \in Scenes \cup {None}
  BY DEF PhysInv, PhysTypeOK
<1>3. \A s \in Scenes : worldOf[b] = s <=> b \in bodies[s]
  BY DEF PhysInv, Placed
<1> QED BY <1>1, <1>2, <1>3 DEF InWorld

(* prune of a scene keeps the invariant: the world that it clears had the  *)
(* bodies that it destroys, and no other world has them.                   *)
LEMMA PruneScenePhys ==
  ASSUME BodiesAssumption, NodesAssumption, Client = {}, PhysInv,
         NEW s \in Scenes, PruneScene(s)
  PROVE  PhysInv'
<1> USE DEF PhysInv
<1>1. PICK released : released = {b \in changes[s] : nodeOf[b] = None}
  OBVIOUS
<1>2. /\ body[s] = None /\ links' = Pruned(links, s)
      /\ worldOf' = [b \in Bodies |-> IF b \in bodies[s] THEN None ELSE worldOf[b]]
      /\ bodies' = [bodies EXCEPT ![s] = {}]
      /\ groups' = [groups EXCEPT ![s] = [g \in Categories |-> {}]]
      /\ changes' = [changes EXCEPT ![s] = {}]
      /\ updates' = [updates EXCEPT ![s] = <<>>]
      /\ alive' = alive \ released
      /\ mask' = [b \in Bodies |-> IF b \in released THEN {} ELSE mask[b]]
      /\ UNCHANGED <<body, nodeOf, asserted>>
  BY <1>1 DEF PruneScene, Prune, Without
<1>3. s \in Nodes /\ Scenes \subseteq Nodes /\ None \notin Scenes
  BY NodesAssumption DEF NodesAssumption
<1>4. /\ TreeInv(links')
      /\ \A z \in Nodes : Lineage(links', z) =
           IF s \in Lineage(links, z) /\ z # s THEN Lineage(links, z) \ Lineage(links, s)
           ELSE Lineage(links, z)
  BY <1>2, <1>3, PrunedTree
<1>5. Lineage(links, s) = {s}
  <2>1. GoodLinks(links) /\ links.parent[s] = None
    BY DEF TreeInv
  <2> QED BY <1>3, <2>1, LineageParts
<1>6. Subtree(links', s) = {s}
  BY <1>3, <1>4, <1>5 DEF Subtree
<1>7. \A r \in Scenes : r # s => Subtree(links', r) = Subtree(links, r)
  BY <1>4, <1>5 DEF Subtree
<1>8. \A r \in Scenes : r # s => /\ bodies'[r] = bodies[r] /\ groups'[r] = groups[r]
                                 /\ changes'[r] = changes[r] /\ updates'[r] = updates[r]
  BY <1>2 DEF PhysTypeOK
<1>9. /\ bodies'[s] = {} /\ groups'[s] = [g \in Categories |-> {}]
      /\ changes'[s] = {} /\ updates'[s] = <<>> /\ DOMAIN updates'[s] = {}
  <2>1. DOMAIN <<>> = {}
    OBVIOUS
  <2> QED BY <1>2, <2>1 DEF PhysTypeOK
<1>10. released \subseteq bodies[s] /\ \A b \in released : nodeOf[b] = None
  <2>1. changes[s] \subseteq Bodies
    BY DEF PhysTypeOK
  <2> QED BY <1>1, <2>1, OrphanLeaves
<1>11. \A r \in Scenes : r # s => bodies[r] \cap bodies[s] = {}
  <2>1. \A r \in Scenes : bodies[r] \subseteq Bodies
    BY DEF PhysTypeOK
  <2> QED BY <2>1, OneWorld
<1>12. WorldsRight'
  <2>1. body' = body
    BY <1>2
  <2>2. SymDiff(bodies'[s], changes'[s]) = BodiesOf(Subtree(links', s))
    BY <1>2, <1>6, <1>9 DEF SymDiff, BodiesOf
  <2>3. \A r \in Scenes : r # s =>
          SymDiff(bodies'[r], changes'[r]) = BodiesOf(Subtree(links', r))
    BY <1>7, <1>8 DEF WorldsRight
  <2> QED BY <2>1, <2>2, <2>3 DEF WorldsRight, BodiesOf
<1>13. Owners'
  BY <1>2, <1>3, <1>10, NodesAssumption DEF Owners, NodesAssumption
<1>14. Placed'
  <2>1. \A r \in Scenes : bodies'[r] \subseteq alive'
    BY <1>2, <1>8, <1>9, <1>10, <1>11 DEF Placed
  <2>2. \A b \in Bodies : worldOf'[b] = IF b \in bodies[s] THEN None ELSE worldOf[b]
    BY <1>2
  <2>3. \A b \in Bodies, r \in Scenes : worldOf'[b] = r <=> b \in bodies'[r]
    <3> TAKE b \in Bodies, r \in Scenes
    <3>1. CASE r = s
      BY <1>3, <1>9, <2>2, <3>1 DEF Placed
    <3>2. CASE r # s
      BY <1>3, <1>8, <1>11, <2>2, <3>2 DEF Placed
    <3> QED BY <3>1, <3>2
  <2> QED BY <2>1, <2>3 DEF Placed
<1>15. StraysHeld'
  <2> SUFFICES ASSUME NEW b \in alive', nodeOf'[b] = None PROVE worldOf'[b] # None
    BY DEF StraysHeld
  <2>1. b \in alive /\ b \in Bodies /\ b \notin released /\ nodeOf[b] = None
    BY <1>2 DEF PhysTypeOK
  <2>2. b \notin changes[s]
    BY <1>1, <2>1
  <2>3. b \notin bodies[s]
    BY <2>1, <2>2, OrphanLeaves
  <2> QED BY <1>2, <2>1, <2>3 DEF StraysHeld
<1>16. UpdatesPlaced'
  BY <1>8, <1>9 DEF UpdatesPlaced
<1>17. GroupsMatch'
  <2>1. \A g \in Categories : groups'[s][g] = {b \in bodies'[s] : g \in FiledMask(s, b)'}
    BY <1>9
  <2>2. ASSUME NEW r \in Scenes, r # s, NEW g \in Categories
        PROVE  groups'[r][g] = {b \in bodies'[r] : g \in FiledMask(r, b)'}
    <3>1. \A b \in bodies[r] : b \in Bodies /\ b \notin released
      BY <1>10, <1>11, <2>2 DEF PhysTypeOK
    <3>2. \A b \in bodies[r] : mask'[b] = mask[b]
      BY <1>2, <3>1
    <3>3. \A b \in bodies[r] : FiledMask(r, b)' = FiledMask(r, b)
      BY <1>8, <2>2, <3>2 DEF FiledMask
    <3> QED BY <1>8, <2>2, <3>3 DEF GroupsMatch
  <2> QED BY <2>1, <2>2 DEF GroupsMatch
<1>18. PhysTypeOK'
  <2>1. links' \in Links
    BY <1>4 DEF TreeInv, GoodLinks
  <2>2. alive' \subseteq Bodies /\ mask' \in [Bodies -> Masks]
    BY <1>2 DEF PhysTypeOK, Masks
  <2>3. worldOf' \in [Bodies -> Scenes \cup {None}]
    BY <1>2 DEF PhysTypeOK
  <2>4. bodies' \in [Scenes -> SUBSET Bodies] /\ changes' \in [Scenes -> SUBSET Bodies]
    BY <1>2 DEF PhysTypeOK
  <2>5. groups' \in [Scenes -> [Categories -> SUBSET Bodies]]
    BY <1>2 DEF PhysTypeOK
  <2>6. DOMAIN updates' = Scenes
    BY <1>2 DEF PhysTypeOK
  <2>7. \A r \in Scenes : DOMAIN updates'[r] \subseteq Bodies
                          /\ \A b \in DOMAIN updates'[r] : updates'[r][b] \in Masks
    BY <1>8, <1>9 DEF PhysTypeOK
  <2> QED BY <1>2, <2>1, <2>2, <2>3, <2>4, <2>5, <2>6, <2>7 DEF PhysTypeOK, LinksOK
<1>19. AssertionsHold'
  BY <1>2 DEF AssertionsHold
<1> QED BY <1>4, <1>12, <1>13, <1>14, <1>15, <1>16, <1>17, <1>18, <1>19

(* The worlds stay right when the bodies that are in one stay the same.    *)
LEMMA WorldsKept ==
  ASSUME NodesAssumption, PhysInv,
         bodies' = bodies, groups' = groups, updates' = updates,
         \A b \in Bodies : InWorld(b) =>
           mask'[b] = mask[b] /\ worldOf'[b] = worldOf[b] /\ b \in alive',
         \A b \in Bodies : ~InWorld(b) => worldOf'[b] = None
  PROVE  Placed' /\ UpdatesPlaced' /\ GroupsMatch'
<1> USE DEF PhysInv
<1>1. None \notin Scenes
  BY NodesAssumption DEF NodesAssumption
<1>2. \A s \in Scenes : \A b \in bodies[s] : b \in Bodies /\ InWorld(b)
  BY DEF PhysTypeOK, InWorld
<1>3. Placed'
  <2>1. \A s \in Scenes : bodies'[s] \subseteq alive'
    BY <1>2
  <2>2. ASSUME NEW b \in Bodies, NEW s \in Scenes
        PROVE  worldOf'[b] = s <=> b \in bodies'[s]
    <3>1. CASE InWorld(b)
      BY <3>1 DEF Placed
    <3>2. CASE ~InWorld(b)
      BY <1>1, <1>2, <3>2
    <3> QED BY <3>1, <3>2
  <2> QED BY <2>1, <2>2 DEF Placed
<1>4. UpdatesPlaced'
  BY DEF UpdatesPlaced
<1>5. GroupsMatch'
  <2>1. \A s \in Scenes : \A b \in bodies[s] : FiledMask(s, b)' = FiledMask(s, b)
    BY <1>2 DEF FiledMask
  <2> QED BY <2>1 DEF GroupsMatch
<1> QED BY <1>3, <1>4, <1>5

(* A node and its body know each other still when the node x gets the new  *)
(* body b, or none, and its old body is destroyed unless a world has it.   *)
LEMMA OwnersKept ==
  ASSUME NodesAssumption, BodiesAssumption, PhysInv, NEW x \in Nodes,
         NEW b \in Bodies \cup {None}, b \notin alive, NEW gone, gone \subseteq {body[x]},
         body' = [body EXCEPT ![x] = b],
         \A c \in Bodies : nodeOf'[c] = IF c = b THEN x
                                        ELSE IF c = body[x] THEN None ELSE nodeOf[c],
         alive' = (alive \ gone) \cup ({b} \ {None}),
         \A c \in Bodies : c \notin gone => worldOf'[c] = worldOf[c],
         body[x] # None /\ body[x] \notin gone => worldOf[body[x]] # None
  PROVE  Owners' /\ StraysHeld'
<1> USE DEF PhysInv
<1>1. x # None /\ None \notin Bodies
  BY NodesAssumption, BodiesAssumption DEF NodesAssumption, BodiesAssumption
<1>2. body \in [Nodes -> Bodies \cup {None}] /\ alive \subseteq Bodies
  BY DEF PhysTypeOK
<1>3. \A y \in Nodes : body'[y] = IF y = x THEN b ELSE body[y]
  BY <1>2
<1>4. ASSUME NEW y \in Nodes, body'[y] # None
      PROVE  body'[y] \in alive' /\ nodeOf'[body'[y]] = y
  <2>1. CASE y = x
    BY <1>3, <1>4, <2>1
  <2>2. CASE y # x
    <3>1. PICK c : c = body[y]
      OBVIOUS
    <3>2. c \in alive /\ c \in Bodies /\ nodeOf[c] = y /\ body'[y] = c
      BY <1>2, <1>3, <1>4, <2>2, <3>1 DEF Owners
    <3>3. c # body[x]
      BY <1>1, <1>2, <2>2, <3>1, <3>2 DEF Owners
    <3>4. c # b
      BY <3>2
    <3> QED BY <3>2, <3>3, <3>4
  <2> QED BY <2>1, <2>2
<1>5. ASSUME NEW c \in Bodies, nodeOf'[c] # None PROVE body'[nodeOf'[c]] = c
  <2>1. CASE c = b
    BY <1>3, <2>1
  <2>2. CASE c # b
    <3>1. nodeOf'[c] = nodeOf[c] /\ c # body[x]
      BY <1>5, <2>2
    <3>2. body[nodeOf[c]] = c
      BY <1>5, <3>1 DEF Owners
    <3>3. nodeOf[c] \in Nodes
      BY <1>5, <3>1 DEF PhysTypeOK, Pointers
    <3> QED BY <1>3, <3>1, <3>2, <3>3
  <2> QED BY <2>1, <2>2
<1>6. ASSUME NEW c \in alive', nodeOf'[c] = None PROVE worldOf'[c] # None
  <2>1. c # b
    BY <1>1, <1>2, <1>6
  <2>2. c \in alive /\ c \notin gone /\ c \in Bodies /\ worldOf'[c] = worldOf[c]
    BY <1>2, <2>1
  <2>3. CASE c = body[x]
    BY <1>1, <2>2, <2>3
  <2>4. CASE c # body[x]
    BY <1>6, <2>1, <2>2, <2>4 DEF StraysHeld
  <2> QED BY <2>3, <2>4
<1> QED BY <1>4, <1>5, <1>6 DEF Owners, StraysHeld

(* setBody keeps the invariant: the worlds above the node are told of the  *)
(* old body and of the new one, and one of them has the old one if it is   *)
(* not destroyed.                                                          *)
LEMMA SetBodyPhys ==
  ASSUME BodiesAssumption, NodesAssumption, Client = {}, PhysInv, NEW x \in Nodes,
         NEW b \in Bodies \cup {None}, b \notin alive, NEW m \in Masks, SetBody(x, b, m)
  PROVE  PhysInv'
<1> USE DEF PhysInv
<1>1. PICK old, leaves :
        old = body[x] /\ leaves = IF old # None /\ worldOf[old] = None THEN {old} ELSE {}
  OBVIOUS
<1>2. PICK A, R : A = For(Lineage(links, x), {b} \ {None})
                  /\ R = For(Lineage(links, x), {old} \ {None})
  OBVIOUS
<1>3. /\ x \notin Scenes
      /\ Change(A, R)
      /\ body' = [body EXCEPT ![x] = b]
      /\ nodeOf' = [c \in Bodies |-> IF c = b THEN x ELSE IF c = old THEN None ELSE nodeOf[c]]
      /\ alive' = (alive \ leaves) \cup ({b} \ {None})
      /\ mask' = [c \in Bodies |-> IF c = b THEN m ELSE IF c \in leaves THEN {} ELSE mask[c]]
      /\ UNCHANGED <<links, worldOf>>
  BY <1>1, <1>2 DEF SetBody
<1>4. None \notin Bodies /\ None \notin Scenes
  BY NodesAssumption, BodiesAssumption DEF NodesAssumption, BodiesAssumption
<1>5. body \in [Nodes -> Bodies \cup {None}] /\ alive \subseteq Bodies /\ old \in Bodies \cup {None}
  BY <1>1 DEF PhysTypeOK
<1>6. \A y \in Nodes : body'[y] = IF y = x THEN b ELSE body[y]
  BY <1>3, <1>5
<1>7. \A s \in Scenes : /\ A[s] = IF s \in Lineage(links, x) THEN {b} \ {None} ELSE {}
                        /\ R[s] = IF s \in Lineage(links, x) THEN {old} \ {None} ELSE {}
  BY <1>2 DEF For
<1>8. ASSUME NEW s \in Scenes
      PROVE  /\ A[s] \subseteq Bodies /\ R[s] \subseteq Bodies
             /\ A[s] \cap BodiesOf(Subtree(links, s)) = {}
             /\ R[s] \subseteq BodiesOf(Subtree(links, s))
             /\ BodiesOf(Subtree(links, s))' = (BodiesOf(Subtree(links, s)) \ R[s]) \cup A[s]
  <2>1. PICK S : S = Subtree(links, s)
    OBVIOUS
  <2>2. S \subseteq Nodes /\ (x \in S <=> s \in Lineage(links, x))
    BY <2>1 DEF Subtree
  <2>3. BodiesOf(S) \subseteq alive
    BY <2>2 DEF BodiesOf, Owners
  <2>4. BodiesOf(Subtree(links, s))' = {body'[y] : y \in S} \ {None}
    BY <1>3, <2>1 DEF BodiesOf
  <2>5. CASE x \in S
    <3>1. A[s] = {b} \ {None} /\ R[s] = {old} \ {None}
      BY <1>7, <2>2, <2>5
    <3>2. old # None => old \in BodiesOf(S)
      BY <1>1, <2>5 DEF BodiesOf
    <3>3. \A y \in S : y # x /\ body[y] # None => body[y] # old
      BY <1>1, <2>2 DEF Owners
    <3>4. {body'[y] : y \in S} \ {None} = (BodiesOf(S) \ R[s]) \cup A[s]
      <4>1. {body'[y] : y \in S} \ {None} \subseteq (BodiesOf(S) \ R[s]) \cup A[s]
        BY <1>6, <2>2, <3>1, <3>3 DEF BodiesOf
      <4>2. A[s] \subseteq {body'[y] : y \in S} \ {None}
        BY <1>6, <2>2, <2>5, <3>1
      <4>3. BodiesOf(S) \ R[s] \subseteq {body'[y] : y \in S} \ {None}
        BY <1>1, <1>6, <2>2, <3>1 DEF BodiesOf
      <4> QED BY <4>1, <4>2, <4>3
    <3> QED BY <1>5, <2>1, <2>3, <2>4, <3>1, <3>2, <3>4
  <2>6. CASE x \notin S
    <3>1. A[s] = {} /\ R[s] = {}
      BY <1>7, <2>2, <2>6
    <3>2. {body'[y] : y \in S} \ {None} = BodiesOf(S)
      BY <1>6, <2>2, <2>6 DEF BodiesOf
    <3> QED BY <2>1, <2>4, <3>1, <3>2
  <2> QED BY <2>5, <2>6
<1>9. /\ \A s \in Scenes : SymDiff(bodies'[s], changes'[s]) =
           (BodiesOf(Subtree(links, s)) \ R[s]) \cup A[s]
      /\ changes' \in [Scenes -> SUBSET Bodies]
      /\ AssertionsHold' /\ asserted' \in BOOLEAN
      /\ bodies' = bodies /\ groups' = groups /\ updates' = updates
  BY <1>3, <1>8, ChangeRight
<1>10. WorldsRight'
  BY <1>8, <1>9 DEF WorldsRight
<1>11. Owners' /\ StraysHeld'
  <2>1. leaves \subseteq {body[x]}
    BY <1>1
  <2>2. \A c \in Bodies : nodeOf'[c] = IF c = b THEN x
                                       ELSE IF c = body[x] THEN None ELSE nodeOf[c]
    BY <1>1, <1>3
  <2>3. body[x] # None /\ body[x] \notin leaves => worldOf[body[x]] # None
    BY <1>1
  <2>4. \A c \in Bodies : c \notin leaves => worldOf'[c] = worldOf[c]
    BY <1>3
  <2> QED BY <1>3, <2>1, <2>2, <2>3, <2>4, OwnersKept
<1>12. Placed' /\ UpdatesPlaced' /\ GroupsMatch'
  <2>1. ASSUME NEW c \in Bodies, InWorld(c)
        PROVE  mask'[c] = mask[c] /\ worldOf'[c] = worldOf[c] /\ c \in alive'
    <3>1. c \in alive
      BY <2>1 DEF InWorld, Placed
    <3>2. worldOf[c] # None
      BY <2>1, OneWorld
    <3>3. c # b /\ c \notin leaves
      BY <1>1, <3>1, <3>2
    <3> QED BY <1>3, <3>1, <3>3
  <2>2. \A c \in Bodies : ~InWorld(c) => worldOf'[c] = None
    BY <1>3, OneWorld
  <2> QED BY <1>9, <2>1, <2>2, WorldsKept
<1>13. TreeInv(links')
  BY <1>3
<1>14. PhysTypeOK'
  <2>1. links' \in Links
    BY <1>13 DEF TreeInv, GoodLinks
  <2>2. alive' \subseteq Bodies /\ mask' \in [Bodies -> Masks]
    BY <1>3, <1>5 DEF PhysTypeOK, Masks
  <2>3. body' \in [Nodes -> Bodies \cup {None}]
    BY <1>3, <1>5
  <2>4. nodeOf' \in [Bodies -> Pointers]
    BY <1>3 DEF PhysTypeOK, Pointers
  <2> QED BY <1>3, <1>9, <2>1, <2>2, <2>3, <2>4 DEF PhysTypeOK, LinksOK
<1> QED BY <1>9, <1>10, <1>11, <1>12, <1>13, <1>14

(* setCategoryMask keeps the invariant: a world still files every body     *)
(* under the mask that it filed it under.                                  *)
LEMMA SetCategoryMaskPhys ==
  ASSUME BodiesAssumption, NodesAssumption, PhysInv, NEW b \in Bodies, NEW m \in Masks,
         SetCategoryMask(b, m)
  PROVE  PhysInv'
<1> USE DEF PhysInv
<1>1. PICK s : s = worldOf[b]
  OBVIOUS
<1>2. PICK pending : pending = IF FiledMask(s, b) = m THEN DOMAIN updates[s] \ {b}
                               ELSE DOMAIN updates[s] \cup {b}
  OBVIOUS
<1>3. /\ b \in alive
      /\ mask' = [mask EXCEPT ![b] = m]
      /\ IF s = None THEN UNCHANGED <<updates, asserted>>
         ELSE /\ updates' = [updates EXCEPT ![s] = [c \in pending |-> FiledMask(s, c)]]
              /\ asserted' = (asserted \/ b \notin bodies[s])
      /\ UNCHANGED <<links, body, nodeOf, worldOf, alive, bodies, groups, changes>>
  BY <1>1, <1>2 DEF SetCategoryMask
<1>4. None \notin Scenes
  BY NodesAssumption DEF NodesAssumption
<1>5. \A c \in Bodies : mask'[c] = IF c = b THEN m ELSE mask[c]
  BY <1>3 DEF PhysTypeOK
<1>6. mask' \in [Bodies -> Masks]
  BY <1>3 DEF PhysTypeOK
<1>7. \A r \in Scenes : bodies[r] \subseteq Bodies /\ (b \in bodies[r] <=> r = s)
  BY <1>1 DEF Placed, PhysTypeOK
<1>8. \A r \in Scenes : r # s => updates'[r] = updates[r]
  BY <1>3 DEF PhysTypeOK
<1>9. \A r \in Scenes : r # s => \A c \in bodies[r] : FiledMask(r, c)' = FiledMask(r, c)
  BY <1>5, <1>7, <1>8 DEF FiledMask
<1>10. ASSUME s \in Scenes
       PROVE  /\ updates'[s] = [c \in pending |-> FiledMask(s, c)]
              /\ pending \subseteq bodies[s]
              /\ \A c \in bodies[s] : FiledMask(s, c)' = FiledMask(s, c)
              /\ asserted' = FALSE
  <2>1. updates'[s] = [c \in pending |-> FiledMask(s, c)]
    BY <1>3, <1>4, <1>10 DEF PhysTypeOK
  <2>2. b \in bodies[s]
    BY <1>7, <1>10
  <2>3. pending \subseteq bodies[s]
    BY <1>2, <1>10, <2>2 DEF UpdatesPlaced
  <2>4. ASSUME NEW c \in bodies[s] PROVE FiledMask(s, c)' = FiledMask(s, c)
    <3>1. CASE c \in pending
      BY <2>1, <3>1 DEF FiledMask
    <3>2. CASE c \notin pending
      <4>1. FiledMask(s, c)' = mask'[c]
        BY <2>1, <3>2 DEF FiledMask
      <4>2. CASE c = b
        BY <1>2, <1>5, <3>2, <4>1, <4>2
      <4>3. CASE c # b
        <5>1. c \notin DOMAIN updates[s]
          BY <1>2, <3>2, <4>3
        <5>2. FiledMask(s, c) = mask[c]
          BY <5>1 DEF FiledMask
        <5> QED BY <1>5, <1>7, <1>10, <4>1, <4>3, <5>2
      <4> QED BY <4>2, <4>3
    <3> QED BY <3>1, <3>2
  <2>5. asserted' = FALSE
    <3>1. asserted = FALSE
      BY DEF AssertionsHold, PhysTypeOK
    <3> QED BY <1>3, <1>4, <1>10, <2>2, <3>1
  <2> QED BY <2>1, <2>3, <2>4, <2>5
<1>11. s \in Scenes \cup {None}
  BY <1>1 DEF PhysTypeOK
<1>12. GroupsMatch'
  <2>1. \A r \in Scenes : \A c \in bodies[r] : FiledMask(r, c)' = FiledMask(r, c)
    BY <1>9, <1>10
  <2>2. \A r \in Scenes, g \in Categories :
          {c \in bodies[r] : g \in FiledMask(r, c)'} = {c \in bodies[r] : g \in FiledMask(r, c)}
    BY <2>1
  <2>3. bodies' = bodies /\ groups' = groups
    BY <1>3
  <2> QED BY <2>2, <2>3 DEF GroupsMatch
<1>13. UpdatesPlaced'
  <2> SUFFICES ASSUME NEW r \in Scenes PROVE DOMAIN updates'[r] \subseteq bodies[r]
    BY <1>3 DEF UpdatesPlaced
  <2>1. CASE r = s
    BY <1>10, <2>1
  <2>2. CASE r # s
    BY <1>8, <2>2 DEF UpdatesPlaced
  <2> QED BY <2>1, <2>2
<1>14. asserted' = FALSE
  BY <1>3, <1>10, <1>11 DEF AssertionsHold, PhysTypeOK
<1>15. ASSUME NEW r \in Scenes
       PROVE  /\ DOMAIN updates'[r] \subseteq Bodies
              /\ \A c \in DOMAIN updates'[r] : updates'[r][c] \in Masks
  <2>1. CASE r = s
    <3>1. \A c \in Bodies : FiledMask(s, c) \in Masks
      BY <1>15, <2>1 DEF FiledMask, PhysTypeOK
    <3> QED BY <1>7, <1>10, <1>15, <2>1, <3>1
  <2>2. CASE r # s
    BY <1>8, <2>2 DEF PhysTypeOK
  <2> QED BY <2>1, <2>2
<1>16. DOMAIN updates' = Scenes
  BY <1>3 DEF PhysTypeOK
<1>17. PhysTypeOK'
  BY <1>3, <1>6, <1>14, <1>15, <1>16 DEF PhysTypeOK, LinksOK
<1>18. WorldsRight' /\ Owners' /\ Placed' /\ StraysHeld' /\ TreeInv(links')
  <2>1. WorldsRight'
    BY <1>3 DEF WorldsRight, BodiesOf
  <2>2. Owners' /\ Placed' /\ StraysHeld'
    BY <1>3 DEF Owners, Placed, StraysHeld
  <2> QED BY <1>3, <2>1, <2>2
<1> QED BY <1>12, <1>13, <1>14, <1>17, <1>18 DEF AssertionsHold

(* The evaluation of a world keeps the invariant: what enters no other     *)
(* world has, and what no node has leaves and is destroyed.                *)
LEMMA EvaluatePhys ==
  ASSUME BodiesAssumption, NodesAssumption, Client = {}, PhysInv,
         NEW s \in Scenes, Evaluate(s)
  PROVE  PhysInv'
<1> USE DEF PhysInv
<1>1. PICK leave, enter, stay :
        /\ leave = changes[s] \cap bodies[s] /\ enter = changes[s] \ bodies[s]
        /\ stay = DOMAIN updates[s] \ changes[s]
  OBVIOUS
<1>2. PICK released : released = {b \in leave : nodeOf[b] = None}
  OBVIOUS
<1>3. PICK groupsOf :
        groupsOf = [g \in Categories |->
          (groups[s][g] \ ({b \in leave : g \in FiledMask(s, b)}
                             \cup {b \in stay : g \in updates[s][b] \ mask[b]}))
            \cup ({b \in enter : g \in mask[b]}
                    \cup {b \in stay : g \in mask[b] \ updates[s][b]})]
  OBVIOUS
<1>4. /\ \A b \in enter : ~InWorld(b)
      /\ bodies' = [bodies EXCEPT ![s] = SymDiff(@, changes[s])]
      /\ groups' = [groups EXCEPT ![s] = groupsOf]
      /\ worldOf' = [b \in Bodies |-> IF b \in leave THEN None
                                      ELSE IF b \in enter THEN s ELSE worldOf[b]]
      /\ changes' = [changes EXCEPT ![s] = {}]
      /\ updates' = [updates EXCEPT ![s] = <<>>]
      /\ alive' = alive \ released
      /\ mask' = [b \in Bodies |-> IF b \in released THEN {} ELSE mask[b]]
      /\ UNCHANGED <<links, body, nodeOf, asserted>>
  BY <1>1, <1>2, <1>3 DEF Evaluate, Without
<1>5. s \in Nodes /\ Scenes \subseteq Nodes /\ None \notin Scenes
  BY NodesAssumption DEF NodesAssumption
<1>6. \A r \in Scenes : r # s => /\ bodies'[r] = bodies[r] /\ groups'[r] = groups[r]
                                 /\ changes'[r] = changes[r] /\ updates'[r] = updates[r]
  BY <1>4 DEF PhysTypeOK
<1>7. /\ bodies'[s] = SymDiff(bodies[s], changes[s]) /\ groups'[s] = groupsOf
      /\ changes'[s] = {} /\ DOMAIN updates'[s] = {}
  <2>1. DOMAIN <<>> = {}
    OBVIOUS
  <2> QED BY <1>4, <2>1 DEF PhysTypeOK
<1>8. bodies'[s] = (bodies[s] \ leave) \cup enter
  BY <1>1, <1>7 DEF SymDiff
<1>9. /\ bodies[s] \subseteq Bodies /\ changes[s] \subseteq Bodies
      /\ leave \subseteq Bodies /\ enter \subseteq Bodies /\ stay \subseteq bodies[s]
      /\ released \subseteq leave
  BY <1>1, <1>2 DEF PhysTypeOK, UpdatesPlaced
<1>10. \A b \in bodies'[s] : b \in alive /\ nodeOf[b] # None
  BY <1>5, <1>7, NodesAssumption DEF WorldsRight, BodiesOf, Subtree, Owners, NodesAssumption
<1>11. bodies'[s] \cap released = {}
  BY <1>2, <1>10
<1>12. \A r \in Scenes : r # s => bodies[r] \cap bodies[s] = {} /\ bodies[r] \cap enter = {}
  <2>1. \A r \in Scenes : bodies[r] \subseteq Bodies
    BY DEF PhysTypeOK
  <2> QED BY <1>4, <2>1, OneWorld DEF InWorld
<1>13. WorldsRight'
  <2>1. SymDiff(bodies'[s], changes'[s]) = bodies'[s]
    BY <1>7 DEF SymDiff
  <2>2. \A r \in Scenes : SymDiff(bodies'[r], changes'[r]) = SymDiff(bodies[r], changes[r])
    BY <1>6, <1>7, <2>1
  <2>3. \A r \in Scenes : SymDiff(bodies'[r], changes'[r]) = BodiesOf(Subtree(links, r))
    BY <2>2 DEF WorldsRight
  <2>4. links' = links /\ body' = body
    BY <1>4
  <2> QED BY <2>3, <2>4 DEF WorldsRight, BodiesOf
<1>14. Owners'
  BY <1>2, <1>4, <1>5, NodesAssumption DEF Owners, NodesAssumption
<1>15. Placed'
  <2>1. \A r \in Scenes : bodies'[r] \subseteq alive'
    BY <1>1, <1>4, <1>6, <1>9, <1>10, <1>11, <1>12 DEF Placed
  <2>2. \A b \in Bodies : worldOf'[b] = IF b \in leave THEN None
                                        ELSE IF b \in enter THEN s ELSE worldOf[b]
    BY <1>4
  <2>3. \A b \in Bodies, r \in Scenes : worldOf'[b] = r <=> b \in bodies'[r]
    <3> TAKE b \in Bodies, r \in Scenes
    <3>1. CASE r = s
      BY <1>1, <1>5, <1>8, <2>2, <3>1 DEF Placed
    <3>2. CASE r # s
      BY <1>1, <1>5, <1>6, <1>12, <2>2, <3>2 DEF Placed
    <3> QED BY <3>1, <3>2
  <2> QED BY <2>1, <2>3 DEF Placed
<1>16. StraysHeld'
  <2> SUFFICES ASSUME NEW b \in alive', nodeOf'[b] = None PROVE worldOf'[b] # None
    BY DEF StraysHeld
  <2>1. b \in alive /\ b \in Bodies /\ b \notin released /\ nodeOf[b] = None
    BY <1>4 DEF PhysTypeOK
  <2>2. b \notin leave
    BY <1>2, <2>1
  <2>3. b \notin enter
    BY <1>1, <2>1, OrphanLeaves
  <2> QED BY <1>4, <2>1, <2>2, <2>3 DEF StraysHeld
<1>17. UpdatesPlaced'
  BY <1>6, <1>7 DEF UpdatesPlaced
<1>18. GroupsMatch'
  <2>1. ASSUME NEW r \in Scenes, r # s, NEW g \in Categories
        PROVE  groups'[r][g] = {b \in bodies'[r] : g \in FiledMask(r, b)'}
    <3>1. \A b \in bodies[r] : b \in Bodies /\ b \notin released
      BY <1>1, <1>9, <1>12, <2>1 DEF PhysTypeOK
    <3>2. \A b \in bodies[r] : mask'[b] = mask[b]
      BY <1>4, <3>1
    <3>3. \A b \in bodies[r] : FiledMask(r, b)' = FiledMask(r, b)
      BY <1>6, <2>1, <3>2 DEF FiledMask
    <3> QED BY <1>6, <2>1, <3>3 DEF GroupsMatch
  <2>2. ASSUME NEW g \in Categories
        PROVE  groups'[s][g] = {b \in bodies'[s] : g \in FiledMask(s, b)'}
    <3>1. \A b \in bodies'[s] : FiledMask(s, b)' = mask[b]
      <4>1. \A b \in bodies'[s] : b \in Bodies /\ b \notin released
        BY <1>8, <1>9, <1>11
      <4> QED BY <1>4, <1>7, <4>1 DEF FiledMask
    <3>2. PICK G, B, C, U, u :
            /\ G = groups[s][g] /\ B = bodies[s] /\ C = changes[s]
            /\ U = DOMAIN updates[s] /\ u = updates[s]
      OBVIOUS
    <3>3. groups'[s][g] =
            (G \ ({b \in leave : g \in FiledMask(s, b)} \cup {b \in stay : g \in u[b] \ mask[b]}))
              \cup ({b \in enter : g \in mask[b]} \cup {b \in stay : g \in mask[b] \ u[b]})
      BY <1>3, <1>7, <3>2
    <3>4. G = {b \in B : g \in FiledMask(s, b)}
      BY <3>2 DEF GroupsMatch
    <3>5. leave = C \cap B /\ enter = C \ B /\ stay = U \ C /\ stay \subseteq B
      BY <1>1, <1>9, <3>2
    <3>6. \A b \in stay : FiledMask(s, b) = u[b]
      BY <3>2, <3>5 DEF FiledMask
    <3>7. \A b \in B \ C : b \notin stay => FiledMask(s, b) = mask[b]
      BY <3>2, <3>5 DEF FiledMask
    <3>8. groups'[s][g] = {b \in (B \ leave) \cup enter : g \in mask[b]}
      <4>1. PICK H : H = groups'[s][g]
        OBVIOUS
      <4>2. ASSUME NEW b PROVE b \in H <=> b \in (B \ leave) \cup enter /\ g \in mask[b]
        <5>1. CASE b \in leave
          BY <3>3, <3>4, <3>5, <4>1, <5>1
        <5>2. CASE b \in enter
          BY <3>3, <3>4, <3>5, <4>1, <5>2
        <5>3. CASE b \in stay
          BY <3>3, <3>4, <3>5, <3>6, <4>1, <5>3
        <5>4. CASE b \notin leave \cup enter \cup stay
          BY <3>3, <3>4, <3>5, <3>7, <4>1, <5>4
        <5> QED BY <5>1, <5>2, <5>3, <5>4
      <4> QED BY <4>1, <4>2
    <3> QED BY <1>8, <3>1, <3>2, <3>8
  <2> QED BY <2>1, <2>2 DEF GroupsMatch
<1>19. PhysTypeOK'
  <2>1. alive' \subseteq Bodies /\ mask' \in [Bodies -> Masks]
    BY <1>4 DEF PhysTypeOK, Masks
  <2>2. worldOf' \in [Bodies -> Scenes \cup {None}]
    BY <1>4 DEF PhysTypeOK
  <2>3. bodies' \in [Scenes -> SUBSET Bodies] /\ changes' \in [Scenes -> SUBSET Bodies]
    <3>1. SymDiff(bodies[s], changes[s]) \subseteq Bodies
      BY <1>9 DEF SymDiff
    <3> QED BY <1>4, <3>1 DEF PhysTypeOK
  <2>4. groups' \in [Scenes -> [Categories -> SUBSET Bodies]]
    <3>1. groupsOf \in [Categories -> SUBSET Bodies]
      BY <1>3, <1>9 DEF PhysTypeOK
    <3> QED BY <1>4, <3>1 DEF PhysTypeOK
  <2>5. DOMAIN updates' = Scenes
    BY <1>4 DEF PhysTypeOK
  <2>6. \A r \in Scenes : DOMAIN updates'[r] \subseteq Bodies
                          /\ \A b \in DOMAIN updates'[r] : updates'[r][b] \in Masks
    BY <1>6, <1>7 DEF PhysTypeOK
  <2> QED BY <1>4, <2>1, <2>2, <2>3, <2>4, <2>5, <2>6 DEF PhysTypeOK, LinksOK
<1>20. AssertionsHold' /\ TreeInv(links')
  BY <1>4 DEF AssertionsHold
<1> QED BY <1>13, <1>14, <1>15, <1>16, <1>17, <1>18, <1>19, <1>20

(* The trees of the scenes lose the tree of a node that is cleared of all  *)
(* links, and nothing else.                                                *)
LEMMA ClearedScenes ==
  ASSUME NodesAssumption, TreeInv(links), NEW x \in Nodes, x \notin Scenes,
         NEW t, t = Cleared(links, x)
  PROVE  \A s \in Scenes : IF s \in Lineage(links, x)
           THEN /\ Subtree(links, x) \subseteq Subtree(links, s)
                /\ Subtree(t, s) = Subtree(links, s) \ Subtree(links, x)
           ELSE Subtree(t, s) = Subtree(links, s)
<1>1. \A z \in Nodes : Lineage(t, z) =
        IF z = x THEN {x}
        ELSE IF x \in Lineage(links, z) THEN Lineage(links, z) \ Lineage(links, x)
        ELSE Lineage(links, z)
  BY ClearedTree
<1>2. GoodLinks(links)
  BY DEF TreeInv
<1>3. /\ \A z \in Nodes : x \in Lineage(links, z) => Lineage(links, x) \subseteq Lineage(links, z)
      /\ x \in Lineage(links, x)
  BY <1>2, SubtreeFacts, LineageParts
<1> QED BY <1>1, <1>3 DEF Subtree

(* ~Node keeps the invariant: no world has the body that it destroys, and  *)
(* the worlds above the node are told of all bodies that leave them.       *)
LEMMA DestroyPhys ==
  ASSUME BodiesAssumption, NodesAssumption, Client = {}, PhysInv,
         NEW x \in Nodes, DestroyNode(x)
  PROVE  PhysInv'
<1> USE DEF PhysInv
<1>1. PICK gone : gone = {body[x]} \ {None}
  OBVIOUS
<1>2. PICK D : D = Subtree(links, x)
  OBVIOUS
<1>3. /\ x \notin Scenes /\ ~InWorld(body[x])
      /\ links' = Cleared(links, x)
      /\ Change(Nothing, IF links.parent[x] = None THEN Nothing
                         ELSE For(Lineage(links, x), BodiesOf(D)))
      /\ body' = [body EXCEPT ![x] = None]
      /\ nodeOf' = [b \in Bodies |-> IF b \in gone THEN None ELSE nodeOf[b]]
      /\ worldOf' = [b \in Bodies |-> IF b \in gone THEN None ELSE worldOf[b]]
      /\ alive' = alive \ gone
      /\ mask' = [b \in Bodies |-> IF b \in gone THEN {} ELSE mask[b]]
  BY <1>1, <1>2 DEF DestroyNode, Destroy, Without
<1>4. None \notin Bodies /\ None \notin Scenes /\ None \notin alive
  BY NodesAssumption, BodiesAssumption DEF NodesAssumption, BodiesAssumption, PhysTypeOK
<1>5. Change(Nothing, For(Lineage(links, x), BodiesOf(D)))
  <2>1. CASE links.parent[x] = None
    <3>1. Lineage(links, x) = {x}
      BY <2>1, LineageParts DEF TreeInv
    <3>2. For(Lineage(links, x), BodiesOf(D)) = Nothing
      BY <1>3, <3>1 DEF For, Nothing
    <3> QED BY <1>3, <2>1, <3>2
  <2>2. CASE links.parent[x] # None
    BY <1>3, <2>2
  <2> QED BY <2>1, <2>2
<1>6. TreeInv(links') /\ Lineage(links', x) = {x}
  BY <1>3, ClearedTree
<1>7. \A s \in Scenes : IF s \in Lineage(links, x)
        THEN /\ D \subseteq Subtree(links, s)
             /\ Subtree(links', s) = Subtree(links, s) \ D
        ELSE Subtree(links', s) = Subtree(links, s)
  BY <1>2, <1>3, ClearedScenes
<1>8. D \in SUBSET Nodes
  BY <1>2 DEF Subtree
<1>9. /\ \A s \in Scenes : SymDiff(bodies'[s], changes'[s]) = BodiesOf(Subtree(links', s))
      /\ changes' \in [Scenes -> SUBSET Bodies]
      /\ AssertionsHold' /\ asserted' \in BOOLEAN
      /\ bodies' = bodies /\ groups' = groups /\ updates' = updates
  BY <1>5, <1>7, <1>8, LeaveRight
<1>10. \A y \in Nodes : body'[y] = IF y = x THEN None ELSE body[y]
  BY <1>3 DEF PhysTypeOK
<1>11. WorldsRight'
  <2>1. ASSUME NEW s \in Scenes
        PROVE  {body'[y] : y \in Subtree(links', s)} = {body[y] : y \in Subtree(links', s)}
    <3>1. \A y \in Subtree(links', s) : y \in Nodes /\ y # x
      BY <1>3, <1>6 DEF Subtree
    <3> QED BY <1>10, <3>1
  <2> QED BY <1>9, <2>1 DEF WorldsRight, BodiesOf
<1>12. Owners' /\ StraysHeld'
  <2>1. ASSUME NEW b \in Bodies \cup {None}, b = None PROVE Owners' /\ StraysHeld'
    <3>1. \A c \in Bodies : nodeOf'[c] = IF c = b THEN x
                                         ELSE IF c = body[x] THEN None ELSE nodeOf[c]
      BY <1>1, <1>3, <1>4, <2>1
    <3>2. /\ gone \subseteq {body[x]}
          /\ body[x] # None /\ body[x] \notin gone => worldOf[body[x]] # None
      BY <1>1
    <3>3. \A c \in Bodies : c \notin gone => worldOf'[c] = worldOf[c]
      BY <1>3
    <3>4. alive' = (alive \ gone) \cup ({b} \ {None}) /\ b \notin alive
      BY <1>3, <1>4, <2>1
    <3>5. body' = [body EXCEPT ![x] = b]
      BY <1>3, <2>1
    <3> QED BY <1>3, <3>1, <3>2, <3>3, <3>4, <3>5, OwnersKept
  <2> QED BY <2>1
<1>13. Placed' /\ UpdatesPlaced' /\ GroupsMatch'
  <2>1. ASSUME NEW c \in Bodies, InWorld(c)
        PROVE  mask'[c] = mask[c] /\ worldOf'[c] = worldOf[c] /\ c \in alive'
    <3>1. c \in alive
      BY <2>1 DEF InWorld, Placed
    <3>2. c \notin gone
      BY <1>1, <1>3, <2>1
    <3> QED BY <1>3, <3>1, <3>2
  <2>2. \A c \in Bodies : ~InWorld(c) => worldOf'[c] = None
    BY <1>3, OneWorld
  <2> QED BY <1>9, <2>1, <2>2, WorldsKept
<1>14. PhysTypeOK'
  <2>1. links' \in Links
    BY <1>6 DEF TreeInv, GoodLinks
  <2>2. alive' \subseteq Bodies /\ mask' \in [Bodies -> Masks]
    BY <1>3 DEF PhysTypeOK, Masks
  <2>3. body' \in [Nodes -> Bodies \cup {None}]
    BY <1>3 DEF PhysTypeOK
  <2>4. nodeOf' \in [Bodies -> Pointers] /\ worldOf' \in [Bodies -> Scenes \cup {None}]
    BY <1>3 DEF PhysTypeOK, Pointers
  <2> QED BY <1>9, <2>1, <2>2, <2>3, <2>4 DEF PhysTypeOK, LinksOK
<1> QED BY <1>6, <1>9, <1>11, <1>12, <1>13, <1>14

(* operator= keeps the invariant: the node was in no scene, and the worlds *)
(* above its new parent are told of its new body.                          *)
LEMMA AssignPhys ==
  ASSUME BodiesAssumption, NodesAssumption, Client = {}, PhysInv, NEW x \in Nodes,
         NEW other \in Nodes, NEW b \in Bodies \cup {None}, AssignNode(x, other, b)
  PROVE  PhysInv'
<1> USE DEF PhysInv
<1>1. PICK gone, copy : gone = {body[x]} \ {None} /\ copy = {b} \ {None}
  OBVIOUS
<1>2. PICK t, p : t = Cleared(links, x) /\ p = t.parent[other]
  OBVIOUS
<1>3. PICK A : A = IF p = None THEN Nothing ELSE For(Lineage(t, p), copy)
  OBVIOUS
<1>4. /\ x \notin Scenes /\ ~InWorld(body[x]) /\ Lineage(links, x) \cap Scenes = {}
      /\ b = None \/ b \notin alive
      /\ links' = IF p = None THEN t ELSE Linked(t, p, x)
      /\ Change(A, Nothing)
      /\ body' = [body EXCEPT ![x] = b]
      /\ nodeOf' = [c \in Bodies |-> IF c = b THEN x
                                     ELSE IF c \in gone THEN None ELSE nodeOf[c]]
      /\ worldOf' = [c \in Bodies |-> IF c \in gone THEN None ELSE worldOf[c]]
      /\ alive' = (alive \ gone) \cup copy
      /\ mask' = [c \in Bodies |-> IF c = b THEN mask[body[other]]
                                   ELSE IF c \in gone THEN {} ELSE mask[c]]
  BY <1>1, <1>2, <1>3 DEF AssignNode, Assign
<1>5. None \notin Bodies /\ None \notin Scenes /\ alive \subseteq Bodies /\ Scenes \subseteq Nodes
  BY NodesAssumption, BodiesAssumption DEF NodesAssumption, BodiesAssumption, PhysTypeOK
<1>6. /\ TreeInv(t) /\ t.parent[x] = None
      /\ \A u \in Nodes : t.parent[u] # x
  BY <1>2, ClearedTree
<1>7. \A s \in Scenes : Subtree(t, s) = Subtree(links, s)
  BY <1>2, <1>4, ClearedScenes
<1>8. \A s \in Scenes : Subtree(links, s) \subseteq Nodes /\ x \notin Subtree(links, s)
  BY <1>4 DEF Subtree
<1>9. /\ TreeInv(links')
      /\ \A s \in Scenes : Subtree(links', s) =
           Subtree(links, s) \cup (IF p # None /\ s \in Lineage(t, p) THEN {x} ELSE {})
  <2>1. CASE p = None
    BY <1>4, <1>6, <1>7, <2>1
  <2>2. CASE p # None
    <3>1. p \in Nodes /\ p # x
      BY <1>2, <1>6, <2>2, LineageParts DEF TreeInv
    <3>2. /\ TreeInv(links')
          /\ \A z \in Nodes : Lineage(links', z) =
               Lineage(t, z) \cup (IF z = x THEN Lineage(t, p) ELSE {})
      BY <1>4, <1>6, <2>2, <3>1, AssignedTree
    <3>3. ASSUME NEW s \in Scenes
          PROVE  Subtree(links', s) = Subtree(t, s) \cup (IF s \in Lineage(t, p) THEN {x} ELSE {})
      BY <3>2 DEF Subtree
    <3> QED BY <1>7, <2>2, <3>2, <3>3
  <2> QED BY <2>1, <2>2
<1>10. \A y \in Nodes : body'[y] = IF y = x THEN b ELSE body[y]
  BY <1>4 DEF PhysTypeOK
<1>11. \A s \in Scenes : /\ A[s] = IF p # None /\ s \in Lineage(t, p) THEN copy ELSE {}
                         /\ Nothing[s] = {}
  BY <1>3 DEF For, Nothing
<1>12. ASSUME NEW s \in Scenes
       PROVE  /\ A[s] \subseteq Bodies /\ Nothing[s] \subseteq Bodies
              /\ A[s] \cap BodiesOf(Subtree(links, s)) = {}
              /\ Nothing[s] \subseteq BodiesOf(Subtree(links, s))
              /\ {body'[y] : y \in Subtree(links', s)} \ {None} =
                   (BodiesOf(Subtree(links, s)) \ Nothing[s]) \cup A[s]
  <2>1. PICK S : S = Subtree(links, s)
    OBVIOUS
  <2>2. S \subseteq Nodes /\ x \notin S
    BY <1>8, <2>1
  <2>3. BodiesOf(S) \subseteq alive
    BY <2>2 DEF BodiesOf, Owners
  <2>4. A[s] \subseteq Bodies /\ A[s] \cap BodiesOf(S) = {}
    BY <1>1, <1>4, <1>11, <2>3
  <2>5. \A y \in S : body'[y] = body[y]
    BY <1>10, <2>2
  <2>6. {body'[y] : y \in S} \ {None} = BodiesOf(S)
    BY <2>5 DEF BodiesOf
  <2>7. CASE p # None /\ s \in Lineage(t, p)
    <3>1. Subtree(links', s) = S \cup {x} /\ A[s] = copy
      BY <1>9, <1>11, <2>1, <2>7
    <3>2. {body'[y] : y \in S \cup {x}} = {body'[y] : y \in S} \cup {b}
      BY <1>10
    <3> QED BY <1>1, <1>11, <2>1, <2>4, <2>6, <3>1, <3>2
  <2>8. CASE ~(p # None /\ s \in Lineage(t, p))
    <3>1. Subtree(links', s) = S /\ A[s] = {}
      BY <1>9, <1>11, <2>1, <2>8
    <3> QED BY <1>11, <2>1, <2>6, <3>1
  <2> QED BY <2>7, <2>8
<1>13. /\ \A s \in Scenes : SymDiff(bodies'[s], changes'[s]) =
            (BodiesOf(Subtree(links, s)) \ Nothing[s]) \cup A[s]
       /\ changes' \in [Scenes -> SUBSET Bodies]
       /\ AssertionsHold' /\ asserted' \in BOOLEAN
       /\ bodies' = bodies /\ groups' = groups /\ updates' = updates
  BY <1>4, <1>12, ChangeRight
<1>14. WorldsRight'
  BY <1>12, <1>13 DEF WorldsRight, BodiesOf
<1>15. Owners' /\ StraysHeld'
  <2>1. \A c \in Bodies : nodeOf'[c] = IF c = b THEN x
                                       ELSE IF c = body[x] THEN None ELSE nodeOf[c]
    BY <1>1, <1>4, <1>5
  <2>2. gone \subseteq {body[x]} /\ (body[x] # None /\ body[x] \notin gone => worldOf[body[x]] # None)
    BY <1>1
  <2>3. \A c \in Bodies : c \notin gone => worldOf'[c] = worldOf[c]
    BY <1>4
  <2>4. alive' = (alive \ gone) \cup ({b} \ {None}) /\ b \notin alive
    BY <1>1, <1>4, <1>5
  <2> QED BY <1>4, <2>1, <2>2, <2>3, <2>4, OwnersKept
<1>16. Placed' /\ UpdatesPlaced' /\ GroupsMatch'
  <2>1. ASSUME NEW c \in Bodies, InWorld(c)
        PROVE  mask'[c] = mask[c] /\ worldOf'[c] = worldOf[c] /\ c \in alive'
    <3>1. c \in alive
      BY <2>1 DEF InWorld, Placed
    <3>2. c \notin gone /\ c # b
      BY <1>1, <1>4, <1>5, <2>1, <3>1
    <3> QED BY <1>4, <3>1, <3>2
  <2>2. \A c \in Bodies : ~InWorld(c) => worldOf'[c] = None
    BY <1>4, OneWorld
  <2> QED BY <1>13, <2>1, <2>2, WorldsKept
<1>17. PhysTypeOK'
  <2>1. links' \in Links
    BY <1>9 DEF TreeInv, GoodLinks
  <2>2. alive' \subseteq Bodies
    BY <1>1, <1>4, <1>5
  <2>3. body' \in [Nodes -> Bodies \cup {None}]
    BY <1>4 DEF PhysTypeOK
  <2>4. nodeOf' \in [Bodies -> Pointers] /\ worldOf' \in [Bodies -> Scenes \cup {None}]
    BY <1>4 DEF PhysTypeOK, Pointers
  <2>5. mask' \in [Bodies -> Masks]
    <3>1. b \in Bodies => body[other] \in Bodies
      BY <1>5 DEF AssignNode, PhysTypeOK
    <3>2. b \in Bodies => mask[body[other]] \in Masks
      BY <3>1 DEF PhysTypeOK
    <3>3. \A c \in Bodies : (IF c = b THEN mask[body[other]]
                             ELSE IF c \in gone THEN {} ELSE mask[c]) \in Masks
      BY <3>2 DEF PhysTypeOK, Masks
    <3> QED BY <1>4, <3>3
  <2> QED BY <1>13, <2>1, <2>2, <2>3, <2>4, <2>5 DEF PhysTypeOK, LinksOK
<1> QED BY <1>9, <1>13, <1>14, <1>15, <1>16, <1>17

(* There is nothing in the worlds at first.                                *)
LEMMA InitPhys ==
  ASSUME NodesAssumption, PhysInit
  PROVE  PhysInv
<1>1. TreeInit /\ TreeInv(links)
  BY InitTree DEF PhysInit
<1>2. Scenes \subseteq Nodes /\ None \notin Scenes
  BY NodesAssumption DEF NodesAssumption
<1>3. DOMAIN <<>> = {}
  OBVIOUS
<1>4. \A s \in Scenes : DOMAIN updates[s] = {}
  BY <1>3 DEF PhysInit
<1>5. PhysTypeOK
  <2>1. links \in Links
    BY <1>1 DEF TreeInv, GoodLinks
  <2>2. DOMAIN updates = Scenes
    BY DEF PhysInit
  <2>3. \A s \in Scenes : /\ DOMAIN updates[s] \subseteq Bodies
                          /\ \A b \in DOMAIN updates[s] : updates[s][b] \in Masks
    BY <1>4
  <2> QED BY <2>1, <2>2, <2>3 DEF PhysInit, PhysTypeOK, LinksOK, Pointers, Masks
<1>6. Owners /\ StraysHeld
  BY DEF PhysInit, Owners, StraysHeld
<1>7. Placed
  BY <1>2 DEF PhysInit, Placed
<1>8. WorldsRight
  <2>1. \A s \in Scenes : SymDiff(bodies[s], changes[s]) = {}
    BY DEF PhysInit, SymDiff
  <2>2. \A s \in Scenes : BodiesOf(Subtree(links, s)) = {}
    BY DEF PhysInit, BodiesOf, Subtree
  <2> QED BY <2>1, <2>2 DEF WorldsRight
<1>9. UpdatesPlaced
  BY <1>4 DEF UpdatesPlaced
<1>10. GroupsMatch
  BY DEF PhysInit, GroupsMatch
<1>11. AssertionsHold
  BY DEF PhysInit, AssertionsHold
<1> QED BY <1>1, <1>5, <1>6, <1>7, <1>8, <1>9, <1>10, <1>11 DEF PhysInv

(* Every call keeps the invariant, of a client that avoids what the source *)
(* does not handle.                                                        *)
LEMMA NextPhys ==
  ASSUME BodiesAssumption, NodesAssumption, Client = {}, PhysInv, [PhysNext]_physVars
  PROVE  PhysInv'
<1>0. None \notin alive /\ None \in Bodies \cup {None} /\ {} \in Masks /\ Scenes \subseteq Nodes
  BY BodiesAssumption, NodesAssumption
  DEF PhysInv, PhysTypeOK, Masks, BodiesAssumption, NodesAssumption
<1>1. ASSUME NEW p \in Nodes, NEW c \in Nodes, InsertNode(p, c) PROVE PhysInv'
  BY <1>1, InsertPhys
<1>2. ASSUME NEW x \in Nodes, DropNode(x) PROVE PhysInv'
  BY <1>2, DropPhys
<1>3. ASSUME NEW x \in Nodes, PruneNode(x) PROVE PhysInv'
  BY <1>3, PrunePhys
<1>4. ASSUME NEW x \in Nodes, DestroyNode(x) PROVE PhysInv'
  BY <1>4, DestroyPhys
<1>5. ASSUME NEW x \in Nodes, RemoveBody(x) PROVE PhysInv'
  BY <1>0, <1>5, SetBodyPhys DEF RemoveBody
<1>6. ASSUME NEW s \in Scenes, PruneScene(s) PROVE PhysInv'
  BY <1>6, PruneScenePhys
<1>7. ASSUME NEW s \in Scenes, Evaluate(s) PROVE PhysInv'
  BY <1>7, EvaluatePhys
<1>8. ASSUME NEW x \in Nodes, NEW b \in Bodies, NEW m \in Masks, NewBody(x, b, m)
      PROVE  PhysInv'
  BY <1>8, SetBodyPhys DEF NewBody
<1>9. ASSUME NEW b \in Bodies, NEW m \in Masks, SetCategoryMask(b, m) PROVE PhysInv'
  BY <1>9, SetCategoryMaskPhys
<1>10. ASSUME NEW x \in Nodes, NEW other \in Nodes, NEW b \in Bodies \cup {None},
              AssignNode(x, other, b)
       PROVE  PhysInv'
  BY <1>10, AssignPhys
<1>11. CASE UNCHANGED physVars
  <2>1. UNCHANGED <<links, body, nodeOf, worldOf, mask, alive, bodies, groups, changes,
                    updates, asserted>>
    BY <1>11 DEF physVars, bodyVars, worldVars
  <2>2. PhysTypeOK' /\ TreeInv(links') /\ Owners' /\ Placed' /\ StraysHeld'
    BY <2>1 DEF PhysInv, PhysTypeOK, LinksOK, Owners, Placed, StraysHeld
  <2>3. WorldsRight' /\ UpdatesPlaced' /\ GroupsMatch' /\ AssertionsHold'
    BY <2>1 DEF PhysInv, WorldsRight, BodiesOf, UpdatesPlaced, GroupsMatch, FiledMask,
                AssertionsHold
  <2> QED BY <2>2, <2>3 DEF PhysInv
<1>12. CASE PhysNext
  BY <1>1, <1>2, <1>3, <1>4, <1>5, <1>6, <1>7, <1>8, <1>9, <1>10, <1>12 DEF PhysNext
<1> QED BY <1>11, <1>12

(* What scenes refer to exists and what exists is owned, by what the       *)
(* invariant says of bodies and worlds.                                    *)
LEMMA PhysInvOwned ==
  ASSUME BodiesAssumption, NodesAssumption, PhysInv
  PROVE  BodiesOwned
<1> USE DEF PhysInv
<1>1. None \notin Scenes /\ None \notin Nodes /\ alive \subseteq Bodies
  BY NodesAssumption DEF NodesAssumption, PhysTypeOK
<1>2. ASSUME NEW s \in Scenes
      PROVE  bodies[s] \cup changes[s] \cup DOMAIN updates[s] \subseteq alive
  <2>1. bodies[s] \subseteq alive
    BY DEF Placed
  <2>2. BodiesOf(Subtree(links, s)) \subseteq alive
    BY DEF BodiesOf, Subtree, Owners
  <2>3. SymDiff(bodies[s], changes[s]) \subseteq alive
    BY <2>2 DEF WorldsRight
  <2>4. changes[s] \subseteq alive
    BY <2>1, <2>3 DEF SymDiff
  <2> QED BY <2>1, <2>4 DEF UpdatesPlaced
<1>3. \A b \in alive, s \in Scenes : worldOf[b] = s <=> b \in bodies[s]
  BY <1>1 DEF Placed
<1>4. \A s \in Scenes : \A b \in bodies[s] : nodeOf[b] = None => b \in changes[s]
  <2>1. \A s \in Scenes : bodies[s] \subseteq Bodies
    BY DEF PhysTypeOK
  <2> QED BY <2>1, OrphanLeaves
<1>5. ASSUME NEW b \in alive, nodeOf[b] # None PROVE body[nodeOf[b]] = b
  BY <1>1, <1>5 DEF Owners
<1>6. ASSUME NEW b \in alive, nodeOf[b] = None
      PROVE  \E s \in Scenes : b \in bodies[s] \cap changes[s]
  <2>1. b \in Bodies /\ worldOf[b] # None
    BY <1>1, <1>6 DEF StraysHeld
  <2>2. PICK s \in Scenes : b \in bodies[s]
    BY <2>1, OneWorld DEF InWorld
  <2> QED BY <1>4, <1>6, <2>2
<1> QED BY <1>2, <1>3, <1>4, <1>5, <1>6 DEF BodiesOwned, NoDangling, NoLeak

(* The inductive invariant of the graph, its bodies and its worlds holds.  *)
THEOREM PhysSafe == Client = {} /\ PhysSpec => []PhysInv
<1> SUFFICES ASSUME Client = {} PROVE PhysSpec => []PhysInv
  OBVIOUS
<1>1. PhysInit => PhysInv
  BY NodesAssumption, InitPhys
<1>2. PhysInv /\ [PhysNext]_physVars => PhysInv'
  BY NodesAssumption, BodiesAssumption, NextPhys
<1> QED BY <1>1, <1>2, PTL DEF PhysSpec

(* A world that applies its pending changes has the bodies of the nodes    *)
(* below its scene, after any sequence of calls.                           *)
THEOREM WorldsAlwaysMatch == Client = {} /\ PhysSpec => []WorldsMatch
<1>1. PhysInv => WorldsMatch
  BY DEF PhysInv, WorldsRight, WorldsMatch
<1> QED BY <1>1, PhysSafe, PTL

(* A world finds every body in the groups that it looks for it in.         *)
THEOREM GroupsAlwaysMatch == Client = {} /\ PhysSpec => []GroupsMatch
<1>1. PhysInv => GroupsMatch
  BY DEF PhysInv
<1> QED BY <1>1, PhysSafe, PTL

(* No world refers to a body that was destroyed, and no body is lost.      *)
THEOREM BodiesAlwaysOwned == Client = {} /\ PhysSpec => []BodiesOwned
<1>1. PhysInv => BodiesOwned
  BY NodesAssumption, BodiesAssumption, PhysInvOwned
<1> QED BY <1>1, PhysSafe, PTL

(* The assertions of add, remove and update never fail.                    *)
THEOREM AssertionsAlwaysHold == Client = {} /\ PhysSpec => []AssertionsHold
<1>1. PhysInv => AssertionsHold
  BY DEF PhysInv
<1> QED BY <1>1, PhysSafe, PTL

(* A step of the graph and its worlds is a step of the graph, or leaves it *)
(* as it is.                                                               *)
LEMMA PhysIsTree ==
  ASSUME NodesAssumption, [PhysNext]_physVars
  PROVE  [TreeNext]_links
<1>1. Scenes \subseteq Nodes
  BY NodesAssumption DEF NodesAssumption
<1>2. ASSUME NEW p \in Nodes, NEW c \in Nodes, InsertNode(p, c) PROVE TreeNext
  BY <1>2 DEF InsertNode, TreeNext
<1>3. ASSUME NEW x \in Nodes, DropNode(x) \/ PruneNode(x) \/ DestroyNode(x) PROVE TreeNext
  BY <1>3 DEF DropNode, PruneNode, DestroyNode, TreeNext
<1>4. ASSUME NEW s \in Scenes, PruneScene(s) PROVE TreeNext
  BY <1>1, <1>4 DEF PruneScene, TreeNext
<1>5. ASSUME NEW x \in Nodes, NEW other \in Nodes, NEW b, AssignNode(x, other, b)
      PROVE  TreeNext
  BY <1>5 DEF AssignNode, TreeNext
<1>6. ASSUME NEW x \in Nodes, NEW b, NEW m, SetBody(x, b, m) PROVE UNCHANGED links
  BY <1>6 DEF SetBody
<1>7. ASSUME NEW b, NEW m, SetCategoryMask(b, m) PROVE UNCHANGED links
  BY <1>7 DEF SetCategoryMask
<1>8. ASSUME NEW s \in Scenes, Evaluate(s) PROVE UNCHANGED links
  BY <1>8 DEF Evaluate
<1>9. CASE UNCHANGED physVars
  BY <1>9 DEF physVars
<1>10. CASE PhysNext
  BY <1>2, <1>3, <1>4, <1>5, <1>6, <1>7, <1>8, <1>10 DEF PhysNext, RemoveBody, NewBody
<1> QED BY <1>9, <1>10

(* The links are right with worlds and bodies too, whatever the client     *)
(* does not avoid: what the worlds record does not disturb the graph.      *)
THEOREM ScenesStayRight == PhysSpec => []TreeRight
<1>1. PhysInit => TreeInit
  BY DEF PhysInit
<1>2. [PhysNext]_physVars => [TreeNext]_links
  BY NodesAssumption, PhysIsTree
<1>3. PhysSpec => TreeSpec
  BY <1>1, <1>2, PTL DEF PhysSpec, TreeSpec
<1> QED BY <1>3, TreesStayRight, PTL

-----------------------------------------------------------------------------
(* The sequences of children.                                              *)

(* The elements of s are what one comes along from y by f, in that order.  *)
Chain(f, y, s) ==
  /\ s \in Seq(Nodes)
  /\ y = IF Len(s) = 0 THEN None ELSE s[1]
  /\ \A i \in 1..Len(s) : f[s[i]] = IF i = Len(s) THEN None ELSE s[i + 1]

(* As far as one of two chains goes, the other goes too.                   *)
LEMMA ChainsAgree ==
  ASSUME NodesAssumption, NEW f, NEW y, NEW s, NEW u, Chain(f, y, s), Chain(f, y, u)
  PROVE  Len(s) <= Len(u) /\ \A i \in 1..Len(s) : u[i] = s[i]
<1> DEFINE T == {i \in 0..Len(s) : i > 0 => i <= Len(u) /\ u[i] = s[i]}
<1>1. Len(s) \in Nat /\ Len(u) \in Nat
  BY LenProperties DEF Chain
<1>2. /\ \A i \in 1..Len(s) : s[i] \in Nodes
      /\ \A i \in 1..Len(u) : u[i] \in Nodes
      /\ None \notin Nodes
  BY ElementOfSeq, NodesAssumption DEF Chain, NodesAssumption
<1>3. 0 \in T
  BY <1>1
<1>4. ASSUME NEW i \in 0..(Len(s) - 1), i \in T PROVE i + 1 \in T
  <2>1. i + 1 \in 1..Len(s) /\ s[i + 1] # None
    BY <1>1, <1>2
  <2>2. CASE i = 0
    <3>1. y = s[1]
      BY <1>1, <2>1, <2>2 DEF Chain
    <3>2. Len(u) # 0 /\ u[1] = s[1]
      BY <2>1, <2>2, <3>1 DEF Chain
    <3> QED BY <1>1, <2>1, <2>2, <3>2
  <2>3. CASE i # 0
    <3>1. i \in 1..Len(s) /\ i # Len(s) /\ i \in 1..Len(u) /\ u[i] = s[i]
      BY <1>1, <1>4, <2>3
    <3>2. f[s[i]] = s[i + 1]
      BY <3>1 DEF Chain
    <3>3. f[u[i]] = IF i = Len(u) THEN None ELSE u[i + 1]
      BY <3>1 DEF Chain
    <3>4. i # Len(u) /\ u[i + 1] = s[i + 1]
      BY <2>1, <3>1, <3>2, <3>3
    <3> QED BY <1>1, <2>1, <3>1, <3>4
  <2> QED BY <2>2, <2>3
<1>5. 0..Len(s) \subseteq T
  <2> HIDE DEF T
  <2> QED BY <1>1, <1>3, <1>4, CountUp
<1>6. \A i \in 1..Len(s) : i \in T
  BY <1>1, <1>5
<1>7. \A i \in 1..Len(s) : i <= Len(u) /\ u[i] = s[i]
  BY <1>6
<1>8. Len(s) <= Len(u)
  <2>1. CASE Len(s) = 0
    BY <1>1, <2>1
  <2>2. CASE Len(s) # 0
    <3>1. Len(s) \in 1..Len(s)
      BY <1>1, <2>2
    <3> QED BY <1>7, <3>1
  <2> QED BY <2>1, <2>2
<1> QED BY <1>7, <1>8

(* There is only one chain.                                                *)
LEMMA ChainUnique ==
  ASSUME NodesAssumption, NEW f, NEW y, NEW s, NEW u, Chain(f, y, s), Chain(f, y, u)
  PROVE  s = u
<1>1. Len(s) <= Len(u) /\ Len(u) <= Len(s) /\ \A i \in 1..Len(s) : u[i] = s[i]
  BY ChainsAgree
<1>2. s \in Seq(Nodes) /\ u \in Seq(Nodes) /\ Len(s) \in Nat /\ Len(u) \in Nat
  BY LenProperties DEF Chain
<1>3. Len(s) = Len(u)
  BY <1>1, <1>2
<1> QED BY <1>1, <1>2, <1>3, SeqEqual

(* A walk of m steps over nodes, each the only one before the next one.    *)
Threaded(f, g, m, w) ==
  /\ \A a, b \in Nodes : f[a] = b <=> g[b] = a
  /\ w \in [0..m -> Nodes]
  /\ g[w[0]] = None
  /\ \A k \in 0..(m - 1) : w[k + 1] = f[w[k]]

(* Such a walk does not come back.                                         *)
LEMMA NoReturn ==
  ASSUME NodesAssumption, NEW f, NEW g, NEW m \in Nat, NEW w, Threaded(f, g, m, w),
         NEW i \in 0..m, NEW j \in 0..m, w[i] = w[j]
  PROVE  i = j
<1> USE DEF Threaded
<1> DEFINE T == {k \in 0..m : \E l \in 0..m : k < l /\ w[k] = w[l]}
<1>0. None \notin Nodes
  BY NodesAssumption DEF NodesAssumption
<1>1. \A k \in 0..(m - 1) : g[w[k + 1]] = w[k]
  BY <1>0
<1>2. ASSUME NEW a \in T PROVE FALSE
  <2>1. PICK k \in T : \A l \in T : k <= l
    <3>1. T \in SUBSET Nat
      OBVIOUS
    <3> HIDE DEF T
    <3> QED BY <1>2, <3>1, LeastNumber
  <2>2. PICK l \in 0..m : k < l /\ w[k] = w[l]
    BY <2>1
  <2>3. l - 1 \in 0..(m - 1) /\ (l - 1) + 1 = l
    BY <2>1, <2>2
  <2>4. g[w[l]] = w[l - 1] /\ w[l - 1] \in Nodes
    BY <1>1, <2>3
  <2>5. k # 0
    BY <1>0, <2>2, <2>4
  <2>6. k - 1 \in 0..(m - 1) /\ (k - 1) + 1 = k /\ k - 1 \in 0..m /\ l - 1 \in 0..m
    BY <2>1, <2>3, <2>5
  <2>7. g[w[k]] = w[k - 1]
    BY <1>1, <2>6
  <2>8. w[k - 1] = w[l - 1]
    BY <2>2, <2>4, <2>7
  <2>9. k - 1 \in T
    BY <2>2, <2>6, <2>8
  <2> QED BY <2>1, <2>6, <2>9
<1>3. i < j => i \in T
  OBVIOUS
<1>4. j < i => j \in T
  OBVIOUS
<1> QED BY <1>2, <1>3, <1>4

(* The walk along the siblings, from a first child, ends.                  *)
LEMMA WalkEnds ==
  ASSUME NodesAssumption, NEW t, GoodLinks(t), NEW x \in Nodes,
         NEW n \in Nat, n = Cardinality(Nodes), NEW walk, walk = Walk(t.nextSib, t.child[x])
  PROVE  \E m \in 0..n : /\ walk[m] = None
                         /\ \A k \in 0..n : k < m => walk[k] # None
                         /\ \A k \in 0..n : m <= k => walk[k] = None
<1>1. PICK f \in LinkTo, g \in LinkTo, y \in Pointers :
        f = t.nextSib /\ g = t.prevSib /\ y = t.child[x]
  BY LinksTyped DEF GoodLinks, LinkTo
<1>2. /\ walk \in [0..n -> Pointers]
      /\ walk[0] = y
      /\ \A k \in 0..(n - 1) :
           walk[k + 1] = IF walk[k] = None THEN None ELSE f[walk[k]]
  <2>1. walk = Walk(f, y)
    BY <1>1
  <2> QED BY <2>1, WalkSteps
<1>3. \A a, b \in Nodes : f[a] = b <=> g[b] = a
  BY <1>1 DEF GoodLinks
<1>4. y # None => g[y] = None
  BY <1>1 DEF GoodLinks
<1>5. \E k \in 0..n : walk[k] = None
  <2> SUFFICES ASSUME \A k \in 0..n : walk[k] # None PROVE FALSE
    OBVIOUS
  <2>1. walk \in [0..n -> Nodes]
    BY <1>2 DEF Pointers
  <2>2. IsFiniteSet(0..n) /\ Cardinality(0..n) = n + 1
    BY FS_Interval
  <2>3. \E i, j \in 0..n : i # j /\ walk[i] = walk[j]
    BY <2>1, <2>2, FS_PigeonHole, NodesAssumption DEF NodesAssumption
  <2>4. PICK i \in 0..n, j \in 0..n : i # j /\ walk[i] = walk[j]
    BY <2>3
  <2>5. g[walk[0]] = None
    <3>1. walk[0] # None
      OBVIOUS
    <3> QED BY <1>2, <1>4, <3>1
  <2>6. \A k \in 0..(n - 1) : walk[k + 1] = f[walk[k]]
    BY <1>2
  <2>7. Threaded(f, g, n, walk)
    BY <1>3, <2>1, <2>5, <2>6 DEF Threaded
  <2> QED BY <2>4, <2>7, NoReturn
<1>6. PICK m \in 0..n : walk[m] = None /\ \A k \in 0..n : k < m => walk[k] # None
  <2> DEFINE S == {k \in 0..n : walk[k] = None}
  <2>1. S \in SUBSET Nat
    OBVIOUS
  <2>2. PICK s \in S : TRUE
    BY <1>5
  <2>3. \E m \in S : \A k \in S : m <= k
    <3> HIDE DEF S
    <3> QED BY <2>1, <2>2, LeastNumber
  <2>4. PICK m \in S : \A k \in S : m <= k
    BY <2>3
  <2>5. \A k \in 0..n : k < m => k \notin S
    BY <2>4
  <2> QED BY <2>4, <2>5
<1>7. \A k \in 0..n : m <= k => walk[k] = None
  <2> DEFINE S == {k \in 0..n : m <= k => walk[k] = None}
  <2>1. 0 \in S
    BY <1>6
  <2>2. ASSUME NEW k \in 0..(n - 1), k \in S PROVE k + 1 \in S
    <3>1. CASE m <= k
      BY <1>2, <2>2, <3>1
    <3>2. CASE ~(m <= k) /\ m <= k + 1
      <4>1. m = k + 1
        BY <3>2
      <4> QED BY <1>6, <4>1
    <3> QED BY <3>1, <3>2
  <2> HIDE DEF S
  <2>3. 0..n \subseteq S
    BY <2>1, <2>2, CountUp
  <2> QED BY <2>3 DEF S
<1> QED BY <1>6, <1>7

(* children() is the chain of siblings from the first child.               *)
LEMMA ChildrenChain ==
  ASSUME NodesAssumption, NEW t, GoodLinks(t), NEW x \in Nodes
  PROVE  Chain(t.nextSib, t.child[x], Children(t, x))
<1>1. PICK n \in Nat : n = Cardinality(Nodes)
  BY StepsOfWalk
<1>2. PICK f \in LinkTo, y \in Pointers : f = t.nextSib /\ y = t.child[x]
  BY LinksTyped DEF GoodLinks, LinkTo
<1>3. PICK walk : walk = Walk(t.nextSib, t.child[x])
  OBVIOUS
<1>4. /\ walk \in [0..n -> Pointers]
      /\ walk[0] = y
      /\ \A k \in 0..(n - 1) :
           walk[k + 1] = IF walk[k] = None THEN None ELSE f[walk[k]]
  <2>1. walk = Walk(f, y)
    BY <1>2, <1>3
  <2> QED BY <1>1, <2>1, WalkSteps
<1>5. PICK m \in 0..n : /\ walk[m] = None
                        /\ \A k \in 0..n : k < m => walk[k] # None
                        /\ \A k \in 0..n : m <= k => walk[k] = None
  BY <1>1, <1>3, WalkEnds
<1>6. Cardinality({k \in 1..n : walk[k - 1] # None}) = m
  <2>1. \A k \in 1..n : walk[k - 1] # None <=> k <= m
    <3> TAKE k \in 1..n
    <3>1. k - 1 \in 0..n /\ (k <= m <=> k - 1 < m) /\ (~(k <= m) <=> m <= k - 1)
      OBVIOUS
    <3> QED BY <1>5, <3>1
  <2>2. {k \in 1..n : walk[k - 1] # None} = 1..m
    BY <2>1
  <2>3. Cardinality(1..m) = m
    <3>1. Cardinality(1..m) = IF 1 > m THEN 0 ELSE m - 1 + 1
      BY FS_Interval
    <3> QED BY <3>1
  <2> QED BY <2>2, <2>3
<1>7. PICK s : s = [k \in 1..m |-> walk[k - 1]]
  OBVIOUS
<1>8. s = Children(t, x)
  BY <1>1, <1>3, <1>6, <1>7 DEF Children
<1>9. \A k \in 1..m : k - 1 \in 0..n /\ k - 1 < m /\ s[k] = walk[k - 1] /\ s[k] \in Nodes
  <2> TAKE k \in 1..m
  <2>1. k - 1 \in 0..n /\ k - 1 < m
    OBVIOUS
  <2>2. s[k] = walk[k - 1]
    BY <1>7
  <2>3. walk[k - 1] # None /\ walk[k - 1] \in Pointers
    BY <1>4, <1>5, <2>1
  <2> QED BY <2>1, <2>2, <2>3 DEF Pointers
<1>10. s \in Seq(Nodes) /\ Len(s) = m
  <2>1. m \in Nat /\ s \in [1..m -> Nodes]
    BY <1>7, <1>9
  <2> QED BY <2>1
<1>11. y = IF m = 0 THEN None ELSE s[1]
  BY <1>4, <1>5, <1>7
<1>12. \A i \in 1..m : f[s[i]] = IF i = m THEN None ELSE s[i + 1]
  <2> TAKE i \in 1..m
  <2>1. i - 1 \in 0..(n - 1) /\ (i - 1) + 1 = i
    OBVIOUS
  <2>2. s[i] = walk[i - 1] /\ walk[i - 1] # None
    BY <1>5, <1>9
  <2>3. walk[i] = f[s[i]]
    BY <1>4, <2>1, <2>2
  <2>4. i # m => s[i + 1] = walk[i]
    <3> SUFFICES ASSUME i # m PROVE s[i + 1] = walk[i]
      OBVIOUS
    <3>1. i + 1 \in 1..m /\ (i + 1) - 1 = i
      OBVIOUS
    <3> QED BY <1>9, <3>1
  <2> QED BY <1>5, <2>3, <2>4
<1> QED BY <1>2, <1>8, <1>10, <1>11, <1>12 DEF Chain

(* What one comes along is the elements of the chain, each of them once.   *)
LEMMA ChainElements ==
  ASSUME NodesAssumption, NEW f \in LinkTo, NEW y \in Pointers, NEW s, Chain(f, y, s)
  PROVE  Along(f, y) = {s[i] : i \in 1..Len(s)}
<1> DEFINE E == {s[i] : i \in 1..Len(s)}
<1>1. Len(s) \in Nat /\ \A i \in 1..Len(s) : s[i] \in Nodes
  BY LenProperties, ElementOfSeq DEF Chain
<1>2. None \notin Nodes
  BY NodesAssumption DEF NodesAssumption
<1>3. Along(f, y) \subseteq E
  <2>1. y # None => y \in E
    <3> SUFFICES ASSUME y # None PROVE y \in E
      OBVIOUS
    <3>1. Len(s) # 0 /\ y = s[1]
      BY DEF Chain
    <3>2. 1 \in 1..Len(s)
      BY <1>1, <3>1
    <3> QED BY <3>1, <3>2
  <2>2. ASSUME NEW u \in E, u \in Nodes, f[u] # None PROVE f[u] \in E
    <3>1. PICK i \in 1..Len(s) : u = s[i]
      OBVIOUS
    <3>2. f[u] = IF i = Len(s) THEN None ELSE s[i + 1]
      BY <3>1 DEF Chain
    <3>3. i + 1 \in 1..Len(s) /\ f[u] = s[i + 1]
      BY <1>1, <2>2, <3>2
    <3> QED BY <3>3
  <2> HIDE DEF E
  <2> QED BY <2>1, <2>2, AlongWithin
<1>4. E \subseteq Along(f, y)
  <2> SUFFICES ASSUME Len(s) # 0 PROVE \A i \in 1..Len(s) : s[i] \in Along(f, y)
    BY <1>1
  <2> DEFINE T == {k \in 0..(Len(s) - 1) : s[k + 1] \in Along(f, y)}
  <2>1. 0 \in T
    <3>1. y = s[1] /\ 1 \in 1..Len(s)
      BY <1>1 DEF Chain
    <3>2. y \in Along(f, y)
      BY <1>1, <1>2, <3>1, AlongStarts
    <3> QED BY <1>1, <3>1, <3>2
  <2>2. ASSUME NEW k \in 0..(Len(s) - 2), k \in T PROVE k + 1 \in T
    <3>1. /\ k + 1 \in 1..Len(s) /\ k + 1 # Len(s) /\ (k + 1) + 1 \in 1..Len(s)
          /\ k + 1 \in 0..(Len(s) - 1)
      BY <1>1
    <3>2. f[s[k + 1]] = s[(k + 1) + 1]
      BY <3>1 DEF Chain
    <3>3. f[s[k + 1]] # None /\ s[k + 1] \in Along(f, y)
      BY <1>1, <1>2, <2>2, <3>1, <3>2
    <3>4. f[s[k + 1]] \in Along(f, y)
      BY <3>3, AlongCloses
    <3> QED BY <3>1, <3>2, <3>4
  <2>3. 0..(Len(s) - 1) \subseteq T
    <3>1. PICK n \in Nat : n = Len(s) - 1
      BY <1>1
    <3>2. \A k \in 0..(n - 1) : k \in T => k + 1 \in T
      BY <1>1, <2>2, <3>1
    <3> HIDE DEF T
    <3>3. 0..n \subseteq T
      BY <2>1, <3>2, CountUp
    <3> QED BY <3>1, <3>3
  <2> TAKE i \in 1..Len(s)
  <2>4. i - 1 \in 0..(Len(s) - 1) /\ (i - 1) + 1 = i
    BY <1>1
  <2>5. i - 1 \in T
    <3> HIDE DEF T
    <3> QED BY <2>3, <2>4
  <2>6. s[(i - 1) + 1] \in Along(f, y)
    BY <2>5
  <2> QED BY <2>4, <2>6
<1> QED BY <1>3, <1>4

(* The children of a node are those that have it as their parent; none is  *)
(* there twice.                                                            *)
AreChildren(s, t, x) ==
  /\ s \in Seq(Nodes) /\ Len(s) \in Nat
  /\ \A y \in Nodes : (\E i \in 1..Len(s) : s[i] = y) <=> t.parent[y] = x
  /\ \A i \in 1..Len(s) : s[i] \in Nodes /\ t.parent[s[i]] = x
  /\ \A i, j \in 1..Len(s) : s[i] = s[j] => i = j

(* This is so of what Children gives: the chain of siblings that starts    *)
(* at a node's first child.                                                *)
LEMMA ChildrenAre ==
  ASSUME NodesAssumption, NEW t, GoodLinks(t), NEW x \in Nodes
  PROVE  AreChildren(Children(t, x), t, x)
<1>0. PICK s : s = Children(t, x)
  OBVIOUS
<1>1. PICK f \in LinkTo, g \in LinkTo, y \in Pointers :
        f = t.nextSib /\ g = t.prevSib /\ y = t.child[x]
  BY LinksTyped DEF GoodLinks, LinkTo
<1>2. Chain(f, y, s)
  BY <1>0, <1>1, ChildrenChain
<1>3. s \in Seq(Nodes) /\ Len(s) \in Nat /\ \A i \in 1..Len(s) : s[i] \in Nodes
  BY <1>2, LenProperties, ElementOfSeq DEF Chain
<1>4. Along(f, y) = {s[i] : i \in 1..Len(s)}
  BY <1>2, ChainElements
<1>5. Along(f, y) = {u \in Nodes : t.parent[u] = x}
  BY <1>1 DEF GoodLinks, ChildSet
<1>6. {s[i] : i \in 1..Len(s)} = {u \in Nodes : t.parent[u] = x}
  BY <1>4, <1>5
<1>7. \A u \in Nodes : (\E i \in 1..Len(s) : s[i] = u) <=> t.parent[u] = x
  BY <1>6
<1>8. \A i \in 1..Len(s) : t.parent[s[i]] = x
  BY <1>3, <1>7
<1>9. ASSUME NEW i \in 1..Len(s), NEW j \in 1..Len(s), s[i] = s[j] PROVE i = j
  <2>1. PICK m \in Nat : m = Len(s) - 1
    BY <1>3
  <2>2. PICK w : w = [k \in 0..m |-> s[k + 1]]
    OBVIOUS
  <2>3. \A k \in 0..m : k + 1 \in 1..Len(s) /\ w[k] = s[k + 1]
    BY <1>3, <2>1, <2>2
  <2>4. w \in [0..m -> Nodes]
    BY <1>3, <2>2, <2>3
  <2>5. \A a, b \in Nodes : f[a] = b <=> g[b] = a
    BY <1>1 DEF GoodLinks
  <2>6. g[w[0]] = None
    <3>1. w[0] = s[1] /\ w[0] \in Nodes
      BY <2>3, <2>4
    <3>2. y = s[1]
      BY <1>2, <1>3, <2>1 DEF Chain
    <3>3. y # None
      BY <3>1, <3>2, NodesAssumption DEF NodesAssumption
    <3>4. t.child[x] # None => t.prevSib[t.child[x]] = None
      BY DEF GoodLinks
    <3>5. g[y] = None
      BY <1>1, <3>3, <3>4
    <3> QED BY <3>1, <3>2, <3>5
  <2>7. \A k \in 0..(m - 1) : w[k + 1] = f[w[k]]
    <3> TAKE k \in 0..(m - 1)
    <3>1. /\ k + 1 \in 1..Len(s) /\ k + 1 # Len(s)
          /\ k \in 0..m /\ k + 1 \in 0..m
      BY <1>3, <2>1
    <3>2. f[s[k + 1]] = s[(k + 1) + 1]
      BY <1>2, <3>1 DEF Chain
    <3> QED BY <2>3, <3>1, <3>2
  <2>8. i - 1 \in 0..m /\ j - 1 \in 0..m /\ (i - 1) + 1 = i /\ (j - 1) + 1 = j
    BY <1>3, <2>1
  <2>9. w[i - 1] = w[j - 1]
    BY <1>9, <2>3, <2>8
  <2>10. i - 1 = j - 1
    <3>1. Threaded(f, g, m, w)
      BY <2>4, <2>5, <2>6, <2>7 DEF Threaded
    <3>2. PICK a \in 0..m, b \in 0..m : a = i - 1 /\ b = j - 1
      BY <2>8
    <3>3. w[a] = w[b]
      BY <2>9, <3>2
    <3>4. a = b
      BY <3>1, <3>3, NoReturn
    <3> QED BY <3>2, <3>4
  <2> QED BY <2>8, <2>10
<1> QED BY <1>0, <1>3, <1>7, <1>8, <1>9 DEF AreChildren

(* The links of other nodes alone change: the children of x do not.        *)
LEMMA ChildrenSame ==
  ASSUME NodesAssumption, NEW t, GoodLinks(t), NEW t2, GoodLinks(t2),
         NEW x \in Nodes, t2.child[x] = t.child[x],
         \A y \in Nodes : t.parent[y] = x => t2.nextSib[y] = t.nextSib[y]
  PROVE  Children(t2, x) = Children(t, x)
<1>1. PICK s : s = Children(t, x)
  OBVIOUS
<1>2. Chain(t.nextSib, t.child[x], s)
  BY <1>1, ChildrenChain
<1>3. \A i \in 1..Len(s) : t2.nextSib[s[i]] = t.nextSib[s[i]]
  <2>1. AreChildren(s, t, x)
    BY <1>1, ChildrenAre
  <2> QED BY <2>1 DEF AreChildren
<1>4. Chain(t2.nextSib, t2.child[x], s)
  BY <1>2, <1>3 DEF Chain
<1>5. Chain(t2.nextSib, t2.child[x], Children(t2, x))
  BY ChildrenChain
<1> QED BY <1>1, <1>4, <1>5, ChainUnique

(* s without its k-th element.                                             *)
LEMMA RemoveAtIs ==
  ASSUME NEW S, NEW s \in Seq(S), NEW k \in 1..Len(s)
  PROVE  /\ RemoveAt(s, k) \in Seq(S)
         /\ Len(RemoveAt(s, k)) = Len(s) - 1
         /\ \A i \in 1..(Len(s) - 1) :
              RemoveAt(s, k)[i] = IF i < k THEN s[i] ELSE s[i + 1]
<1>1. Len(s) \in Nat /\ \A i \in 1..Len(s) : s[i] \in S
  BY LenProperties, ElementOfSeq
<1>2. PICK a : a = SubSeq(s, 1, k - 1)
  OBVIOUS
<1>3. PICK b : b = SubSeq(s, k + 1, Len(s))
  OBVIOUS
<1>4. a \in Seq(S) /\ Len(a) = k - 1 /\ \A i \in 1..(k - 1) : a[i] = s[i]
  <2>1. /\ 1 \in Int /\ k - 1 \in Int /\ \A i \in 1..(k - 1) : s[i] \in S
        /\ (IF 1 <= k - 1 THEN (k - 1) - 1 + 1 ELSE 0) = k - 1
        /\ (k - 1) - 1 + 1 = k - 1
        /\ \A i \in 1..(k - 1) : 1 + i - 1 = i
    BY <1>1
  <2> QED BY <1>2, <2>1, SubSeqProperties
<1>5. /\ b \in Seq(S) /\ Len(b) = Len(s) - k
      /\ \A i \in 1..(Len(s) - k) : b[i] = s[k + i]
  <2>1. /\ k + 1 \in Int /\ Len(s) \in Int /\ \A i \in (k + 1)..Len(s) : s[i] \in S
        /\ (IF k + 1 <= Len(s) THEN Len(s) - (k + 1) + 1 ELSE 0) = Len(s) - k
        /\ Len(s) - (k + 1) + 1 = Len(s) - k
        /\ \A i \in 1..(Len(s) - k) : k + 1 + i - 1 = k + i
    BY <1>1
  <2>2. PICK l \in Int, m \in Int : l = k + 1 /\ m = Len(s)
    BY <2>1
  <2>3. \A i \in l..m : s[i] \in S
    BY <2>1, <2>2
  <2>4. /\ b \in Seq(S) /\ Len(b) = IF l <= m THEN m - l + 1 ELSE 0
        /\ \A i \in 1..(m - l + 1) : b[i] = s[l + i - 1]
    BY <1>3, <2>2, <2>3, SubSeqProperties
  <2>5. Len(b) = Len(s) - k
    BY <2>1, <2>2, <2>4
  <2>6. \A i \in 1..(Len(s) - k) : b[i] = s[k + i]
    <3> TAKE i \in 1..(Len(s) - k)
    <3>1. i \in 1..(m - l + 1) /\ l + i - 1 = k + i
      BY <1>1, <2>2
    <3> QED BY <2>4, <3>1
  <2> QED BY <2>4, <2>5, <2>6
<1>6. RemoveAt(s, k) = a \o b
  BY <1>2, <1>3 DEF RemoveAt
<1>7. Len(a) + Len(b) = Len(s) - 1
  BY <1>1, <1>4, <1>5
<1>8. /\ a \o b \in Seq(S) /\ Len(a \o b) = Len(s) - 1
      /\ \A i \in 1..(Len(s) - 1) :
           (a \o b)[i] = IF i <= Len(a) THEN a[i] ELSE b[i - Len(a)]
  <2>1. /\ a \o b \in Seq(S) /\ Len(a \o b) = Len(a) + Len(b)
        /\ \A i \in 1..Len(a) + Len(b) :
             (a \o b)[i] = IF i <= Len(a) THEN a[i] ELSE b[i - Len(a)]
    BY <1>4, <1>5, ConcatProperties
  <2> QED BY <1>7, <2>1
<1>9. \A i \in 1..(Len(s) - 1) : (a \o b)[i] = IF i < k THEN s[i] ELSE s[i + 1]
  <2> TAKE i \in 1..(Len(s) - 1)
  <2>1. CASE i < k
    <3>1. i <= Len(a) /\ i \in 1..(k - 1)
      BY <1>4, <2>1
    <3> QED BY <1>4, <1>8, <2>1, <3>1
  <2>2. CASE ~(i < k)
    <3>1. ~(i <= Len(a)) /\ i - Len(a) \in 1..(Len(s) - k) /\ k + (i - Len(a)) = i + 1
      BY <1>1, <1>4, <2>2
    <3>2. b[i - Len(a)] = s[i + 1]
      BY <1>5, <3>1
    <3> QED BY <1>8, <2>2, <3>1, <3>2
  <2> QED BY <2>1, <2>2
<1> QED BY <1>6, <1>8, <1>9

(* The sequences of children of all nodes.                                 *)
Kids(t) == [x \in Nodes |-> Children(t, x)]

(* drop takes a node from the sequence that it is in.                      *)
LEMMA DroppedKids ==
  ASSUME NodesAssumption, NEW t, TreeInv(t), NEW c \in Nodes, NEW x \in Nodes,
         NEW s, s = Children(t, x)
  PROVE  /\ t.parent[c] # x => Children(Dropped(t, c), x) = s
         /\ \A k \in 1..Len(s) : s[k] = c => Children(Dropped(t, c), x) = RemoveAt(s, k)
<1>1. GoodLinks(t) /\ None \notin Nodes
  BY NodesAssumption DEF TreeInv, NodesAssumption
<1>2. PICK t2 : t2 = Dropped(t, c)
  OBVIOUS
<1>3. GoodLinks(t2)
  BY <1>2, DroppedTree DEF TreeInv
<1>4. /\ s \in Seq(Nodes) /\ Len(s) \in Nat
      /\ \A i \in 1..Len(s) : s[i] \in Nodes /\ t.parent[s[i]] = x
      /\ \A i, j \in 1..Len(s) : s[i] = s[j] => i = j
  BY <1>1, ChildrenAre DEF AreChildren
<1>5. CASE t.parent[c] = None
  <2>1. t2 = t
    BY <1>2, <1>5 DEF Dropped
  <2>2. \A k \in 1..Len(s) : s[k] # c
    BY <1>1, <1>4, <1>5
  <2> QED BY <1>2, <2>1, <2>2
<1>6. CASE t.parent[c] # None
  <2>1. /\ \A u \in Nodes : t2.child[u] = IF t.child[u] = c THEN t.nextSib[c]
                                          ELSE t.child[u]
        /\ \A u \in Nodes : t2.nextSib[u] = IF u = c THEN None
                                            ELSE IF t.nextSib[u] = c THEN t.nextSib[c]
                                            ELSE t.nextSib[u]
    BY <1>1, <1>2, <1>6, DroppedLinks
  <2>2. PICK f, g, y, z : f = t.nextSib /\ g = t2.nextSib /\ y = t.child[x] /\ z = t2.child[x]
    OBVIOUS
  <2>3. /\ \A u \in Nodes : g[u] = IF u = c THEN None ELSE IF f[u] = c THEN f[c] ELSE f[u]
        /\ z = IF y = c THEN f[c] ELSE y
    BY <2>1, <2>2
  <2>4. Chain(f, y, s)
    BY <1>1, <2>2, ChildrenChain
  <2>5. y = (IF Len(s) = 0 THEN None ELSE s[1])
    BY <2>4 DEF Chain
  <2>6. \A i \in 1..Len(s) : f[s[i]] = IF i = Len(s) THEN None ELSE s[i + 1]
    BY <2>4 DEF Chain
  <2>7. t.parent[c] # x => Children(t2, x) = s
    <3> SUFFICES ASSUME t.parent[c] # x PROVE Children(t2, x) = s
      OBVIOUS
    <3>1. y # c
      <4>1. Len(s) # 0 => 1 \in 1..Len(s)
        BY <1>4
      <4> QED BY <1>1, <1>4, <2>5, <4>1
    <3>2. \A u \in Nodes : t.parent[u] = x => g[u] = f[u]
      <4> TAKE u \in Nodes
      <4> HAVE t.parent[u] = x
      <4>1. f[u] # c
        BY <1>1, <2>2, SiblingsShareParent
      <4> QED BY <2>3, <4>1
    <3> QED BY <1>1, <1>3, <2>2, <2>3, <3>1, <3>2, ChildrenSame
  <2>8. ASSUME NEW k \in 1..Len(s), s[k] = c PROVE Children(t2, x) = RemoveAt(s, k)
    <3>1. PICK n \in Nat : n = Len(s)
      BY <1>4
    <3>2. PICK v : v = RemoveAt(s, k)
      OBVIOUS
    <3>3. /\ v \in Seq(Nodes) /\ Len(v) = n - 1
          /\ \A i \in 1..(n - 1) : v[i] = IF i < k THEN s[i] ELSE s[i + 1]
      BY <1>4, <3>1, <3>2, RemoveAtIs
    <3>4. k \in 1..n /\ \A i \in 1..n : s[i] = c <=> i = k
      BY <1>4, <2>8, <3>1
    <3>5. f[c] = IF k = n THEN None ELSE s[k + 1]
      BY <2>6, <2>8, <3>1
    <3>6. z = IF n - 1 = 0 THEN None ELSE v[1]
      <4>1. y = s[1] /\ 1 \in 1..n
        BY <2>5, <3>1, <3>4
      <4>2. CASE k = 1
        <5>1. z = f[c]
          BY <2>3, <3>4, <4>1, <4>2
        <5>2. n # 1 => v[1] = s[2]
          BY <3>3, <4>2
        <5> QED BY <3>5, <4>2, <5>1, <5>2
      <4>3. CASE k # 1
        <5>1. z = s[1]
          BY <2>3, <3>4, <4>1, <4>3
        <5>2. n # 1 /\ v[1] = s[1]
          BY <3>3, <3>4, <4>3
        <5> QED BY <5>1, <5>2
      <4> QED BY <4>2, <4>3
    <3>7. \A i \in 1..(n - 1) : g[v[i]] = IF i = n - 1 THEN None ELSE v[i + 1]
      <4> TAKE i \in 1..(n - 1)
      <4>1. i \in 1..n /\ i + 1 \in 1..n /\ (i + 1) + 1 = i + 2
        OBVIOUS
      <4>2. f[s[i]] = s[i + 1] /\ f[s[i + 1]] = IF i + 1 = n THEN None ELSE s[i + 2]
        BY <2>6, <3>1, <4>1
      <4>3. s[i] \in Nodes /\ s[i + 1] \in Nodes
        BY <1>4, <3>1, <4>1
      <4>4. CASE i + 1 < k
        <5>1. v[i] = s[i] /\ i + 1 \in 1..(n - 1) /\ i # n - 1
          BY <3>3, <3>4, <4>4
        <5>2. v[i + 1] = s[i + 1]
          BY <3>3, <4>4, <5>1
        <5>3. s[i] # c /\ s[i + 1] # c
          BY <3>4, <4>1, <4>4
        <5> QED BY <2>3, <4>2, <4>3, <5>1, <5>2, <5>3
      <4>5. CASE i + 1 = k
        <5>1. v[i] = s[i]
          BY <3>3, <4>5
        <5>2. s[i] # c /\ f[s[i]] = c
          BY <3>4, <4>1, <4>2, <4>5
        <5>3. g[s[i]] = f[c]
          BY <2>3, <4>3, <5>2
        <5>4. i # n - 1 => v[i + 1] = s[i + 2]
          BY <3>3, <4>1, <4>5
        <5> QED BY <3>5, <4>1, <4>5, <5>1, <5>3, <5>4
      <4>6. CASE k < i + 1
        <5>1. v[i] = s[i + 1]
          BY <3>3, <4>6
        <5>2. i # n - 1 => i + 2 \in 1..n /\ v[i + 1] = s[i + 2]
          BY <3>3, <4>1, <4>6
        <5>3. s[i + 1] # c
          BY <3>4, <4>1, <4>6
        <5>4. f[s[i + 1]] # c
          BY <1>1, <3>4, <4>1, <4>2, <4>6, <5>2
        <5>5. g[s[i + 1]] = f[s[i + 1]]
          BY <2>3, <4>3, <5>3, <5>4
        <5> QED BY <4>2, <5>1, <5>2, <5>5
      <4> QED BY <3>4, <4>4, <4>5, <4>6
    <3>8. Chain(g, z, v)
      BY <3>3, <3>6, <3>7 DEF Chain
    <3>9. Chain(g, z, Children(t2, x))
      BY <1>3, <2>2, ChildrenChain
    <3> QED BY <3>2, <3>8, <3>9, ChainUnique
  <2> QED BY <1>2, <2>7, <2>8
<1> QED BY <1>5, <1>6

(* What insert() does to a root: it becomes the first child of p.          *)
LEMMA LinkedKids ==
  ASSUME NodesAssumption, NEW t, GoodLinks(t), NEW x \in Nodes, NEW p \in Nodes,
         t.parent[x] = None, GoodLinks(Linked(t, p, x))
  PROVE  /\ \A z \in Nodes : z # p => Children(Linked(t, p, x), z) = Children(t, z)
         /\ Children(Linked(t, p, x), p) = <<x>> \o Children(t, p)
<1>0. None \notin Nodes
  BY NodesAssumption DEF NodesAssumption
<1>1. PICK t2 : t2 = Linked(t, p, x)
  OBVIOUS
<1>2. /\ \A u \in Nodes : t2.child[u] = IF u = p THEN x ELSE t.child[u]
      /\ \A u \in Nodes : t2.nextSib[u] = IF u = x THEN t.child[p] ELSE t.nextSib[u]
  BY <1>1, LinkedLinks
<1>3. ASSUME NEW z \in Nodes, z # p PROVE Children(t2, z) = Children(t, z)
  <2>1. t2.child[z] = t.child[z]
    BY <1>2, <1>3
  <2>2. \A y \in Nodes : t.parent[y] = z => t2.nextSib[y] = t.nextSib[y]
    BY <1>0, <1>2
  <2> QED BY <1>1, <2>1, <2>2, ChildrenSame
<1>4. Children(t2, p) = <<x>> \o Children(t, p)
  <2>1. PICK s : s = Children(t, p)
    OBVIOUS
  <2>2. /\ s \in Seq(Nodes) /\ Len(s) \in Nat
        /\ \A i \in 1..Len(s) : s[i] \in Nodes /\ t.parent[s[i]] = p
    BY <2>1, ChildrenAre DEF AreChildren
  <2>3. Chain(t.nextSib, t.child[p], s)
    BY <2>1, ChildrenChain
  <2>4. t.child[p] = (IF Len(s) = 0 THEN None ELSE s[1])
    BY <2>3 DEF Chain
  <2>5. \A i \in 1..Len(s) : t.nextSib[s[i]] = IF i = Len(s) THEN None ELSE s[i + 1]
    BY <2>3 DEF Chain
  <2>6. PICK v : v = <<x>> \o s
    OBVIOUS
  <2>7. PICK n \in Nat : n = Len(s)
    BY <2>2
  <2>8. /\ v \in Seq(Nodes) /\ Len(v) = n + 1 /\ v[1] = x
        /\ \A i \in 1..n : v[i + 1] = s[i]
    <3>1. <<x>> \in Seq(Nodes) /\ Len(<<x>>) = 1 /\ <<x>>[1] = x
      OBVIOUS
    <3>2. 1 + n = n + 1
      OBVIOUS
    <3>3. /\ v \in Seq(Nodes) /\ Len(v) = n + 1
          /\ \A i \in 1..(n + 1) : v[i] = IF i <= 1 THEN <<x>>[i] ELSE s[i - 1]
      BY <2>2, <2>6, <2>7, <3>1, <3>2, ConcatProperties
    <3>4. 1 \in 1..(n + 1) /\ \A i \in 1..n : i + 1 \in 1..(n + 1) /\ ~(i + 1 <= 1) /\ (i + 1) - 1 = i
      OBVIOUS
    <3> QED BY <3>1, <3>3, <3>4
  <2>9. t2.child[p] = x /\ t2.nextSib[x] = (IF n = 0 THEN None ELSE s[1])
    BY <1>2, <2>4, <2>7
  <2>10. \A i \in 1..n : t2.nextSib[s[i]] = IF i = n THEN None ELSE s[i + 1]
    <3> TAKE i \in 1..n
    <3>1. s[i] \in Nodes /\ s[i] # x
      BY <1>0, <2>2, <2>7
    <3> QED BY <1>2, <2>5, <2>7, <3>1
  <2>11. \A i \in 1..(n + 1) : t2.nextSib[v[i]] = IF i = n + 1 THEN None ELSE v[i + 1]
    <3> TAKE i \in 1..(n + 1)
    <3>1. CASE i = 1
      <4>1. n # 0 => 1 \in 1..n /\ v[1 + 1] = s[1]
        BY <2>8
      <4> QED BY <2>8, <2>9, <3>1, <4>1
    <3>2. CASE i # 1
      <4>1. PICK j \in 1..n : i = j + 1
        <5>1. i - 1 \in 1..n /\ i = (i - 1) + 1
          BY <3>2
        <5> QED BY <5>1
      <4>2. v[i] = s[j]
        BY <2>8, <4>1
      <4>3. i # n + 1 => j # n /\ j + 1 \in 1..n /\ v[i + 1] = s[j + 1]
        BY <2>8, <4>1
      <4>4. i = n + 1 => j = n
        BY <4>1
      <4> QED BY <2>10, <4>2, <4>3, <4>4
    <3> QED BY <3>1, <3>2
  <2>12. Chain(t2.nextSib, t2.child[p], v)
    BY <2>8, <2>9, <2>11 DEF Chain
  <2>13. Chain(t2.nextSib, t2.child[p], Children(t2, p))
    BY <1>1, ChildrenChain
  <2> QED BY <2>1, <2>6, <2>12, <2>13, ChainUnique
<1> QED BY <1>1, <1>3, <1>4

(* prune empties the sequence of a node, and no other.                     *)
LEMMA PrunedKids ==
  ASSUME NodesAssumption, NEW t, TreeInv(t), NEW x \in Nodes
  PROVE  /\ \A z \in Nodes : z # x => Children(Pruned(t, x), z) = Children(t, z)
         /\ Children(Pruned(t, x), x) = <<>>
<1>0. GoodLinks(t) /\ None \notin Nodes
  BY NodesAssumption DEF TreeInv, NodesAssumption
<1>1. PICK t2 : t2 = Pruned(t, x)
  OBVIOUS
<1>2. GoodLinks(t2) /\ \A u \in Nodes : t2.parent[u] = IF t.parent[u] = x THEN None ELSE t.parent[u]
  BY <1>1, PrunedTree DEF TreeInv
<1>3. PICK C \in SUBSET Nodes : C = ChildSet(t, x) /\ C = {u \in Nodes : t.parent[u] = x}
  BY <1>0 DEF GoodLinks
<1>4. Children(t2, x) = <<>>
  <2>1. PICK s : s = Children(t2, x)
    OBVIOUS
  <2>2. s \in Seq(Nodes) /\ Len(s) \in Nat /\ \A i \in 1..Len(s) : s[i] \in Nodes /\ t2.parent[s[i]] = x
    BY <1>2, <2>1, ChildrenAre DEF AreChildren
  <2>3. \A u \in Nodes : t2.parent[u] # x
    BY <1>0, <1>2
  <2>4. ~(1 \in 1..Len(s))
    BY <2>2, <2>3
  <2>5. Len(s) = 0
    BY <2>2, <2>4
  <2> QED BY <2>1, <2>2, <2>5, EmptySeq
<1>5. ASSUME NEW z \in Nodes, z # x PROVE Children(t2, z) = Children(t, z)
  <2>1. CASE C = {}
    <3>1. t2 = t
      BY <1>1, <1>3, <2>1 DEF Pruned
    <3> QED BY <3>1
  <2>2. CASE C # {}
    <3>1. CutAt(t2.nextSib, t.nextSib, C) /\ ChangedAt(t2.child, t.child, x, None)
      BY <1>0, <1>1, <1>3, <2>2, PrunedLinks
    <3>2. t2.child[z] = t.child[z]
      BY <1>5, <3>1 DEF ChangedAt
    <3>3. \A y \in Nodes : t.parent[y] = z => t2.nextSib[y] = t.nextSib[y]
      BY <1>3, <1>5, <3>1 DEF CutAt
    <3> QED BY <1>0, <1>2, <3>2, <3>3, ChildrenSame
  <2> QED BY <2>1, <2>2
<1> QED BY <1>1, <1>4, <1>5

(* What NodeForest says of the nodes, in terms of their links.             *)
LEMMA ForestFacts ==
  ASSUME NodesAssumption, TreeInv(links)
  PROVE  /\ \A x, y \in Nodes : Forest!Has(x, y) <=> links.parent[y] = x
         /\ \A x \in Nodes : \A y \in Forest!Tree(x) : x \in Lineage(links, y)
         /\ \A c \in Nodes : Forest!Without(c) = Kids(Dropped(links, c))
<1>0. GoodLinks(links) /\ None \notin Nodes
  BY NodesAssumption DEF TreeInv, NodesAssumption
<1>1. PICK K : K = Kids(links)
  OBVIOUS
<1>2. \A x \in Nodes : K[x] = Children(links, x)
  BY <1>1 DEF Kids
<1>3. \A x \in Nodes : /\ K[x] \in Seq(Nodes) /\ Len(K[x]) \in Nat
                       /\ DOMAIN K[x] = 1..Len(K[x])
                       /\ \A y \in Nodes : (\E i \in 1..Len(K[x]) : K[x][i] = y)
                                             <=> links.parent[y] = x
  <2> TAKE x \in Nodes
  <2>1. PICK s : s = Children(links, x)
    OBVIOUS
  <2>2. /\ s \in Seq(Nodes) /\ Len(s) \in Nat
        /\ \A y \in Nodes : (\E i \in 1..Len(s) : s[i] = y) <=> links.parent[y] = x
    BY <1>0, <2>1, ChildrenAre DEF AreChildren
  <2> QED BY <1>2, <2>1, <2>2, LenProperties
<1>4. \A x, y : Forest!Has(x, y) <=> \E k \in DOMAIN K[x] : K[x][k] = y
  BY <1>1 DEF Forest!Has, Kids
<1>5. \A x, y \in Nodes : Forest!Has(x, y) <=> links.parent[y] = x
  BY <1>3, <1>4
<1>6. ASSUME NEW x \in Nodes, NEW y \in Forest!Tree(x) PROVE x \in Lineage(links, y)
  <2>1. y \in Nodes /\ \A S \in SUBSET Nodes : x \in S /\ Forest!Closed(S) => y \in S
    BY <1>6 DEF Forest!Tree
  <2>2. PICK S \in SUBSET Nodes : S = Subtree(links, x)
    BY DEF Subtree
  <2>3. \A z \in Nodes : z \in S <=> x \in Lineage(links, z)
    BY <2>2 DEF Subtree
  <2>4. x \in S
    BY <1>0, <2>3, LineageParts
  <2>5. Forest!Closed(S)
    <3> SUFFICES ASSUME NEW z \in S, NEW u \in Nodes, Forest!Has(z, u) PROVE u \in S
      BY DEF Forest!Closed
    <3>1. links.parent[u] = z /\ z \in Nodes /\ z # None
      BY <1>0, <1>5
    <3>2. Lineage(links, u) = {u} \cup Lineage(links, z)
      BY <1>0, <3>1, LineageParts
    <3> QED BY <2>3, <3>1, <3>2
  <2> QED BY <2>1, <2>3, <2>4, <2>5
<1>7. ASSUME NEW c \in Nodes PROVE Forest!Without(c) = Kids(Dropped(links, c))
  <2>1. Forest!Without(c) =
          [x \in Nodes |->
             IF Forest!Has(x, c)
             THEN RemoveAt(K[x], CHOOSE k \in DOMAIN K[x] : K[x][k] = c)
             ELSE K[x]]
    BY <1>1 DEF Forest!Without, Forest!RemoveAt, RemoveAt, Kids
  <2>2. ASSUME NEW x \in Nodes
        PROVE  Children(Dropped(links, c), x) =
                 IF Forest!Has(x, c)
                 THEN RemoveAt(K[x], CHOOSE k \in DOMAIN K[x] : K[x][k] = c)
                 ELSE K[x]
    <3>1. PICK s : s = Children(links, x)
      OBVIOUS
    <3>2. s = K[x]
      BY <1>2, <3>1
    <3>3. /\ links.parent[c] # x => Children(Dropped(links, c), x) = s
          /\ \A k \in 1..Len(s) :
               s[k] = c => Children(Dropped(links, c), x) = RemoveAt(s, k)
      BY <3>1, DroppedKids
    <3>4. CASE links.parent[c] # x
      <4>1. ~Forest!Has(x, c)
        BY <1>5, <3>4
      <4> QED BY <3>2, <3>3, <3>4, <4>1
    <3>5. CASE links.parent[c] = x
      <4>1. Forest!Has(x, c) /\ DOMAIN s = 1..Len(s) /\ \E k \in DOMAIN s : s[k] = c
        BY <1>3, <1>5, <3>2, <3>5
      <4>2. PICK k : k = CHOOSE i \in DOMAIN s : s[i] = c
        OBVIOUS
      <4>3. k \in 1..Len(s) /\ s[k] = c
        BY <4>1, <4>2
      <4> QED BY <3>2, <3>3, <4>1, <4>2, <4>3
    <3> QED BY <3>4, <3>5
  <2> QED BY <2>1, <2>2 DEF Kids
<1> QED BY <1>5, <1>6, <1>7

(* What ~Impl does to the sequences is what Clear does to them.            *)
LEMMA ClearedKids ==
  ASSUME NodesAssumption, TreeInv(links), NEW x \in Nodes
  PROVE  Kids(Cleared(links, x)) = [Forest!Without(x) EXCEPT ![x] = <<>>]
<1>1. PICK t, t2 : t = Dropped(links, x) /\ t2 = Pruned(t, x)
  OBVIOUS
<1>2. TreeInv(t)
  BY <1>1, DroppedTree
<1>3. /\ \A z \in Nodes : z # x => Children(t2, z) = Children(t, z)
      /\ Children(t2, x) = <<>>
  BY <1>1, <1>2, PrunedKids
<1>4. Kids(t2) = [Kids(t) EXCEPT ![x] = <<>>]
  BY <1>3 DEF Kids
<1>5. Forest!Without(x) = Kids(t)
  BY <1>1, ForestFacts
<1> QED BY <1>1, <1>4, <1>5 DEF Cleared

(* A step of the links is a step of the sequences, if it changes them.     *)
LEMMA ForestStep ==
  ASSUME NodesAssumption, TreeInv(links), TreeNext, TreeInv(links')
  PROVE  Kids(links') = Kids(links) \/ Forest!Next
<1> SUFFICES ASSUME Kids(links') # Kids(links) PROVE Forest!Next
  OBVIOUS
<1>0. /\ GoodLinks(links)
      /\ \A x, y \in Nodes : Forest!Has(x, y) <=> links.parent[y] = x
      /\ \A x \in Nodes : \A y \in Forest!Tree(x) : x \in Lineage(links, y)
      /\ \A c \in Nodes : Forest!Without(c) = Kids(Dropped(links, c))
  BY ForestFacts DEF TreeInv
<1>1. ASSUME NEW p \in Nodes, NEW c \in Nodes, Insert(p, c) PROVE Forest!Insert(p, c)
  <2>1. PICK t, t2 : t = Dropped(links, c) /\ t2 = Linked(t, p, c)
    OBVIOUS
  <2>2. c # p /\ c \notin Scenes /\ c \notin Ancestors(links, p) /\ links.parent[c] # p
    BY <1>1 DEF Insert, MayInsert, IsDescendantOf
  <2>3. GoodLinks(t) /\ t.parent[c] = None /\ links' = t2 /\ GoodLinks(t2)
    <3>1. TreeInv(t) /\ t.parent[c] = None
      BY <2>1, DroppedTree
    <3>2. links' = t2
      BY <1>1, <2>1 DEF Insert
    <3> QED BY <3>1, <3>2 DEF TreeInv
  <2>4. /\ \A z \in Nodes : z # p => Children(t2, z) = Children(t, z)
        /\ Children(t2, p) = <<c>> \o Children(t, p)
    BY <2>1, <2>3, LinkedKids
  <2>5. Kids(t2) = [Kids(t) EXCEPT ![p] = <<c>> \o @]
    BY <2>4 DEF Kids
  <2>6. Kids(links') = [Forest!Without(c) EXCEPT ![p] = <<c>> \o @]
    BY <1>0, <2>1, <2>3, <2>5
  <2>7. p \notin Forest!Tree(c)
    <3>1. c \notin Lineage(links, p)
      BY <1>0, <2>2, LineageParts
    <3> QED BY <1>0, <3>1
  <2>8. ~Forest!Has(p, c)
    BY <1>0, <2>2
  <2> QED BY <2>2, <2>6, <2>7, <2>8 DEF Forest!Insert, Kids
<1>2. ASSUME NEW x \in Nodes, Drop(x) PROVE Forest!Drop(x)
  <2>1. Kids(links') = Forest!Without(x)
    BY <1>0, <1>2 DEF Drop
  <2> QED BY <2>1 DEF Forest!Drop, Kids
<1>3. ASSUME NEW x \in Nodes, Prune(x) PROVE Forest!Prune(x)
  <2>1. PICK t : t = Pruned(links, x)
    OBVIOUS
  <2>2. /\ \A z \in Nodes : z # x => Children(t, z) = Children(links, z)
        /\ Children(t, x) = <<>>
    BY <2>1, PrunedKids
  <2>3. Kids(t) = [Kids(links) EXCEPT ![x] = <<>>]
    BY <2>2 DEF Kids
  <2>4. links' = t
    BY <1>3, <2>1 DEF Prune
  <2>5. Kids(links') = [Kids(links) EXCEPT ![x] = <<>>]
    BY <2>3, <2>4
  <2> QED BY <2>5 DEF Forest!Prune, Kids
<1>4. ASSUME NEW x \in Nodes, Destroy(x) PROVE Forest!Clear(x)
  <2>1. Kids(links') = [Forest!Without(x) EXCEPT ![x] = <<>>]
    BY <1>4, ClearedKids DEF Destroy
  <2> QED BY <2>1 DEF Forest!Clear, Kids
<1>5. ASSUME NEW x \in Nodes, NEW other \in Nodes, Assign(x, other)
      PROVE  Forest!Clear(x) \/ \E p \in Nodes : Forest!Join(x, p)
  <2>1. PICK t, p : t = Cleared(links, x) /\ p = t.parent[other]
    OBVIOUS
  <2>2. /\ TreeInv(t) /\ t.parent[x] = None
        /\ \A u \in Nodes : t.parent[u] # x
    BY <2>1, ClearedTree
  <2>3. links' = IF p = None THEN t ELSE Linked(t, p, x)
    BY <1>5, <2>1 DEF Assign
  <2>4. Kids(t) = [Forest!Without(x) EXCEPT ![x] = <<>>]
    BY <2>1, ClearedKids
  <2>5. CASE p = None
    <3>1. Kids(links') = [Forest!Without(x) EXCEPT ![x] = <<>>]
      BY <2>3, <2>4, <2>5
    <3> QED BY <3>1 DEF Forest!Clear, Kids
  <2>6. CASE p # None
    <3>1. p \in Nodes /\ p # x
      BY <2>1, <2>2, <2>6, LineageParts DEF TreeInv
    <3>2. x \notin Scenes
      BY <1>5, <2>1, <2>2, <2>6 DEF Assign, TreeInv
    <3>3. links' = Linked(t, p, x) /\ GoodLinks(t) /\ GoodLinks(Linked(t, p, x))
      BY <2>2, <2>3, <2>6 DEF TreeInv
    <3>4. /\ \A z \in Nodes : z # p => Children(links', z) = Children(t, z)
          /\ Children(links', p) = <<x>> \o Children(t, p)
      BY <2>2, <3>1, <3>3, LinkedKids
    <3>5. Kids(links') = [Kids(t) EXCEPT ![p] = <<x>> \o @]
      BY <3>4 DEF Kids
    <3>6. Kids(links') = [Forest!Without(x) EXCEPT ![x] = <<>>, ![p] = <<x>> \o @]
      <4>1. PICK W : W = Forest!Without(x)
        OBVIOUS
      <4>2. PICK V : V = [W EXCEPT ![x] = <<>>]
        OBVIOUS
      <4>3. V[p] = W[p]
        BY <3>1, <4>2
      <4>4. Kids(links') = [V EXCEPT ![p] = <<x>> \o V[p]]
        BY <2>4, <3>5, <4>1, <4>2
      <4>5. Kids(links') = [W EXCEPT ![x] = <<>>, ![p] = <<x>> \o W[p]]
        BY <4>2, <4>3, <4>4
      <4> QED BY <4>1, <4>5
    <3>7. Forest!Join(x, p)
      BY <3>1, <3>2, <3>6 DEF Forest!Join, Kids
    <3> QED BY <3>1, <3>7
  <2> QED BY <2>5, <2>6
<1>6. \/ \E p, c \in Nodes : Forest!Insert(p, c) \/ Forest!Join(c, p)
      \/ \E x \in Nodes : Forest!Drop(x) \/ Forest!Prune(x) \/ Forest!Clear(x)
  BY <1>1, <1>2, <1>3, <1>4, <1>5 DEF TreeNext
<1>7. [x \in Nodes |-> Children(links, x)]' # [x \in Nodes |-> Children(links, x)]
  BY DEF Kids
<1> QED BY <1>6, <1>7 DEF Forest!Next

(* At first no node has children.                                          *)
LEMMA ForestInit ==
  ASSUME NodesAssumption, TreeInit
  PROVE  Forest!Init
<1>1. GoodLinks(links)
  BY InitTree DEF TreeInv
<1>2. ASSUME NEW x \in Nodes PROVE Children(links, x) = <<>>
  <2>1. PICK s : s = Children(links, x)
    OBVIOUS
  <2>2. Chain(links.nextSib, links.child[x], s)
    BY <1>1, <2>1, ChildrenChain
  <2>3. links.child[x] = None
    BY DEF TreeInit
  <2>4. s \in Seq(Nodes) /\ (Len(s) # 0 => s[1] = None)
    BY <2>2, <2>3 DEF Chain
  <2>5. Len(s) \in Nat /\ \A i \in 1..Len(s) : s[i] # None
    BY <2>4, LenProperties, ElementOfSeq, NodesAssumption DEF NodesAssumption
  <2>6. Len(s) = 0
    BY <2>4, <2>5
  <2> QED BY <2>1, <2>4, <2>6, EmptySeq
<1> QED BY <1>2 DEF Forest!Init

(* Whatever the calls, the links implement sequences of descendants, the   *)
(* most recently inserted first, that form a forest (Node::insert, drop,   *)
(* prune, operator=, ~Node and children).                                  *)
THEOREM ForestKept == TreeSpec => KeepsForest
<1>1. TreeInit => TreeInv(links) /\ Forest!Init
  BY NodesAssumption, InitTree, ForestInit
<1>2. TreeInv(links) /\ [TreeNext]_links => TreeInv(links)'
  <2>1. CASE TreeNext
    BY <2>1, NodesAssumption, TreeStep
  <2>2. CASE UNCHANGED links
    BY <2>2
  <2> QED BY <2>1, <2>2
<1>3. TreeInv(links) /\ TreeInv(links)' /\ [TreeNext]_links
        => [Forest!Next]_([x \in Nodes |-> Children(links, x)])
  <2> SUFFICES ASSUME TreeInv(links), TreeInv(links)', [TreeNext]_links
               PROVE  [x \in Nodes |-> Children(links, x)]'
                        = [x \in Nodes |-> Children(links, x)] \/ Forest!Next
    OBVIOUS
  <2>1. CASE TreeNext
    <3>1. Kids(links') = Kids(links) \/ Forest!Next
      BY <2>1, NodesAssumption, ForestStep
    <3> QED BY <3>1 DEF Kids
  <2>2. CASE UNCHANGED links
    BY <2>2
  <2> QED BY <2>1, <2>2
<1> QED BY <1>1, <1>2, <1>3, PTL DEF TreeSpec, KeepsForest, Forest!Spec

(* The forest is kept too with scenes, worlds and bodies, and all that     *)
(* clients may do to them.                                                 *)
THEOREM ScenesKeepForest == PhysSpec => KeepsForest
<1>1. PhysInit => TreeInit
  BY DEF PhysInit
<1>2. [PhysNext]_physVars => [TreeNext]_links
  BY NodesAssumption, PhysIsTree
<1>3. PhysSpec => TreeSpec
  BY <1>1, <1>2, PTL DEF PhysSpec, TreeSpec
<1> QED BY <1>3, ForestKept, PTL

-----------------------------------------------------------------------------
(* The memory of meshes.                                                   *)

(***************************************************************************)
(* A list and what it holds.  The properties count the segments and the    *)
(* entries that cover each unit; the proofs are about the sets of units.   *)
(***************************************************************************)
Good(e) == e \in Ranges /\ e.size > 0 /\ End(e) <= BufferSize

Units(e) == {x \in 0..(BufferSize - 1) : Covers(e, x)}

Free(segs) ==
  {x \in 0..(BufferSize - 1) : \E i \in 1..Len(segs) : Covers(segs[i], x)}

ListRight(segs) ==
  /\ segs \in Seq(Ranges)
  /\ \A i \in 1..Len(segs) : Good(segs[i])
  /\ \A i, j \in 1..Len(segs) : i < j => End(segs[i]) < segs[j].offset

(* A list whose segments after the first a, up to b, gave way to s.        *)
Spliced(segs, a, b, s) ==
  SubSeq(segs, 1, a) \o <<s>> \o SubSeq(segs, b + 1, Len(segs))

(* What becomes of the places of a list.                                   *)
LEMMA SplicedPlaces ==
  ASSUME NEW segs \in Seq(Ranges), NEW s \in Ranges,
         NEW a \in 0..Len(segs), NEW b \in a..Len(segs),
         NEW new, new = Spliced(segs, a, b, s)
  PROVE  /\ new \in Seq(Ranges) /\ Len(new) = a + 1 + (Len(segs) - b)
         /\ \A i \in 1..a : new[i] = segs[i]
         /\ new[a + 1] = s
         /\ \A i \in (a + 2)..Len(new) : new[i] = segs[i - (a + 1) + b]
<1>0. PICK n : n = a + 1 + (Len(segs) - b)
  OBVIOUS
<1>1. PICK p, q, r : /\ p = SubSeq(segs, 1, a) /\ q = SubSeq(segs, b + 1, Len(segs))
                     /\ r = p \o <<s>>
  OBVIOUS
<1>2. /\ p \in Seq(Ranges) /\ Len(p) = a /\ \A i \in 1..a : p[i] = segs[i]
  BY <1>1
<1>3. /\ q \in Seq(Ranges) /\ Len(q) = Len(segs) - b
      /\ \A i \in 1..(Len(segs) - b) : q[i] = segs[b + i]
  BY <1>1
<1>4. /\ r \in Seq(Ranges) /\ Len(r) = a + 1 /\ r[a + 1] = s
      /\ \A i \in 1..a : r[i] = p[i]
  BY <1>1, <1>2
<1>5. new = r \o q
  BY <1>1 DEF Spliced
<1>6. /\ new \in Seq(Ranges) /\ Len(new) = n /\ n \in Nat
      /\ \A i \in 1..(a + 1) : new[i] = r[i]
      /\ \A i \in (a + 2)..n : new[i] = q[i - (a + 1)]
  <2>1. Len(segs) \in Nat /\ n \in Nat /\ n = Len(r) + Len(q)
    BY <1>0, <1>3, <1>4, LenProperties
  <2>2. /\ r \o q \in Seq(Ranges) /\ Len(r \o q) = Len(r) + Len(q)
        /\ \A i \in 1..(Len(r) + Len(q)) :
             (r \o q)[i] = IF i <= Len(r) THEN r[i] ELSE q[i - Len(r)]
    BY <1>3, <1>4, ConcatProperties
  <2>3. /\ new \in Seq(Ranges) /\ Len(new) = n
        /\ \A i \in 1..n : new[i] = IF i <= a + 1 THEN r[i] ELSE q[i - (a + 1)]
    BY <1>4, <1>5, <2>1, <2>2, Zenon
  <2>4. \A i \in 1..(a + 1) : i \in 1..n /\ i <= a + 1
    BY <1>0, <2>1
  <2>5. \A i \in (a + 2)..n : i \in 1..n /\ ~(i <= a + 1)
    BY <2>1
  <2> QED BY <2>1, <2>3, <2>4, <2>5
<1>7. \A i \in 1..a : new[i] = segs[i]
  BY <1>2, <1>4, <1>6
<1>8. new[a + 1] = s
  BY <1>4, <1>6
<1>9. \A i \in (a + 2)..n : new[i] = segs[i - (a + 1) + b]
  <2> TAKE i \in (a + 2)..n
  <2>1. Len(segs) \in Nat
    BY LenProperties
  <2>2. i - (a + 1) \in 1..(Len(segs) - b)
    BY <1>0, <2>1
  <2>3. PICK k : k = i - (a + 1)
    OBVIOUS
  <2>4. k \in 1..(Len(segs) - b) /\ b + k = k + b
    BY <2>1, <2>2, <2>3
  <2>5. q[k] = segs[b + k]
    BY <1>3, <2>4, Zenon
  <2> QED BY <1>6, <2>3, <2>4, <2>5
<1> QED BY <1>0, <1>6, <1>7, <1>8, <1>9

(* A range between two others keeps a list right.                          *)
LEMMA SplicedRight ==
  ASSUME NEW segs, ListRight(segs), NEW s, Good(s),
         NEW a \in 0..Len(segs), NEW b \in a..Len(segs),
         a > 0 => End(segs[a]) < s.offset,
         b < Len(segs) => End(s) < segs[b + 1].offset
  PROVE  /\ ListRight(Spliced(segs, a, b, s))
         /\ \A x \in 0..(BufferSize - 1) :
              x \in Free(Spliced(segs, a, b, s)) <=>
                \/ Covers(s, x)
                \/ \E i \in 1..Len(segs) : (i <= a \/ i > b) /\ Covers(segs[i], x)
<1>1. PICK new, l, n : /\ new = Spliced(segs, a, b, s) /\ l = Len(segs)
                       /\ n = a + 1 + (l - b)
  OBVIOUS
<1>2. /\ segs \in Seq(Ranges) /\ s \in Ranges /\ l \in Nat
      /\ a \in 0..l /\ b \in a..l
  BY <1>1 DEF ListRight, Good
<1>3. /\ new \in Seq(Ranges) /\ Len(new) = n /\ n \in Nat
      /\ \A i \in 1..a : new[i] = segs[i]
      /\ new[a + 1] = s
      /\ \A i \in (a + 2)..n : new[i] = segs[i - (a + 1) + b]
  <2>1. /\ segs \in Seq(Ranges) /\ s \in Ranges
        /\ a \in 0..Len(segs) /\ b \in a..Len(segs)
        /\ new = Spliced(segs, a, b, s)
    BY <1>1, <1>2
  <2>2. /\ new \in Seq(Ranges) /\ Len(new) = a + 1 + (Len(segs) - b)
    BY <2>1, SplicedPlaces
  <2>3. \A i \in 1..a : new[i] = segs[i]
    BY <2>1, SplicedPlaces
  <2>4. new[a + 1] = s
    BY <2>1, SplicedPlaces
  <2>5. \A i \in (a + 2)..Len(new) : new[i] = segs[i - (a + 1) + b]
    BY <2>1, SplicedPlaces
  <2> QED BY <1>1, <1>2, <2>2, <2>3, <2>4, <2>5
<1>4. /\ \A i \in 1..l : Good(segs[i])
      /\ \A i, j \in 1..l : i < j => End(segs[i]) < segs[j].offset
  BY <1>1 DEF ListRight
<1>5. \A i \in 1..l : /\ segs[i].offset \in Nat /\ segs[i].size \in Nat
                      /\ End(segs[i]) \in Nat /\ segs[i].offset < End(segs[i])
  <2> TAKE i \in 1..l
  <2>1. segs[i].offset \in 0..BufferSize /\ segs[i].size \in 0..BufferSize
        /\ segs[i].size > 0
    BY <1>4 DEF Good, Ranges
  <2> QED BY <2>1, SegmentsAssumption DEF End
<1>6. s.offset \in Nat /\ End(s) \in Nat /\ s.offset < End(s)
  BY SegmentsAssumption DEF Good, Ranges, End
<1>7. ASSUME NEW i \in 1..l, i <= a PROVE End(segs[i]) < s.offset
  <2>1. End(segs[a]) < s.offset /\ a \in 1..l
    BY <1>2, <1>7
  <2>2. i < a => End(segs[i]) < segs[a].offset
    BY <1>4, <2>1
  <2> QED BY <1>5, <1>6, <1>7, <2>1, <2>2
<1>8. ASSUME NEW i \in 1..l, i > b PROVE End(s) < segs[i].offset
  <2>1. End(s) < segs[b + 1].offset /\ b + 1 \in 1..l
    BY <1>1, <1>2, <1>8
  <2>2. i > b + 1 => End(segs[b + 1]) < segs[i].offset
    BY <1>2, <1>4, <2>1
  <2>3. i = b + 1 \/ i > b + 1
    BY <1>2, <1>8
  <2> QED BY <1>5, <1>6, <2>1, <2>2, <2>3
(* Where each place of the new list comes from.                            *)
<1>9. ASSUME NEW i \in 1..n
      PROVE  \/ i <= a /\ i \in 1..l /\ new[i] = segs[i]
             \/ i = a + 1 /\ new[i] = s
             \/ /\ i > a + 1 /\ i - (a + 1) + b \in 1..l /\ i - (a + 1) + b > b
                /\ new[i] = segs[i - (a + 1) + b]
  <2>1. i \in 1..a \/ i = a + 1 \/ i \in (a + 2)..n
    BY <1>2
  <2>2. ASSUME i \in (a + 2)..n
        PROVE  i - (a + 1) + b \in 1..l /\ i - (a + 1) + b > b
    BY <1>1, <1>2, <2>2
  <2> QED BY <1>2, <1>3, <2>1, <2>2
<1>10. \A i \in 1..n : Good(new[i])
  BY <1>4, <1>9
<1>11. ASSUME NEW i \in 1..n, NEW j \in 1..n, i < j
       PROVE  End(new[i]) < new[j].offset
  <2>1. CASE j <= a
    BY <1>4, <1>9, <1>11, <2>1, <1>2
  <2>2. CASE j = a + 1
    <3>1. i <= a /\ i \in 1..l /\ new[i] = segs[i] /\ new[j] = s
      BY <1>2, <1>9, <1>11, <2>2
    <3> QED BY <1>7, <3>1
  <2>3. CASE j > a + 1
    <3>1. PICK k : /\ k = j - (a + 1) + b /\ k \in 1..l /\ k > b /\ new[j] = segs[k]
      BY <1>2, <1>9, <2>3
    <3>2. CASE i = a + 1
      BY <1>2, <1>8, <1>9, <3>1, <3>2
    <3>3. CASE i <= a
      <4>1. i \in 1..l /\ new[i] = segs[i] /\ i < k
        BY <1>2, <1>9, <3>1, <3>3
      <4> QED BY <1>4, <3>1, <4>1
    <3>4. CASE i > a + 1
      <4>1. PICK m : m = i - (a + 1) + b /\ m \in 1..l /\ new[i] = segs[m]
        BY <1>2, <1>9, <3>4
      <4>2. m < k
        BY <1>2, <1>11, <3>1, <4>1
      <4> QED BY <1>4, <3>1, <4>1, <4>2
    <3> QED BY <1>2, <3>2, <3>3, <3>4
  <2> QED BY <1>2, <2>1, <2>2, <2>3
<1>12. ListRight(new)
  BY <1>3, <1>10, <1>11 DEF ListRight
<1>13. ASSUME NEW x \in 0..(BufferSize - 1)
       PROVE  x \in Free(new) <=>
                \/ Covers(s, x)
                \/ \E i \in 1..l : (i <= a \/ i > b) /\ Covers(segs[i], x)
  <2>1. ASSUME NEW j \in 1..n, Covers(new[j], x)
        PROVE  \/ Covers(s, x)
               \/ \E i \in 1..l : (i <= a \/ i > b) /\ Covers(segs[i], x)
    BY <1>9, <2>1
  <2>2. ASSUME Covers(s, x) PROVE \E j \in 1..n : Covers(new[j], x)
    <3>1. a + 1 \in 1..n
      BY <1>1, <1>2
    <3> QED BY <1>3, <2>2, <3>1
  <2>3. ASSUME NEW i \in 1..l, i <= a \/ i > b, Covers(segs[i], x)
        PROVE  \E j \in 1..n : Covers(new[j], x)
    <3>1. CASE i <= a
      <4>1. i \in 1..n /\ i \in 1..a
        BY <1>1, <1>2, <3>1
      <4> QED BY <1>3, <2>3, <4>1
    <3>2. CASE i > b
      <4>1. PICK j : j = i - b + (a + 1)
        OBVIOUS
      <4>2. j \in 1..n /\ j \in (a + 2)..n /\ j - (a + 1) + b = i
        BY <1>1, <1>2, <3>2, <4>1
      <4>3. new[j] = segs[i]
        BY <1>3, <4>2
      <4> QED BY <2>3, <4>2, <4>3
    <3> QED BY <2>3, <3>1, <3>2
  <2> QED BY <1>3, <2>1, <2>2, <2>3 DEF Free
<1> QED BY <1>1, <1>12, <1>13

(* The numbers that a list and a range are made of.                        *)
LEMMA ListNumbers ==
  ASSUME NEW segs, ListRight(segs)
  PROVE  /\ segs \in Seq(Ranges) /\ Len(segs) \in Nat /\ DOMAIN segs = 1..Len(segs)
         /\ \A i \in 1..Len(segs) :
              /\ Good(segs[i])
              /\ segs[i].offset \in Nat /\ segs[i].size \in Nat
              /\ End(segs[i]) \in Nat /\ segs[i].offset < End(segs[i])
              /\ End(segs[i]) <= BufferSize
<1>1. segs \in Seq(Ranges) /\ \A i \in 1..Len(segs) : Good(segs[i])
  BY DEF ListRight
<1>2. Len(segs) \in Nat /\ DOMAIN segs = 1..Len(segs)
  BY <1>1, LenProperties
<1>3. ASSUME NEW i \in 1..Len(segs)
      PROVE  /\ segs[i].offset \in 0..BufferSize /\ segs[i].size \in 0..BufferSize
             /\ segs[i].size > 0 /\ End(segs[i]) <= BufferSize
  BY <1>1 DEF Good, Ranges
<1> QED BY <1>1, <1>2, <1>3, SegmentsAssumption DEF End

(* The numbers that one range is made of.                                  *)
LEMMA RangeNumbers ==
  ASSUME NEW e, Good(e)
  PROVE  /\ e \in Ranges /\ e.offset \in Nat /\ e.size \in Nat /\ End(e) \in Nat
         /\ e.offset < End(e) /\ End(e) <= BufferSize /\ e.size = End(e) - e.offset
<1>1. e \in Ranges /\ e.offset \in 0..BufferSize /\ e.size \in 0..BufferSize
      /\ e.size > 0 /\ End(e) <= BufferSize
  BY DEF Good, Ranges
<1> QED BY <1>1, SegmentsAssumption DEF End

(* The search in yieldEntry stops between the segments that begin before   *)
(* the end of the entry and those that do not.                             *)
LEMMA PassedRight ==
  ASSUME NEW segs, ListRight(segs), NEW e, Good(e)
  PROVE  /\ Passed(segs, e) \in 0..Len(segs)
         /\ \A i \in 1..Len(segs) : i <= Passed(segs, e) => segs[i].offset < End(e)
         /\ \A i \in 1..Len(segs) : i > Passed(segs, e) => segs[i].offset >= End(e)
<1> DEFINE Stops(n) == /\ \A i \in 1..n : segs[i].offset < End(e)
                       /\ n < Len(segs) => segs[n + 1].offset >= End(e)
           Later == {i \in 1..Len(segs) : segs[i].offset >= End(e)}
<1>1. /\ Len(segs) \in Nat /\ End(e) \in Nat
      /\ \A i \in 1..Len(segs) : segs[i].offset \in Nat /\ End(segs[i]) \in Nat
                                 /\ segs[i].offset < End(segs[i])
  BY ListNumbers, RangeNumbers
<1>2. \E n \in 0..Len(segs) : Stops(n)
  <2>1. CASE Later = {}
    <3>1. Stops(Len(segs))
      BY <1>1, <2>1
    <3> QED BY <1>1, <3>1
  <2>2. CASE Later # {}
    <3>1. PICK m \in Later : \A i \in Later : m <= i
      <4>1. Later \in SUBSET Nat
        BY <1>1
      <4> HIDE DEF Later
      <4> QED BY <2>2, <4>1, LeastNumber
    <3>2. PICK n : n = m - 1
      OBVIOUS
    <3>3. n \in 0..Len(segs) /\ n + 1 = m /\ segs[n + 1].offset >= End(e)
      BY <1>1, <3>1, <3>2
    <3>4. ASSUME NEW i \in 1..n PROVE segs[i].offset < End(e)
      <4>1. i \in 1..Len(segs) /\ i \notin Later
        BY <1>1, <3>1, <3>2
      <4> QED BY <1>1, <4>1
    <3> QED BY <3>3, <3>4
  <2> QED BY <2>1, <2>2
<1>3. PICK n : n = Passed(segs, e)
  OBVIOUS
<1>4. n \in 0..Len(segs) /\ Stops(n)
  <2>1. Passed(segs, e) = CHOOSE m \in 0..Len(segs) : Stops(m)
    BY DEF Passed
  <2> HIDE DEF Stops
  <2> QED BY <1>2, <1>3, <2>1
<1>5. \A i \in 1..Len(segs) : i <= n => segs[i].offset < End(e)
  BY <1>1, <1>4
<1>6. ASSUME NEW i \in 1..Len(segs), i > n PROVE segs[i].offset >= End(e)
  <2>1. n + 1 \in 1..Len(segs) /\ segs[n + 1].offset >= End(e)
    BY <1>1, <1>4, <1>6
  <2>2. i > n + 1 => End(segs[n + 1]) < segs[i].offset
    BY <2>1 DEF ListRight
  <2>3. i = n + 1 \/ i > n + 1
    BY <1>1, <1>4, <1>6
  <2> QED BY <1>1, <2>1, <2>2, <2>3
<1> QED BY <1>3, <1>4, <1>5, <1>6

(* A range that shares no unit with a list lies between its segments.      *)
LEMMA Between ==
  ASSUME NEW segs, ListRight(segs), NEW e, Good(e), Free(segs) \cap Units(e) = {},
         NEW i \in 1..Len(segs)
  PROVE  /\ segs[i].offset < End(e) => End(segs[i]) <= e.offset
         /\ i <= Passed(segs, e) => End(segs[i]) <= e.offset
         /\ i > Passed(segs, e) => End(e) <= segs[i].offset
<1>1. /\ segs[i].offset \in Nat /\ End(segs[i]) \in Nat
      /\ segs[i].offset < End(segs[i]) /\ End(segs[i]) <= BufferSize
      /\ e.offset \in Nat /\ End(e) \in Nat /\ e.offset < End(e) /\ End(e) <= BufferSize
  BY ListNumbers, RangeNumbers
<1>2. ASSUME segs[i].offset < End(e) PROVE End(segs[i]) <= e.offset
  <2>1. \A x \in 0..(BufferSize - 1) : ~(Covers(segs[i], x) /\ Covers(e, x))
    BY DEF Free, Units
  <2>2. CASE segs[i].offset <= e.offset
    <3>1. e.offset \in 0..(BufferSize - 1)
      BY <1>1, SegmentsAssumption
    <3> QED BY <1>1, <2>1, <2>2, <3>1 DEF Covers
  <2>3. CASE segs[i].offset > e.offset
    <3>1. segs[i].offset \in 0..(BufferSize - 1)
      BY <1>1, SegmentsAssumption
    <3> QED BY <1>1, <1>2, <2>1, <2>3, <3>1 DEF Covers
  <2> QED BY <1>1, <2>2, <2>3
<1> QED BY <1>1, <1>2, PassedRight

(* The segments before and after the place where the search stops.         *)
LEMMA Halves ==
  ASSUME NEW S, NEW segs \in Seq(S), NEW n \in 0..Len(segs)
  PROVE  /\ n = 0 => SubSeq(segs, 1, n) = <<>>
         /\ n > 0 => /\ SubSeq(segs, 1, n) # <<>> /\ Last(SubSeq(segs, 1, n)) = segs[n]
                     /\ Front(SubSeq(segs, 1, n)) = SubSeq(segs, 1, n - 1)
         /\ n = Len(segs) => SubSeq(segs, n + 1, Len(segs)) = <<>>
         /\ n < Len(segs) =>
              /\ SubSeq(segs, n + 1, Len(segs)) # <<>>
              /\ Head(SubSeq(segs, n + 1, Len(segs))) = segs[n + 1]
              /\ Tail(SubSeq(segs, n + 1, Len(segs))) = SubSeq(segs, n + 2, Len(segs))
<1>1. PICK p, q : p = SubSeq(segs, 1, n) /\ q = SubSeq(segs, n + 1, Len(segs))
  OBVIOUS
<1>2. Len(segs) \in Nat /\ \A i \in 1..Len(segs) : segs[i] \in S
  BY LenProperties
<1>3. p \in Seq(S) /\ Len(p) = n /\ \A i \in 1..n : p[i] = segs[i]
  BY <1>1, <1>2
<1>4. /\ q \in Seq(S) /\ Len(q) = Len(segs) - n
      /\ \A i \in 1..(Len(segs) - n) : q[i] = segs[n + i]
  BY <1>1, <1>2
<1>5. n = 0 => p = <<>>
  BY <1>3, EmptySeq
<1>6. ASSUME n > 0
      PROVE  p # <<>> /\ Last(p) = segs[n] /\ Front(p) = SubSeq(segs, 1, n - 1)
  <2>1. p # <<>> /\ Last(p) = segs[n]
    BY <1>3, <1>6, EmptySeq DEF Last
  <2>2. PICK f, g : f = SubSeq(p, 1, n - 1) /\ g = SubSeq(segs, 1, n - 1)
    OBVIOUS
  <2>3. f \in Seq(S) /\ Len(f) = n - 1 /\ \A i \in 1..(n - 1) : f[i] = p[i]
    BY <1>3, <1>6, <2>2
  <2>4. g \in Seq(S) /\ Len(g) = n - 1 /\ \A i \in 1..(n - 1) : g[i] = segs[i]
    BY <1>2, <1>6, <2>2
  <2>5. f = g
    BY <1>3, <2>3, <2>4, SeqEqual
  <2> QED BY <1>3, <2>1, <2>2, <2>5 DEF Front
<1>7. n = Len(segs) => q = <<>>
  BY <1>2, <1>4, EmptySeq
<1>8. ASSUME n < Len(segs)
      PROVE  q # <<>> /\ Head(q) = segs[n + 1] /\ Tail(q) = SubSeq(segs, n + 2, Len(segs))
  <2>1. q # <<>> /\ Head(q) = segs[n + 1]
    <3>1. q # <<>> /\ Head(q) = q[1] /\ 1 \in 1..(Len(segs) - n)
      BY <1>2, <1>4, <1>8, EmptySeq
    <3>2. q[1] = segs[n + 1]
      BY <1>4, <3>1
    <3> QED BY <3>1, <3>2
  <2>2. PICK f, g : f = Tail(q) /\ g = SubSeq(segs, n + 2, Len(segs))
    OBVIOUS
  <2>3. /\ f \in Seq(S) /\ Len(f) = Len(segs) - n - 1
        /\ \A i \in 1..(Len(segs) - n - 1) : f[i] = q[i + 1]
    BY <1>2, <1>4, <2>1, <2>2, HeadTailProperties
  <2>4. /\ g \in Seq(S) /\ Len(g) = Len(segs) - n - 1
        /\ \A i \in 1..(Len(segs) - n - 1) : g[i] = segs[n + 1 + i]
    BY <1>2, <1>8, <2>2
  <2>5. \A i \in 1..(Len(segs) - n - 1) : f[i] = g[i]
    <3> TAKE i \in 1..(Len(segs) - n - 1)
    <3>1. i + 1 \in 1..(Len(segs) - n) /\ n + (i + 1) = n + 1 + i
      BY <1>2
    <3> QED BY <1>4, <2>3, <2>4, <3>1
  <2>6. f = g
    BY <2>3, <2>4, <2>5, SeqEqual
  <2> QED BY <2>1, <2>2, <2>6
<1> QED BY <1>1, <1>5, <1>6, <1>7, <1>8

(* The four ways to give a range back are one: the new segment takes the   *)
(* place of those that it touches.                                         *)
LEMMA JoinedSpliced ==
  ASSUME NEW segs, ListRight(segs), NEW e, Good(e),
         NEW n, n = Passed(segs, e), n \in 0..Len(segs)
  PROVE  \E a, b, s :
           /\ \/ n > 0 /\ End(segs[n]) = e.offset /\ a = n - 1 /\ s.offset = segs[n].offset
              \/ ~(n > 0 /\ End(segs[n]) = e.offset) /\ a = n /\ s.offset = e.offset
           /\ \/ /\ n < Len(segs) /\ segs[n + 1].offset = End(e)
                 /\ b = n + 1 /\ s.size = End(segs[n + 1]) - s.offset
              \/ /\ ~(n < Len(segs) /\ segs[n + 1].offset = End(e))
                 /\ b = n /\ s.size = End(e) - s.offset
           /\ s = [offset |-> s.offset, size |-> s.size]
           /\ Joined(Before(segs, e), e, After(segs, e)) = Spliced(segs, a, b, s)
<1>1. PICK p, q, l : p = Before(segs, e) /\ q = After(segs, e) /\ l = Len(segs)
  OBVIOUS
<1>2. /\ n = 0 => p = <<>>
      /\ n > 0 => p # <<>> /\ Last(p) = segs[n] /\ Front(p) = SubSeq(segs, 1, n - 1)
      /\ n = l => q = <<>>
      /\ n < l => /\ q # <<>> /\ Head(q) = segs[n + 1]
                  /\ Tail(q) = SubSeq(segs, n + 2, l)
      /\ p = SubSeq(segs, 1, n) /\ q = SubSeq(segs, n + 1, l)
  <2>1. segs \in Seq(Ranges)
    BY DEF ListRight
  <2> QED BY <1>1, <2>1, Halves DEF Before, After
<1>3. l \in Nat /\ n \in 0..l
  BY <1>1, ListNumbers
<1>4. PICK jp, jn, o, d, s :
        /\ jp = (n > 0 /\ End(segs[n]) = e.offset)
        /\ jn = (n < l /\ segs[n + 1].offset = End(e))
        /\ o = (IF jp THEN segs[n].offset ELSE e.offset)
        /\ d = (IF jn THEN End(segs[n + 1]) ELSE End(e)) - o
        /\ s = [offset |-> o, size |-> d]
  OBVIOUS
<1>5. /\ (p # <<>> /\ End(Last(p)) = e.offset) <=> jp
      /\ (q # <<>> /\ Head(q).offset = End(e)) <=> jn
  <2>1. (n = 0 \/ n > 0) /\ (n = l \/ n < l) /\ ~(n = 0 /\ n > 0) /\ ~(n = l /\ n < l)
    BY <1>3
  <2>2. /\ jp <=> n > 0 /\ End(segs[n]) = e.offset
        /\ jn <=> n < l /\ segs[n + 1].offset = End(e)
    BY <1>4
  <2> QED BY <1>2, <2>1, <2>2, Zenon
<1>6. Joined(p, e, q) =
        (IF jp THEN Front(p) ELSE p) \o <<s>> \o (IF jn THEN Tail(q) ELSE q)
  <2>1. /\ (IF jp THEN Last(p).offset ELSE e.offset) = o
        /\ (IF jn THEN End(Head(q)) ELSE End(e)) - o = d
    BY <1>2, <1>3, <1>4
  <2> QED BY <1>4, <1>5, <2>1 DEF Joined
<1>7. PICK a, b : a = (IF jp THEN n - 1 ELSE n) /\ b = (IF jn THEN n + 1 ELSE n)
  OBVIOUS
<1>8. (IF jp THEN Front(p) ELSE p) = SubSeq(segs, 1, a)
  BY <1>2, <1>4, <1>7
<1>9. (IF jn THEN Tail(q) ELSE q) = SubSeq(segs, b + 1, l)
  <2>1. n + 1 + 1 = n + 2
    BY <1>3
  <2> QED BY <1>2, <1>4, <1>7, <2>1
<1>10. Joined(p, e, q) = Spliced(segs, a, b, s)
  BY <1>1, <1>6, <1>8, <1>9 DEF Spliced
<1>11. \/ n > 0 /\ End(segs[n]) = e.offset /\ a = n - 1 /\ s.offset = segs[n].offset
       \/ ~(n > 0 /\ End(segs[n]) = e.offset) /\ a = n /\ s.offset = e.offset
  BY <1>4, <1>7
<1>12. \/ /\ n < l /\ segs[n + 1].offset = End(e)
          /\ b = n + 1 /\ s.size = End(segs[n + 1]) - s.offset
       \/ /\ ~(n < l /\ segs[n + 1].offset = End(e))
          /\ b = n /\ s.size = End(e) - s.offset
  BY <1>4, <1>7
<1> QED BY <1>1, <1>4, <1>10, <1>11, <1>12

(* yieldEntry(): the list stays right, and what was held is free.          *)
LEMMA YieldedRight ==
  ASSUME NEW segs, ListRight(segs), NEW e, Good(e), Free(segs) \cap Units(e) = {}
  PROVE  /\ ListRight(Yielded(segs, e))
         /\ Free(Yielded(segs, e)) = Free(segs) \cup Units(e)
<1>1. PICK n, l, new : n = Passed(segs, e) /\ l = Len(segs) /\ new = Yielded(segs, e)
  OBVIOUS
<1>2. /\ l \in Nat /\ n \in 0..l
      /\ \A i \in 1..l : i <= n => End(segs[i]) <= e.offset
      /\ \A i \in 1..l : i > n => End(e) <= segs[i].offset
  BY <1>1, ListNumbers, PassedRight, Between
<1>3. \A i \in 1..l : /\ segs[i].offset \in Nat /\ End(segs[i]) \in Nat
                      /\ segs[i].offset < End(segs[i]) /\ End(segs[i]) <= BufferSize
  BY <1>1, ListNumbers
<1>4. /\ e.offset \in Nat /\ End(e) \in Nat /\ e.offset < End(e) /\ End(e) <= BufferSize
      /\ BufferSize \in Nat
  BY RangeNumbers, SegmentsAssumption
<1>5. \A i, j \in 1..l : i < j => End(segs[i]) < segs[j].offset
  BY <1>1 DEF ListRight
<1>6. new = Joined(Before(segs, e), e, After(segs, e))
  <2>1. e # NoEntry
    BY RangeNumbers, SegmentsAssumption DEF Ranges
  <2> QED BY <1>1, <2>1 DEF Yielded
<1>7. PICK a, b, s :
        /\ \/ n > 0 /\ End(segs[n]) = e.offset /\ a = n - 1 /\ s.offset = segs[n].offset
           \/ ~(n > 0 /\ End(segs[n]) = e.offset) /\ a = n /\ s.offset = e.offset
        /\ \/ /\ n < l /\ segs[n + 1].offset = End(e)
              /\ b = n + 1 /\ s.size = End(segs[n + 1]) - s.offset
           \/ /\ ~(n < l /\ segs[n + 1].offset = End(e))
              /\ b = n /\ s.size = End(e) - s.offset
        /\ s = [offset |-> s.offset, size |-> s.size]
        /\ new = Spliced(segs, a, b, s)
  BY <1>1, <1>2, <1>6, JoinedSpliced
<1>8. a \in 0..l /\ b \in a..l
  BY <1>2, <1>7
<1>9. s.offset \in Nat /\ s.offset <= e.offset
  BY <1>2, <1>3, <1>4, <1>7
<1>10. /\ End(s) = IF b = n THEN End(e) ELSE End(segs[n + 1])
       /\ End(s) \in Nat /\ End(e) <= End(s) /\ End(s) <= BufferSize
  <2>1. CASE b = n
    BY <1>2, <1>4, <1>7, <1>9, <2>1 DEF End
  <2>2. CASE b # n
    <3>1. n + 1 \in 1..l /\ s.size = End(segs[n + 1]) - s.offset
          /\ segs[n + 1].offset = End(e)
      BY <1>2, <1>7, <2>2
    <3>2. End(s) = End(segs[n + 1])
      BY <1>3, <1>9, <3>1 DEF End
    <3> QED BY <1>3, <1>4, <2>2, <3>1, <3>2
  <2> QED BY <2>1, <2>2
<1>11. Good(s)
  <2>1. s.offset \in 0..BufferSize /\ s.size \in 0..BufferSize /\ s.size > 0
    <3>1. End(s) = s.offset + s.size /\ s.size \in Int
      <4>1. s.size = End(e) - s.offset \/ (n + 1 \in 1..l /\ s.size = End(segs[n + 1]) - s.offset)
        BY <1>2, <1>7
      <4> QED BY <1>3, <1>4, <1>9, <4>1 DEF End
    <3> QED BY <1>4, <1>9, <1>10, <3>1
  <2> QED BY <1>7, <1>10, <2>1 DEF Good, Ranges
<1>12. ASSUME a > 0 PROVE End(segs[a]) < s.offset
  <2>1. CASE a = n
    <3>1. a \in 1..l /\ End(segs[a]) <= e.offset /\ End(segs[a]) # e.offset
          /\ s.offset = e.offset
      BY <1>2, <1>7, <1>8, <1>12, <2>1
    <3> QED BY <1>3, <1>4, <3>1
  <2>2. CASE a # n
    <3>1. a \in 1..l /\ n \in 1..l /\ a < n /\ s.offset = segs[n].offset
      BY <1>2, <1>7, <1>8, <1>12, <2>2
    <3> QED BY <1>5, <3>1
  <2> QED BY <2>1, <2>2
<1>13. ASSUME b < l PROVE End(s) < segs[b + 1].offset
  <2>1. CASE b = n
    <3>1. b + 1 \in 1..l /\ End(e) <= segs[b + 1].offset /\ End(e) # segs[b + 1].offset
      BY <1>2, <1>7, <1>8, <1>13, <2>1
    <3> QED BY <1>3, <1>4, <1>10, <2>1, <3>1
  <2>2. CASE b # n
    <3>1. b + 1 \in 1..l /\ n + 1 \in 1..l /\ n + 1 < b + 1
      BY <1>2, <1>7, <1>8, <1>13, <2>2
    <3> QED BY <1>5, <1>10, <2>2, <3>1
  <2> QED BY <2>1, <2>2
<1>14. /\ ListRight(new)
       /\ \A x \in 0..(BufferSize - 1) :
            x \in Free(new) <=>
              \/ Covers(s, x)
              \/ \E i \in 1..l : (i <= a \/ i > b) /\ Covers(segs[i], x)
  <2>1. a \in 0..Len(segs) /\ b \in a..Len(segs)
        /\ (a > 0 => End(segs[a]) < s.offset)
        /\ (b < Len(segs) => End(s) < segs[b + 1].offset)
    BY <1>1, <1>8, <1>12, <1>13
  <2> QED BY <1>1, <1>7, <1>11, <2>1, SplicedRight
(* The new segment is the range with those that it touches.                *)
<1>15. ASSUME NEW x \in 0..(BufferSize - 1)
       PROVE  Covers(s, x) <=>
                \/ Covers(e, x)
                \/ \E i \in 1..l : a < i /\ i <= b /\ Covers(segs[i], x)
  <2> DEFINE before == a # n /\ segs[n].offset <= x /\ x < e.offset
             after == b # n /\ End(e) <= x /\ x < End(segs[n + 1])
  <2>1. /\ a # n => /\ n \in 1..l /\ a = n - 1 /\ End(segs[n]) = e.offset
                    /\ s.offset = segs[n].offset
        /\ a = n => s.offset = e.offset
        /\ b # n => /\ n + 1 \in 1..l /\ b = n + 1 /\ segs[n + 1].offset = End(e)
                    /\ End(s) = End(segs[n + 1])
        /\ b = n => End(s) = End(e)
    BY <1>2, <1>7, <1>10
  <2>2. Covers(s, x) <=> Covers(e, x) \/ before \/ after
    <3>1. CASE a = n /\ b = n
      BY <2>1, <3>1 DEF Covers
    <3>2. CASE a # n /\ b = n
      BY <1>3, <1>4, <2>1, <3>2 DEF Covers
    <3>3. CASE a = n /\ b # n
      BY <1>3, <1>4, <2>1, <3>3 DEF Covers
    <3>4. CASE a # n /\ b # n
      BY <1>3, <1>4, <2>1, <3>4 DEF Covers
    <3> QED BY <3>1, <3>2, <3>3, <3>4
  <2>3. before <=> \E i \in 1..l : a < i /\ i <= n /\ Covers(segs[i], x)
    <3>1. CASE a = n
      BY <1>2, <3>1
    <3>2. CASE a # n
      <4>1. \A i \in 1..l : (a < i /\ i <= n) <=> i = n
        BY <1>2, <2>1, <3>2
      <4> QED BY <2>1, <3>2, <4>1 DEF Covers
    <3> QED BY <3>1, <3>2
  <2>4. after <=> \E i \in 1..l : n < i /\ i <= b /\ Covers(segs[i], x)
    <3>1. CASE b = n
      BY <1>2, <3>1
    <3>2. CASE b # n
      <4>1. \A i \in 1..l : (n < i /\ i <= b) <=> i = n + 1
        BY <1>2, <2>1, <3>2
      <4> QED BY <2>1, <3>2, <4>1 DEF Covers
    <3> QED BY <3>1, <3>2
  <2> QED BY <1>2, <1>7, <2>2, <2>3, <2>4
<1>16. Free(new) = Free(segs) \cup Units(e)
  <2>1. \A x \in 0..(BufferSize - 1) :
          x \in Free(new) <=> x \in Units(e) \/ x \in Free(segs)
    BY <1>1, <1>2, <1>8, <1>14, <1>15 DEF Units, Free
  <2> QED BY <2>1 DEF Free, Units
<1> QED BY <1>1, <1>14, <1>16

(* No unit is in two segments.                                             *)
LEMMA OneCovers ==
  ASSUME NEW segs, ListRight(segs), NEW x \in Int,
         NEW i \in 1..Len(segs), NEW j \in 1..Len(segs),
         Covers(segs[i], x), Covers(segs[j], x)
  PROVE  i = j
<1>1. /\ segs[i].offset \in Nat /\ End(segs[i]) \in Nat
      /\ segs[j].offset \in Nat /\ End(segs[j]) \in Nat
      /\ i < j => End(segs[i]) < segs[j].offset
      /\ j < i => End(segs[j]) < segs[i].offset
  BY ListNumbers DEF ListRight
<1>2. Len(segs) \in Nat
  BY ListNumbers
<1> QED BY <1>1, <1>2 DEF Covers

(* A place of a list is taken out.                                         *)
LEMMA RemovedPlaces ==
  ASSUME NEW segs \in Seq(Ranges), NEW i \in 1..Len(segs),
         NEW new, new = RemoveAt(segs, i)
  PROVE  /\ new \in Seq(Ranges) /\ Len(new) = Len(segs) - 1
         /\ \A j \in 1..(Len(segs) - 1) : new[j] = IF j < i THEN segs[j] ELSE segs[j + 1]
<1>1. PICK p, q, l : /\ p = SubSeq(segs, 1, i - 1) /\ q = SubSeq(segs, i + 1, l)
                     /\ l = Len(segs)
  OBVIOUS
<1>2. l \in Nat /\ i \in 1..l
  BY <1>1, LenProperties
<1>3. p \in Seq(Ranges) /\ Len(p) = i - 1 /\ \A j \in 1..(i - 1) : p[j] = segs[j]
  BY <1>1, <1>2
<1>4. q \in Seq(Ranges) /\ Len(q) = l - i /\ \A j \in 1..(l - i) : q[j] = segs[i + j]
  BY <1>1, <1>2
<1>5. new = p \o q
  BY <1>1 DEF RemoveAt
<1>6. /\ p \o q \in Seq(Ranges) /\ Len(p \o q) = Len(p) + Len(q)
      /\ \A j \in 1..(Len(p) + Len(q)) :
           (p \o q)[j] = IF j <= Len(p) THEN p[j] ELSE q[j - Len(p)]
  BY <1>3, <1>4, ConcatProperties
<1>7. (i - 1) + (l - i) = l - 1
  BY <1>2
<1>8. /\ new \in Seq(Ranges) /\ Len(new) = l - 1
      /\ \A j \in 1..(l - 1) : new[j] = IF j <= i - 1 THEN p[j] ELSE q[j - (i - 1)]
  BY <1>3, <1>4, <1>5, <1>6, <1>7, Zenon
<1>9. \A j \in 1..(l - 1) : new[j] = IF j < i THEN segs[j] ELSE segs[j + 1]
  <2> TAKE j \in 1..(l - 1)
  <2>1. CASE j < i
    <3>1. j \in 1..(i - 1) /\ j <= i - 1
      BY <1>2, <2>1
    <3> QED BY <1>3, <1>8, <2>1, <3>1
  <2>2. CASE ~(j < i)
    <3>1. PICK k : k = j - (i - 1)
      OBVIOUS
    <3>2. k \in 1..(l - i) /\ i + k = j + 1 /\ ~(j <= i - 1)
      BY <1>2, <2>2, <3>1
    <3>3. q[k] = segs[i + k]
      BY <1>4, <3>2, Zenon
    <3> QED BY <1>8, <2>2, <3>1, <3>2, <3>3
  <2> QED BY <2>1, <2>2
<1> QED BY <1>1, <1>8, <1>9

(* setData(): the list stays right, and what is given was free.            *)
LEMMA CarvedRight ==
  ASSUME NEW segs, ListRight(segs), NEW size \in Nat \ {0},
         NEW i \in Fitting(segs, size),
         NEW e, e = [offset |-> segs[i].offset, size |-> size]
  PROVE  /\ ListRight(Carved(segs, i, size)) /\ Good(e) /\ Units(e) \subseteq Free(segs)
         /\ Free(Carved(segs, i, size)) = Free(segs) \ Units(e)
<1>1. PICK l, new, r : l = Len(segs) /\ new = Carved(segs, i, size) /\ r = segs[i]
  OBVIOUS
<1>2. /\ l \in Nat /\ i \in 1..l /\ segs \in Seq(Ranges) /\ r.size >= size
      /\ \A j \in 1..l : /\ segs[j].offset \in Nat /\ segs[j].size \in Nat
                         /\ End(segs[j]) \in Nat /\ segs[j].offset < End(segs[j])
                         /\ End(segs[j]) <= BufferSize /\ Good(segs[j])
  BY <1>1, ListNumbers DEF Fitting
<1>3. \A j, k \in 1..l : j < k => End(segs[j]) < segs[k].offset
  BY <1>1 DEF ListRight
<1>4. /\ r.offset \in Nat /\ r.size \in Nat /\ End(r) = r.offset + r.size
      /\ End(r) <= BufferSize /\ BufferSize \in Nat
  BY <1>1, <1>2, SegmentsAssumption DEF End
<1>5. /\ e.offset = r.offset /\ e.size = size /\ End(e) = r.offset + size
      /\ Good(e)
  BY <1>1, <1>2, <1>4 DEF End, Good, Ranges
<1>6. Units(e) \subseteq Free(segs)
  BY <1>1, <1>2, <1>4, <1>5 DEF Units, Free, Covers
<1>7. \A x \in Int, j \in 1..l : Covers(segs[j], x) /\ Covers(r, x) => i = j
  BY <1>1, <1>2, OneCovers
<1>8. CASE r.size = size
  <2>1. new = RemoveAt(segs, i)
    BY <1>1, <1>8 DEF Carved
  <2>2. /\ new \in Seq(Ranges) /\ Len(new) = l - 1
        /\ \A j \in 1..(l - 1) : new[j] = IF j < i THEN segs[j] ELSE segs[j + 1]
    <3>1. /\ segs \in Seq(Ranges) /\ i \in 1..Len(segs) /\ new = RemoveAt(segs, i)
      BY <1>1, <1>2, <2>1
    <3>2. new \in Seq(Ranges) /\ Len(new) = Len(segs) - 1
      BY <3>1, RemovedPlaces
    <3>3. \A j \in 1..(Len(segs) - 1) :
            new[j] = IF j < i THEN segs[j] ELSE segs[j + 1]
      BY <3>1, RemovedPlaces, Zenon
    <3> QED BY <1>1, <3>2, <3>3
  <2>3. ASSUME NEW j \in 1..(l - 1)
        PROVE  \E k \in 1..l : /\ new[j] = segs[k]
                               /\ k = IF j < i THEN j ELSE j + 1
    BY <1>2, <2>2
  <2>4. ListRight(new)
    <3>1. \A j \in 1..(l - 1) : Good(new[j])
      BY <1>2, <2>3
    <3>2. ASSUME NEW j \in 1..(l - 1), NEW k \in 1..(l - 1), j < k
          PROVE  End(new[j]) < new[k].offset
      <4>1. PICK m \in 1..l : new[j] = segs[m] /\ m = IF j < i THEN j ELSE j + 1
        BY <2>3
      <4>2. PICK o \in 1..l : new[k] = segs[o] /\ o = IF k < i THEN k ELSE k + 1
        BY <2>3
      <4>3. m < o
        BY <1>2, <3>2, <4>1, <4>2
      <4> QED BY <1>3, <4>1, <4>2, <4>3
    <3> QED BY <2>2, <3>1, <3>2 DEF ListRight
  <2>5. \A x \in 0..(BufferSize - 1) :
          (\E j \in 1..(l - 1) : Covers(new[j], x)) <=>
            \E k \in 1..l : k # i /\ Covers(segs[k], x)
    <3> TAKE x \in 0..(BufferSize - 1)
    <3>1. ASSUME NEW j \in 1..(l - 1), Covers(new[j], x)
          PROVE  \E k \in 1..l : k # i /\ Covers(segs[k], x)
      <4>1. PICK k \in 1..l : new[j] = segs[k] /\ k = IF j < i THEN j ELSE j + 1
        BY <2>3
      <4>2. k # i
        BY <1>2, <4>1
      <4> QED BY <3>1, <4>1, <4>2
    <3>2. ASSUME NEW k \in 1..l, k # i, Covers(segs[k], x)
          PROVE  \E j \in 1..(l - 1) : Covers(new[j], x)
      <4>1. PICK j : j = IF k < i THEN k ELSE k - 1
        OBVIOUS
      <4>2. j \in 1..(l - 1) /\ (IF j < i THEN j ELSE j + 1) = k
        BY <1>2, <3>2, <4>1
      <4>3. new[j] = segs[k]
        BY <2>2, <4>2
      <4> QED BY <3>2, <4>2, <4>3
    <3> QED BY <3>1, <3>2
  <2>6. \A x \in Int : Covers(e, x) <=> Covers(r, x)
    BY <1>4, <1>5, <1>8 DEF Covers
  <2>7. Free(new) = Free(segs) \ Units(e)
    <3>1. \A x \in 0..(BufferSize - 1) :
            x \in Free(new) <=> x \in Free(segs) /\ ~Covers(e, x)
      <4> TAKE x \in 0..(BufferSize - 1)
      <4>1. x \in Int
        BY SegmentsAssumption
      <4>2. x \in Free(new) <=> \E k \in 1..l : k # i /\ Covers(segs[k], x)
        BY <2>2, <2>5 DEF Free
      <4>3. x \in Free(segs) <=> \E k \in 1..l : Covers(segs[k], x)
        BY <1>1 DEF Free
      <4>4. \A k \in 1..l : k # i /\ Covers(segs[k], x) => ~Covers(e, x)
        BY <1>7, <2>6, <4>1
      <4> QED BY <1>1, <1>2, <2>6, <4>1, <4>2, <4>3, <4>4
    <3> QED BY <3>1 DEF Free, Units
  <2> QED BY <1>1, <1>5, <1>6, <2>4, <2>7
<1>9. CASE r.size # size
  <2>1. PICK s : s = Shrunk(r, size)
    OBVIOUS
  <2>0. /\ s.offset = r.offset + size /\ s.size = r.size - size /\ End(s) = End(r)
        /\ s \in Ranges /\ Good(s)
    <3>1. /\ s = [offset |-> r.offset + size, size |-> r.size - size]
      BY <2>1 DEF Shrunk
    <3>2. /\ s.offset = r.offset + size /\ s.size = r.size - size
      BY <3>1
    <3>3. r.size \in Nat /\ r.size > size
      BY <1>2, <1>4, <1>9
    <3>4. r.offset + size \in 0..BufferSize /\ r.size - size \in 0..BufferSize
          /\ r.size - size > 0
      BY <1>4, <3>3
    <3>5. s \in Ranges
      BY <3>1, <3>4 DEF Ranges
    <3>6. End(s) = End(r)
      BY <1>4, <3>2, <3>3 DEF End
    <3> QED BY <1>4, <3>2, <3>4, <3>5, <3>6 DEF Good
  <2>2. new = [segs EXCEPT ![i] = s]
    BY <1>1, <1>9, <2>1 DEF Carved
  <2>3. /\ new \in Seq(Ranges) /\ Len(new) = l /\ new[i] = s
        /\ \A j \in 1..l : j # i => new[j] = segs[j]
    <3>1. s \in Ranges
      BY <2>0
    <3> QED BY <1>1, <1>2, <2>2, <3>1, ExceptSeq
  <2>4. /\ s.offset = r.offset + size /\ s.size = r.size - size /\ End(s) = End(r)
        /\ Good(s)
    BY <2>0
  <2>5. ListRight(new)
    <3>1. \A j \in 1..l : Good(new[j])
      BY <1>2, <2>3, <2>4
    <3>2. ASSUME NEW j \in 1..l, NEW k \in 1..l, j < k
          PROVE  End(new[j]) < new[k].offset
      <4>1. End(new[j]) = End(segs[j])
        BY <1>1, <2>3, <2>4
      <4>2. segs[k].offset <= new[k].offset /\ new[k].offset \in Nat
        <5>1. CASE k = i
          BY <1>1, <1>4, <2>3, <2>4, <5>1
        <5>2. CASE k # i
          BY <1>2, <2>3, <5>2
        <5> QED BY <5>1, <5>2
      <4> QED BY <1>2, <1>3, <3>2, <4>1, <4>2
    <3> QED BY <2>3, <3>1, <3>2 DEF ListRight
  <2>6. \A x \in Int : Covers(r, x) <=> Covers(e, x) \/ Covers(s, x)
    BY <1>4, <1>5, <2>4, <1>2 DEF Covers
  <2>7. \A x \in Int : ~(Covers(e, x) /\ Covers(s, x))
    BY <1>4, <1>5, <2>4 DEF Covers
  <2>8. Free(new) = Free(segs) \ Units(e)
    <3>1. ASSUME NEW x \in 0..(BufferSize - 1)
          PROVE  x \in Free(new) <=> x \in Free(segs) /\ ~Covers(e, x)
      <4>1. (\E j \in 1..l : Covers(new[j], x)) <=>
              Covers(s, x) \/ \E j \in 1..l : j # i /\ Covers(segs[j], x)
        BY <1>2, <2>3
      <4>2. (\E j \in 1..l : Covers(segs[j], x)) <=>
              Covers(r, x) \/ \E j \in 1..l : j # i /\ Covers(segs[j], x)
        BY <1>1, <1>2
      <4>3. Covers(e, x) => ~ \E j \in 1..l : j # i /\ Covers(segs[j], x)
        BY <1>7, <2>6
      <4> QED BY <1>1, <2>3, <2>6, <2>7, <4>1, <4>2, <4>3 DEF Free
    <3> QED BY <3>1 DEF Free, Units
  <2> QED BY <1>1, <1>5, <1>6, <2>5, <2>8
<1> QED BY <1>8, <1>9

(***************************************************************************)
(* The list and the entries together: they share out the buffer.           *)
(***************************************************************************)
UnitsOf(e) == IF e = NoEntry THEN {} ELSE Units(e)

Shared(free, ents) ==
  /\ ents \in [Primitives -> [Semantics -> Ranges \cup {NoEntry}]]
  /\ \A p \in Primitives, s \in Semantics : ents[p][s] = NoEntry \/ Good(ents[p][s])
  /\ \A p \in Primitives, s \in Semantics : free \cap UnitsOf(ents[p][s]) = {}
  /\ \A p, q \in Primitives, s, t \in Semantics :
       (p # q \/ s # t) => UnitsOf(ents[p][s]) \cap UnitsOf(ents[q][t]) = {}
  /\ \A x \in 0..(BufferSize - 1) :
       x \in free \/ \E p \in Primitives, s \in Semantics : x \in UnitsOf(ents[p][s])

Right(segs, ents) == ListRight(segs) /\ Shared(Free(segs), ents)

(* What an entry held goes to the list.                                    *)
LEMMA YieldKeeps ==
  ASSUME NEW segs, NEW ents, Right(segs, ents),
         NEW p \in Primitives, NEW sem \in Semantics,
         NEW new, new = Yielded(segs, ents[p][sem]),
         NEW without, without = [ents EXCEPT ![p][sem] = NoEntry]
  PROVE  Right(new, without)
<1>1. PICK e : e = ents[p][sem]
  OBVIOUS
<1>2. ListRight(segs) /\ Shared(Free(segs), ents)
  BY DEF Right
<1>3. /\ ListRight(new) /\ Free(new) = Free(segs) \cup UnitsOf(e)
  <2>1. CASE e = NoEntry
    BY <1>1, <1>2, <2>1 DEF Yielded, UnitsOf
  <2>2. CASE e # NoEntry
    <3>1. Good(e) /\ Free(segs) \cap Units(e) = {}
      BY <1>1, <1>2, <2>2 DEF Shared, UnitsOf
    <3>2. new = Yielded(segs, e)
      BY <1>1
    <3>3. ListRight(new)
      BY <1>2, <2>2, <3>1, <3>2, YieldedRight
    <3>4. Free(new) = Free(segs) \cup Units(e)
      BY <1>2, <2>2, <3>1, <3>2, YieldedRight
    <3> QED BY <2>2, <3>3, <3>4 DEF UnitsOf
  <2> QED BY <2>1, <2>2
<1>4. /\ without \in [Primitives -> [Semantics -> Ranges \cup {NoEntry}]]
      /\ \A q \in Primitives, t \in Semantics :
           without[q][t] = IF q = p /\ t = sem THEN NoEntry ELSE ents[q][t]
  BY <1>2 DEF Shared
<1>5. \A q \in Primitives, t \in Semantics :
        UnitsOf(without[q][t]) = IF q = p /\ t = sem THEN {} ELSE UnitsOf(ents[q][t])
  BY <1>4 DEF UnitsOf
<1>6. Shared(Free(new), without)
  <2>1. \A q \in Primitives, t \in Semantics :
          without[q][t] = NoEntry \/ Good(without[q][t])
    BY <1>2, <1>4 DEF Shared
  <2>2. ASSUME NEW q \in Primitives, NEW t \in Semantics
        PROVE  Free(new) \cap UnitsOf(without[q][t]) = {}
    <3>1. CASE q = p /\ t = sem
      BY <1>5, <3>1
    <3>2. CASE ~(q = p /\ t = sem)
      <4>1. UnitsOf(without[q][t]) = UnitsOf(ents[q][t])
        BY <1>5, <3>2
      <4>2. Free(segs) \cap UnitsOf(ents[q][t]) = {}
        BY <1>2 DEF Shared
      <4>3. UnitsOf(ents[q][t]) \cap UnitsOf(ents[p][sem]) = {}
        BY <1>2, <3>2 DEF Shared
      <4> QED BY <1>1, <1>3, <4>1, <4>2, <4>3
    <3> QED BY <3>1, <3>2
  <2>3. ASSUME NEW q \in Primitives, NEW r \in Primitives,
               NEW s \in Semantics, NEW t \in Semantics, q # r \/ s # t
        PROVE  UnitsOf(without[q][s]) \cap UnitsOf(without[r][t]) = {}
    <3>1. UnitsOf(ents[q][s]) \cap UnitsOf(ents[r][t]) = {}
      BY <1>2, <2>3 DEF Shared
    <3>2. /\ UnitsOf(without[q][s]) \subseteq UnitsOf(ents[q][s])
          /\ UnitsOf(without[r][t]) \subseteq UnitsOf(ents[r][t])
      BY <1>5
    <3> QED BY <3>1, <3>2
  <2>4. ASSUME NEW x \in 0..(BufferSize - 1), x \notin Free(new)
        PROVE  \E q \in Primitives, t \in Semantics : x \in UnitsOf(without[q][t])
    <3>1. PICK q \in Primitives, t \in Semantics : x \in UnitsOf(ents[q][t])
      BY <1>2, <1>3, <2>4 DEF Shared
    <3>2. ~(q = p /\ t = sem)
      BY <1>1, <1>3, <2>4, <3>1
    <3> QED BY <1>5, <3>1, <3>2
  <2> QED BY <1>4, <2>1, <2>2, <2>3, <2>4 DEF Shared
<1> QED BY <1>3, <1>6 DEF Right

(* A semantic without memory is given some.                                *)
LEMMA GiveKeeps ==
  ASSUME NEW segs, NEW ents, Right(segs, ents),
         NEW p \in Primitives, NEW sem \in Semantics, ents[p][sem] = NoEntry,
         NEW size \in Nat \ {0}, NEW i \in Fitting(segs, size),
         NEW e, e = [offset |-> segs[i].offset, size |-> size],
         NEW new, new = Carved(segs, i, size),
         NEW with, with = [ents EXCEPT ![p][sem] = e]
  PROVE  Right(new, with)
<1>1. ListRight(segs) /\ Shared(Free(segs), ents)
  BY DEF Right
<1>2. ListRight(new)
  BY <1>1, CarvedRight
<1>3. Good(e) /\ Units(e) \subseteq Free(segs)
  BY <1>1, CarvedRight
<1>4. Free(new) = Free(segs) \ Units(e)
  BY <1>1, CarvedRight
<1>5. e # NoEntry /\ e \in Ranges
  BY <1>3, SegmentsAssumption DEF Good, Ranges
<1>6. /\ with \in [Primitives -> [Semantics -> Ranges \cup {NoEntry}]]
      /\ \A q \in Primitives, t \in Semantics :
           with[q][t] = IF q = p /\ t = sem THEN e ELSE ents[q][t]
  BY <1>1, <1>5 DEF Shared
<1>7. \A q \in Primitives, t \in Semantics :
        UnitsOf(with[q][t]) = IF q = p /\ t = sem THEN Units(e) ELSE UnitsOf(ents[q][t])
  BY <1>5, <1>6 DEF UnitsOf
<1>8. Shared(Free(new), with)
  <2>1. \A q \in Primitives, t \in Semantics :
          with[q][t] = NoEntry \/ Good(with[q][t])
    BY <1>1, <1>3, <1>6 DEF Shared
  <2>2. ASSUME NEW q \in Primitives, NEW t \in Semantics
        PROVE  Free(new) \cap UnitsOf(with[q][t]) = {}
    <3>1. CASE q = p /\ t = sem
      BY <1>4, <1>7, <3>1
    <3>2. CASE ~(q = p /\ t = sem)
      BY <1>1, <1>4, <1>7, <3>2 DEF Shared
    <3> QED BY <3>1, <3>2
  <2>3. ASSUME NEW q \in Primitives, NEW r \in Primitives,
               NEW s \in Semantics, NEW t \in Semantics, q # r \/ s # t
        PROVE  UnitsOf(with[q][s]) \cap UnitsOf(with[r][t]) = {}
    <3>1. CASE q = p /\ s = sem
      BY <1>1, <1>3, <1>7, <2>3, <3>1 DEF Shared
    <3>2. CASE r = p /\ t = sem
      BY <1>1, <1>3, <1>7, <2>3, <3>2 DEF Shared
    <3>3. CASE ~(q = p /\ s = sem) /\ ~(r = p /\ t = sem)
      <4>1. /\ UnitsOf(with[q][s]) = UnitsOf(ents[q][s])
            /\ UnitsOf(with[r][t]) = UnitsOf(ents[r][t])
        BY <1>7, <3>3
      <4>2. UnitsOf(ents[q][s]) \cap UnitsOf(ents[r][t]) = {}
        BY <1>1, <2>3 DEF Shared
      <4> QED BY <4>1, <4>2
    <3> QED BY <3>1, <3>2, <3>3
  <2>4. ASSUME NEW x \in 0..(BufferSize - 1), x \notin Free(new)
        PROVE  \E q \in Primitives, t \in Semantics : x \in UnitsOf(with[q][t])
    <3>1. CASE x \in Units(e)
      BY <1>7, <3>1
    <3>2. CASE x \notin Units(e)
      <4>1. PICK q \in Primitives, t \in Semantics : x \in UnitsOf(ents[q][t])
        BY <1>1, <1>4, <2>4, <3>2 DEF Shared
      <4>2. ~(q = p /\ t = sem)
        BY <4>1 DEF UnitsOf
      <4> QED BY <1>7, <4>1, <4>2
    <3> QED BY <3>1, <3>2
  <2> QED BY <1>6, <2>1, <2>2, <2>3, <2>4 DEF Shared
<1> QED BY <1>2, <1>8 DEF Right

(* The lists that ~Impl goes through, one for each entry.                  *)
AreLists(g, segs, es, n) ==
  g = [i \in 0..n |-> IF i = 0 THEN segs ELSE Yielded(g[i - 1], es[i])]

(* There are such.                                                         *)
LEMMA ListsExist ==
  ASSUME NEW segs, NEW es, NEW n \in Nat
  PROVE  \E g : AreLists(g, segs, es, n)
<1> USE DEF AreLists
<1> DEFINE To(k) == \E g : AreLists(g, segs, es, k)
           Reached == {k \in 0..n : To(k)}
<1>1. 0 \in Reached
  <2>1. PICK g : g = [i \in 0..0 |-> segs]
    OBVIOUS
  <2>2. g = [i \in 0..0 |-> IF i = 0 THEN segs ELSE Yielded(g[i - 1], es[i])]
    BY <2>1
  <2> QED BY <2>2
<1>2. ASSUME NEW k \in 0..(n - 1), k \in Reached PROVE k + 1 \in Reached
  <2>1. PICK g : g = [i \in 0..k |-> IF i = 0 THEN segs ELSE Yielded(g[i - 1], es[i])]
    BY <1>2
  <2>2. PICK h : h = [i \in 0..(k + 1) |->
                        IF i = k + 1 THEN Yielded(g[k], es[k + 1]) ELSE g[i]]
    OBVIOUS
  <2>3. \A i \in 0..(k + 1) :
          h[i] = IF i = 0 THEN segs ELSE Yielded(h[i - 1], es[i])
    <3> TAKE i \in 0..(k + 1)
    <3>1. CASE i = 0
      BY <2>1, <2>2, <3>1
    <3>2. CASE i = k + 1
      <4>1. h[k + 1] = Yielded(g[k], es[k + 1]) /\ h[k] = g[k]
        BY <2>2
      <4> QED BY <3>2, <4>1
    <3>3. CASE i # 0 /\ i # k + 1
      <4>1. i \in 0..k /\ i - 1 \in 0..(k + 1) /\ i - 1 # k + 1
        BY <3>3
      <4>2. h[i] = g[i] /\ h[i - 1] = g[i - 1]
        BY <2>2, <3>3, <4>1
      <4>3. g[i] = Yielded(g[i - 1], es[i])
        BY <2>1, <3>3, <4>1
      <4> QED BY <3>3, <4>2, <4>3
    <3> QED BY <3>1, <3>2, <3>3
  <2>4. h = [i \in 0..(k + 1) |->
               IF i = 0 THEN segs ELSE Yielded(h[i - 1], es[i])]
    BY <2>2, <2>3
  <2> QED BY <2>4
<1>3. 0..n \subseteq Reached
  <2> HIDE DEF Reached
  <2> QED BY <1>1, <1>2, CountUp
<1> QED BY <1>3

(* SetToSeq goes through all semantics, each one once.                     *)
LEMMA SemanticsOnce ==
  ASSUME NEW f, f = SetToSeq(Semantics), NEW n, n = Cardinality(Semantics)
  PROVE  /\ n \in Nat /\ f \in [1..n -> Semantics]
         /\ \A i, j \in 1..n : f[i] = f[j] => i = j
         /\ \A s \in Semantics : \E i \in 1..n : f[i] = s
<1>1. IsFiniteSet(Semantics)
  BY SegmentsAssumption
<1>2. n \in Nat /\ ExistsBijection(1..n, Semantics)
  BY <1>1, FS_CardinalityType
<1>3. f \in [1..n -> Semantics] /\ IsInjective(f)
  <2>1. \E g \in [1..n -> Semantics] : IsInjective(g)
    BY <1>2 DEF ExistsBijection, Bijection, Injection
  <2> QED BY <2>1 DEF SetToSeq
<1>4. f \in Injection(1..n, Semantics)
  BY <1>3 DEF Injection
<1>5. Cardinality(1..n) = n
  BY <1>2, FS_Interval
<1>6. f \in Surjection(1..n, Semantics)
  BY <1>1, <1>4, <1>5, FS_Injection
<1> QED BY <1>2, <1>3, <1>6 DEF IsInjective, Surjection

(* ~Impl: after each entry the list and what is left are right.            *)
LEMMA DestroyKeeps ==
  ASSUME NEW segs, NEW ents, Right(segs, ents), NEW p \in Primitives,
         NEW es, es = [i \in 1..Cardinality(Semantics) |->
                         ents[p][SetToSeq(Semantics)[i]]],
         NEW without, without = [ents EXCEPT ![p] = [s \in Semantics |-> NoEntry]]
  PROVE  Right(AllYielded(segs, es), without)
<1>1. PICK f, n : f = SetToSeq(Semantics) /\ n = Cardinality(Semantics)
  OBVIOUS
<1>2. /\ n \in Nat /\ f \in [1..n -> Semantics]
      /\ \A i, j \in 1..n : f[i] = f[j] => i = j
      /\ \A s \in Semantics : \E i \in 1..n : f[i] = s
  BY <1>1, SemanticsOnce
<1>3. es = [i \in 1..n |-> ents[p][f[i]]] /\ Len(es) = n
  BY <1>1, <1>2
<1> DEFINE list == CHOOSE g : AreLists(g, segs, es, n)
<1>4. AreLists(list, segs, es, n)
  BY <1>2, ListsExist
<1>5. AllYielded(segs, es) = list[n]
  BY <1>3 DEF AllYielded, AreLists
<1>11. /\ list[0] = segs
       /\ \A i \in 1..n : list[i] = Yielded(list[i - 1], es[i])
  <2>1. \A i \in 0..n : list[i] = IF i = 0 THEN segs ELSE Yielded(list[i - 1], es[i])
    <3> HIDE DEF list
    <3> QED BY <1>4 DEF AreLists
  <2> HIDE DEF list
  <2>2. list[0] = segs
    <3>1. 0 \in 0..n
      BY <1>2
    <3> QED BY <2>1, <3>1, Zenon
  <2>3. ASSUME NEW i \in 1..n PROVE list[i] = Yielded(list[i - 1], es[i])
    <3>1. i \in 0..n /\ i # 0
      BY <1>2
    <3> QED BY <2>1, <3>1
  <2> QED BY <2>2, <2>3
<1> HIDE DEF list
<1> DEFINE Left(k) == [ents EXCEPT ![p] = [s \in Semantics |->
              IF \E i \in 1..k : f[i] = s THEN NoEntry ELSE ents[p][s]]]
           Reached == {k \in 0..n : Right(list[k], Left(k))}
<1>6. ents \in [Primitives -> [Semantics -> Ranges \cup {NoEntry}]]
  BY DEF Right, Shared
<1>7. 0 \in Reached
  <2>1. Left(0) = ents
    BY <1>6
  <2>2. Right(list[0], Left(0))
    <3> HIDE DEF Left
    <3> QED BY <1>11, <2>1
  <2>3. 0 \in 0..n
    BY <1>2
  <2> HIDE DEF Left
  <2> QED BY <2>2, <2>3
<1>8. ASSUME NEW k \in 0..(n - 1), k \in Reached PROVE k + 1 \in Reached
  <2>1. PICK sem : sem = f[k + 1]
    OBVIOUS
  <2>2. k + 1 \in 1..n /\ sem \in Semantics
    BY <1>2, <2>1
  <2>3. ~ \E i \in 1..k : f[i] = sem
    BY <1>2, <2>1, <2>2
  <2>4. list[k + 1] = Yielded(list[k], ents[p][sem])
    <3>1. list[k + 1] = Yielded(list[(k + 1) - 1], es[k + 1])
      BY <1>11, <2>2, Zenon
    <3>2. (k + 1) - 1 = k
      OBVIOUS
    <3>3. es[k + 1] = ents[p][sem]
      BY <1>3, <2>1, <2>2, Zenon
    <3> QED BY <3>1, <3>2, <3>3
  <2>5. Left(k)[p][sem] = ents[p][sem]
    BY <1>6, <2>2, <2>3
  <2>6. Left(k + 1) = [Left(k) EXCEPT ![p][sem] = NoEntry]
    <3>1. \A s \in Semantics :
            (\E i \in 1..(k + 1) : f[i] = s) <=> s = sem \/ \E i \in 1..k : f[i] = s
      BY <1>2, <2>1
    <3> QED BY <1>6, <2>2, <3>1
  <2>7. PICK now, left, next : now = list[k] /\ left = Left(k) /\ next = Left(k + 1)
    OBVIOUS
  <2>8. Right(now, left)
    BY <1>8, <2>7
  <2>9. list[k + 1] = Yielded(now, left[p][sem]) /\ next = [left EXCEPT ![p][sem] = NoEntry]
    BY <2>4, <2>5, <2>6, <2>7
  <2>10. Right(list[k + 1], next)
    <3> HIDE DEF Left, Reached
    <3> QED BY <2>2, <2>8, <2>9, YieldKeeps
  <2> QED BY <1>2, <2>7, <2>10
<1>9. n \in Reached
  <2> HIDE DEF Reached
  <2>1. 0..n \subseteq Reached
    BY <1>2, <1>7, <1>8, CountUp
  <2> QED BY <1>2, <2>1
<1>10. Left(n) = without
  <2>1. \A s \in Semantics : \E i \in 1..n : f[i] = s
    BY <1>2
  <2> QED BY <1>6, <2>1
<1> QED BY <1>5, <1>9, <1>10

(***************************************************************************)
(* The invariant.                                                          *)
(***************************************************************************)
SegmentsInv ==
  /\ Right(segments, entries)
  /\ dataMask \in [Primitives -> SUBSET Semantics]
  /\ undefined \in BOOLEAN
  /\ MaskIsHeld

(* The whole buffer is free when the program begins.                       *)
LEMMA SegmentsInit == Init => SegmentsInv
<1> SUFFICES ASSUME Init PROVE SegmentsInv
  OBVIOUS
<1> USE DEF Init
<1>1. PICK s : s = [offset |-> 0, size |-> BufferSize]
  OBVIOUS
<1>2. Good(s) /\ End(s) = BufferSize
  BY <1>1, SegmentsAssumption DEF Good, Ranges, End
<1>3. segments = <<s>> /\ Len(segments) = 1 /\ segments[1] = s
  BY <1>1
<1>4. ListRight(segments)
  <2>1. segments \in Seq(Ranges)
    BY <1>2, <1>3 DEF Good
  <2>2. \A i \in 1..Len(segments) : i = 1
    BY <1>3
  <2> QED BY <1>2, <1>3, <2>1, <2>2 DEF ListRight
<1>5. \A x \in 0..(BufferSize - 1) : x \in Free(segments)
  BY <1>1, <1>2, <1>3, SegmentsAssumption DEF Free, Covers
<1>6. Shared(Free(segments), entries)
  BY <1>5 DEF Shared, UnitsOf
<1> QED BY <1>4, <1>6 DEF SegmentsInv, Right, MaskIsHeld

(* The first segment that is large enough is one of those.                 *)
LEMMA FirstFits ==
  ASSUME NEW segs, ListRight(segs), NEW size, Fitting(segs, size) # {}
  PROVE  (CHOOSE j \in Fitting(segs, size) :
            \A k \in Fitting(segs, size) : j <= k) \in Fitting(segs, size)
<1>1. Fitting(segs, size) \in SUBSET Nat
  BY ListNumbers DEF Fitting
<1>2. \E j \in Fitting(segs, size) : \A k \in Fitting(segs, size) : j <= k
  BY <1>1, LeastNumber
<1> QED BY <1>2

(* setData() and ~Impl keep it, whatever they are given.                   *)
LEMMA SegmentsNext == SegmentsInv /\ [Next]_vars => SegmentsInv'
<1> SUFFICES ASSUME SegmentsInv, [Next]_vars PROVE SegmentsInv'
  OBVIOUS
<1>1. Right(segments, entries) /\ MaskIsHeld
  BY DEF SegmentsInv
<1>2. entries \in [Primitives -> [Semantics -> Ranges \cup {NoEntry}]]
  BY <1>1 DEF Right, Shared
<1>3. ASSUME NEW p \in Primitives, NEW sem \in Semantics, NEW size \in Sizes,
             SetData(p, sem, size)
      PROVE  SegmentsInv'
  <2>1. PICK segs, without : /\ segs = Yielded(segments, entries[p][sem])
                             /\ without = [entries EXCEPT ![p][sem] = NoEntry]
    OBVIOUS
  <2>2. Right(segs, without)
    BY <1>1, <2>1, YieldKeeps
  <2>3. size \in Nat \ {0}
    BY SegmentsAssumption
  <2>4. without[p][sem] = NoEntry
    BY <1>2, <2>1
  <2>5. CASE SetDataFits(p, sem, size)
    <3>1. PICK i : i = CHOOSE j \in Fitting(segs, size) :
                         \A k \in Fitting(segs, size) : j <= k
      OBVIOUS
    <3>2. PICK e : e = [offset |-> segs[i].offset, size |-> size]
      OBVIOUS
    <3>3. /\ Fitting(segs, size) # {}
          /\ segments' = Carved(segs, i, size)
          /\ entries' = [entries EXCEPT ![p][sem] = e]
          /\ dataMask' = [dataMask EXCEPT ![p] = @ \cup {sem}]
          /\ undefined' = undefined
      BY <2>1, <2>5, <3>1, <3>2 DEF SetDataFits
    <3>4. i \in Fitting(segs, size)
      BY <2>2, <3>1, <3>3, FirstFits DEF Right
    <3>5. entries' = [without EXCEPT ![p][sem] = e]
      BY <1>2, <2>1, <3>3
    <3>6. Right(segments', entries')
      <4>1. PICK new, with : new = Carved(segs, i, size) /\ with = [without EXCEPT ![p][sem] = e]
        OBVIOUS
      <4>2. Right(new, with)
        BY <2>2, <2>3, <2>4, <3>2, <3>4, <4>1, GiveKeeps
      <4> QED BY <3>3, <3>5, <4>1, <4>2
    <3>7. e # NoEntry
      <4>1. Good(e)
        BY <2>2, <2>3, <3>2, <3>4, CarvedRight DEF Right
      <4> QED BY <4>1, SegmentsAssumption DEF Good, Ranges
    <3>8. MaskIsHeld' /\ dataMask' \in [Primitives -> SUBSET Semantics]
      BY <1>1, <1>2, <3>3, <3>7 DEF MaskIsHeld, SegmentsInv
    <3> QED BY <3>3, <3>6, <3>8 DEF SegmentsInv
  <2>6. CASE SetDataGrows(p, sem, size)
    <3>1. /\ segments' = segs /\ entries' = without
          /\ dataMask' = [dataMask EXCEPT ![p] = @ \ {sem}]
          /\ undefined' \in BOOLEAN
      BY <2>1, <2>6 DEF SetDataGrows, MaskDropped
    <3>2. MaskIsHeld' /\ dataMask' \in [Primitives -> SUBSET Semantics]
      BY <1>1, <1>2, <2>1, <3>1 DEF MaskIsHeld, SegmentsInv
    <3> QED BY <2>2, <3>1, <3>2 DEF SegmentsInv
  <2> QED BY <1>3, <2>5, <2>6 DEF SetData
<1>4. ASSUME NEW p \in Primitives, DestroyPrimitive(p)
      PROVE  SegmentsInv'
  <2>1. PICK es : es = [i \in 1..Cardinality(Semantics) |->
                          entries[p][SetToSeq(Semantics)[i]]]
    OBVIOUS
  <2>2. /\ segments' = AllYielded(segments, es)
        /\ entries' = [entries EXCEPT ![p] = [s \in Semantics |-> NoEntry]]
        /\ dataMask' = [dataMask EXCEPT ![p] = {}]
        /\ undefined' = undefined
    BY <1>4, <2>1 DEF DestroyPrimitive
  <2>3. Right(segments', entries')
    BY <1>1, <2>1, <2>2, DestroyKeeps
  <2>4. MaskIsHeld' /\ dataMask' \in [Primitives -> SUBSET Semantics]
    BY <1>1, <1>2, <2>2 DEF MaskIsHeld, SegmentsInv
  <2> QED BY <2>2, <2>3, <2>4 DEF SegmentsInv
<1>5. CASE UNCHANGED vars
  BY <1>5 DEF vars, SegmentsInv, MaskIsHeld, Right
<1>6. CASE Undefined
  BY <1>5, <1>6 DEF Undefined
<1> QED BY <1>3, <1>4, <1>5, <1>6 DEF Next

(* Sharing out the buffer is what the counts say.                          *)
LEMMA SharedCounts == SegmentsInv => FreeListRight
<1> SUFFICES ASSUME SegmentsInv PROVE FreeListRight
  OBVIOUS
<1>1. /\ ListRight(segments) /\ Shared(Free(segments), entries)
  BY DEF SegmentsInv, Right
<1>2. DOMAIN segments = 1..Len(segments) /\ Len(segments) \in Nat
  BY <1>1, ListNumbers
<1>3. TypeOK
  BY <1>1 DEF SegmentsInv, TypeOK, ListRight, Shared
<1>4. Coalesced
  BY <1>1, <1>2 DEF Coalesced, ListRight
<1>5. ASSUME NEW x \in 0..(BufferSize - 1)
      PROVE  Cardinality({i \in DOMAIN segments : Covers(segments[i], x)})
               + Cardinality({h \in Held : Covers(EntryOf(h), x)}) = 1
  <2> DEFINE I == {i \in DOMAIN segments : Covers(segments[i], x)}
             H == {h \in Held : Covers(EntryOf(h), x)}
  <2>1. x \in Int
    BY SegmentsAssumption
  <2>2. ASSUME NEW h
        PROVE  h \in H <=> \E p \in Primitives, s \in Semantics :
                             h = <<p, s>> /\ x \in UnitsOf(entries[p][s])
    BY DEF Held, EntryOf, UnitsOf, Units
  <2>3. CASE x \in Free(segments)
    <3>1. PICK i \in 1..Len(segments) : Covers(segments[i], x)
      BY <2>3 DEF Free
    <3>2. \A j \in 1..Len(segments) : Covers(segments[j], x) => j = i
      BY <1>1, <2>1, <3>1, OneCovers
    <3>3. I = {i}
      BY <1>2, <3>1, <3>2
    <3>4. H = {}
      <4>1. \A p \in Primitives, s \in Semantics : x \notin UnitsOf(entries[p][s])
        BY <1>1, <2>3 DEF Shared
      <4> HIDE DEF H
      <4> QED BY <2>2, <4>1
    <3> HIDE DEF I, H
    <3>5. Cardinality(I) = 1 /\ Cardinality(H) = 0
      BY <3>3, <3>4, FS_Singleton, FS_EmptySet
    <3>6. Cardinality(I) + Cardinality(H) = 1
      BY <3>5
    <3> QED BY <3>6 DEF I, H
  <2>4. CASE x \notin Free(segments)
    <3>1. I = {}
      BY <1>2, <2>4 DEF Free
    <3>2. PICK p \in Primitives, s \in Semantics : x \in UnitsOf(entries[p][s])
      BY <1>1, <2>4 DEF Shared
    <3>3. \A q \in Primitives, t \in Semantics :
            x \in UnitsOf(entries[q][t]) => q = p /\ t = s
      <4> TAKE q \in Primitives, t \in Semantics
      <4>1. q # p \/ t # s => UnitsOf(entries[q][t]) \cap UnitsOf(entries[p][s]) = {}
        BY <1>1 DEF Shared
      <4> QED BY <3>2, <4>1
    <3>4. H = {<<p, s>>}
      <4> HIDE DEF H
      <4>1. <<p, s>> \in H
        BY <2>2, <3>2
      <4>2. ASSUME NEW h \in H PROVE h = <<p, s>>
        BY <2>2, <3>3
      <4> QED BY <4>1, <4>2
    <3> HIDE DEF I, H
    <3>5. Cardinality(I) = 0 /\ Cardinality(H) = 1
      BY <3>1, <3>4, FS_Singleton, FS_EmptySet
    <3>6. Cardinality(I) + Cardinality(H) = 1
      BY <3>5
    <3> QED BY <3>6 DEF I, H
  <2> QED BY <2>3, <2>4
<1> QED BY <1>3, <1>4, <1>5 DEF FreeListRight, Partition

(* No sequence of setData() and ~Impl loses a unit of the buffer, gives    *)
(* one to two attributes or leaves two free segments that touch.           *)
THEOREM SegmentsShareBuffer == Spec => []FreeListRight
<1>1. Spec => []SegmentsInv
  BY SegmentsInit, SegmentsNext, PTL DEF Spec
<1> QED BY <1>1, SharedCounts, PTL

(* The mask of a primitive says what data it has, the data that was        *)
(* refused in the place of other data included.                            *)
THEOREM MaskSaysHeld == Spec => []MaskIsHeld
<1>1. Spec => []SegmentsInv
  BY SegmentsInit, SegmentsNext, PTL DEF Spec
<1>2. SegmentsInv => MaskIsHeld
  BY DEF SegmentsInv
<1> QED BY <1>1, <1>2, PTL
=============================================================================
