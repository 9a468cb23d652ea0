--------------------------- MODULE Renderer_proofs ---------------------------
(***************************************************************************)
(* Proofs about Renderer, for any scenes, masks, passes and sizes.         *)
(***************************************************************************)
EXTENDS Renderer, Numbers_proofs, SequenceTheorems, FunctionTheorems, TLAPS

-----------------------------------------------------------------------------
(* What the steps of render() keep true.                                   *)

Waiting == Ids(opaque) \cup Ids(blend)

Distinct(s) == \A i, j \in 1..Len(s) : s[i] = s[j] => i = j

(* The drawables that wait are different ones of the scene.                *)
QueuesInv ==
  /\ Distinct(opaque) /\ Distinct(blend)
  /\ Ids(opaque) \cap Ids(blend) = {}
  /\ Waiting \subseteq 1..pushed

(* The drawables of W that use k, by a function of what each of them uses. *)
Users(use, W, k) == {d \in W : use[d] = k}
TableUse == [d \in 1..Len(scene) |-> TableFor(d)]
ShaderUse == [d \in 1..Len(scene) |-> ShaderOf[MaskOf(d)]]

(* The counts cover them, exactly if nothing was thrown.                   *)
Cover(exact, n, D) == n >= Cardinality(D) /\ (exact => n = Cardinality(D))

CountsInv ==
  /\ \A k \in TableKeys :
       Cover(intact, tables[k].count, Users(TableUse, Waiting, k))
  /\ \A m \in Masks : Cover(intact, stateCount[m], Users(scene, Waiting, m))
  /\ \A k \in ShaderKeys :
       Cover(intact, shaderCount[k], Users(ShaderUse, Waiting, k))

(* What the waiting drawables need exists.                                 *)
StatesInv ==
  \A d \in Waiting :
    /\ states[MaskOf(d)] # None
    /\ ShaderOf[MaskOf(d)] \in shaders.vert \cap shaders.frag
    /\ tables[TableFor(d)].made

(* A table that does not exist has nothing; nor has one that no drawable   *)
(* needs, while fewer allocations are tried.                               *)
TablesInv ==
  /\ \A k \in TableKeys : ~tables[k].made =>
       /\ tables[k].count = 0
       /\ tables[k].remaining = 0
       /\ tables[k].allocations = 0
  /\ pc = "fewer" => \A k \in TableKeys : tables[k].count = 0 =>
       /\ tables[k].remaining = 0
       /\ tables[k].allocations = 0

(* render() runs, or ran without an exception, and the lists and counts    *)
(* are right; what threw leaves lists behind that the next call clears.    *)
Live == Busy \/ (pc = "idle" /\ intact)

CachesInv ==
  /\ TypeOK /\ TablesInv
  /\ pc = "idle" /\ intact => opaque = <<>> /\ blend = <<>>
  /\ \A m \in Masks : states[m] \in {None, pass}
  /\ Busy => pass \in Passes
  /\ Live => QueuesInv /\ CountsInv /\ StatesInv
  /\ pc = "opaque" => turns <= Len(opaque)

-----------------------------------------------------------------------------
(* The lists of drawables.                                                 *)

(* A list with one more.                                                   *)
LEMMA Appended ==
  ASSUME NEW s \in Seq(Nat), NEW d \in Nat
  PROVE  /\ Append(s, d) \in Seq(Nat)
         /\ Len(Append(s, d)) = Len(s) + 1
         /\ Ids(Append(s, d)) = Ids(s) \cup {d}
         /\ Distinct(s) /\ d \notin Ids(s) => Distinct(Append(s, d))
<1>1. /\ Append(s, d) \in Seq(Nat)
      /\ Len(Append(s, d)) = Len(s) + 1
      /\ \A i \in 1..Len(s) : Append(s, d)[i] = s[i]
      /\ Append(s, d)[Len(s) + 1] = d
  BY AppendProperties
<1>2. PICK t \in Seq(Nat) : t = Append(s, d)
  BY <1>1
<1>3. PICK n \in Nat : n = Len(s)
  OBVIOUS
<1>4. /\ Len(t) = n + 1 /\ t[n + 1] = d
      /\ DOMAIN t = 1..(n + 1) /\ DOMAIN s = 1..n
  BY <1>1, <1>2, <1>3, LenProperties
<1>5. \A i \in 1..n : t[i] = s[i]
  BY <1>1, <1>2, <1>3
<1>6. /\ \A i \in 1..(n + 1) : i = n + 1 \/ i \in 1..n
      /\ n + 1 \in 1..(n + 1) /\ 1..n \subseteq 1..(n + 1)
  OBVIOUS
<1>7. Ids(t) = Ids(s) \cup {d}
  BY <1>4, <1>5, <1>6 DEF Ids
<1>8. ASSUME Distinct(s), d \notin Ids(s) PROVE Distinct(t)
  <2> SUFFICES ASSUME NEW i \in 1..(n + 1), NEW j \in 1..(n + 1), t[i] = t[j]
               PROVE  i = j
    BY <1>4 DEF Distinct
  <2>1. \A l \in 1..n : t[l] # d
    BY <1>4, <1>5, <1>8 DEF Ids
  <2>2. CASE i \in 1..n /\ j \in 1..n
    BY <2>2, <1>3, <1>5, <1>8 DEF Distinct
  <2> QED BY <2>1, <2>2, <1>4, <1>6
<1> QED BY <1>1, <1>2, <1>7, <1>8

(* A list without its first.                                               *)
LEMMA Removed ==
  ASSUME NEW s \in Seq(Nat), s # <<>>
  PROVE  /\ Head(s) \in Nat /\ Head(s) \in Ids(s)
         /\ Tail(s) \in Seq(Nat)
         /\ Len(Tail(s)) = Len(s) - 1
         /\ Ids(s) = Ids(Tail(s)) \cup {Head(s)}
         /\ Distinct(s) => Distinct(Tail(s)) /\ Head(s) \notin Ids(Tail(s))
<1>1. /\ Tail(s) \in Seq(Nat)
      /\ Len(Tail(s)) = Len(s) - 1
      /\ \A i \in 1..Len(Tail(s)) : Tail(s)[i] = s[i + 1]
      /\ Len(s) \in Nat \ {0}
  BY HeadTailProperties, EmptySeq
<1>2. PICK t \in Seq(Nat) : t = Tail(s)
  BY <1>1
<1>3. PICK n \in Nat \ {0} : n = Len(s)
  BY <1>1
<1>4. /\ Len(t) = n - 1
      /\ DOMAIN t = 1..(n - 1) /\ DOMAIN s = 1..n
  BY <1>1, <1>2, <1>3, LenProperties
<1>5. \A i \in 1..(n - 1) : i + 1 \in 1..n /\ t[i] = s[i + 1]
  BY <1>1, <1>2, <1>3
<1>6. \A i \in 1..n : i = 1 \/ (i - 1 \in 1..(n - 1) /\ s[i] = t[i - 1])
  BY <1>5
<1>7. Head(s) = s[1] /\ s[1] \in Nat /\ s[1] \in Ids(s)
  BY <1>3, <1>4 DEF Ids
<1>8. Ids(s) = Ids(t) \cup {s[1]}
  <2>1. ASSUME NEW x \in Ids(s) PROVE x \in Ids(t) \/ x = s[1]
    <3>1. PICK i \in 1..n : x = s[i]
      BY <2>1, <1>4 DEF Ids
    <3> QED BY <3>1, <1>4, <1>6 DEF Ids
  <2>2. ASSUME NEW x \in Ids(t) PROVE x \in Ids(s)
    <3>1. PICK i \in 1..(n - 1) : x = t[i]
      BY <2>2, <1>4 DEF Ids
    <3> QED BY <3>1, <1>4, <1>5 DEF Ids
  <2> QED BY <2>1, <2>2, <1>7
<1>9. ASSUME Distinct(s) PROVE Distinct(t) /\ s[1] \notin Ids(t)
  <2>1. \A i, j \in 1..n : s[i] = s[j] => i = j
    BY <1>3, <1>9 DEF Distinct
  <2>2. ASSUME NEW i \in 1..(n - 1), NEW j \in 1..(n - 1), t[i] = t[j]
        PROVE  i = j
    <3>1. i + 1 = j + 1
      BY <2>1, <2>2, <1>5
    <3> QED BY <3>1
  <2>3. ASSUME NEW i \in 1..(n - 1), t[i] = s[1] PROVE FALSE
    <3>1. i + 1 = 1
      BY <2>1, <2>3, <1>5
    <3> QED BY <3>1
  <2>4. Distinct(t)
    BY <1>4, <2>2 DEF Distinct
  <2> QED BY <1>4, <2>3, <2>4 DEF Ids
<1> QED BY <1>1, <1>2, <1>7, <1>8, <1>9

(* What users a key loses or gains with one drawable.                      *)
LEMMA UsersRemoved ==
  ASSUME NEW use, NEW W, IsFiniteSet(W), NEW d \in W, NEW k
  PROVE  /\ IsFiniteSet(Users(use, W, k))
         /\ Cardinality(Users(use, W, k)) \in Nat
         /\ use[d] = k => /\ Cardinality(Users(use, W, k)) > 0
                          /\ Cardinality(Users(use, W \ {d}, k)) =
                               Cardinality(Users(use, W, k)) - 1
         /\ use[d] # k => Users(use, W \ {d}, k) = Users(use, W, k)
<1>1. /\ IsFiniteSet(Users(use, W, k))
      /\ Cardinality(Users(use, W, k)) \in Nat
  <2>1. Users(use, W, k) \in SUBSET W
    BY DEF Users
  <2> QED BY <2>1, FS_Subset, FS_CardinalityType
<1>2. ASSUME use[d] = k
      PROVE  /\ Cardinality(Users(use, W, k)) > 0
             /\ Cardinality(Users(use, W \ {d}, k)) =
                  Cardinality(Users(use, W, k)) - 1
  <2>1. PICK U : U = Users(use, W, k)
    OBVIOUS
  <2>2. Users(use, W \ {d}, k) = U \ {d} /\ d \in U
    BY <1>2, <2>1 DEF Users
  <2>3. IsFiniteSet(U) /\ Cardinality(U) \in Nat
    BY <1>1, <2>1
  <2>4. Cardinality(U \ {d}) = Cardinality(U) - 1
    BY <2>2, <2>3, FS_RemoveElement
  <2>5. Cardinality(U) # 0
    BY <2>2, <2>3, FS_EmptySet
  <2> QED BY <2>1, <2>2, <2>3, <2>4, <2>5
<1>3. use[d] # k => Users(use, W \ {d}, k) = Users(use, W, k)
  BY DEF Users
<1> QED BY <1>1, <1>2, <1>3

(* One more drawable adds one user of the key that it uses, and none of    *)
(* others.                                                                 *)
LEMMA UsersAdded ==
  ASSUME NEW use, NEW W, IsFiniteSet(W), NEW d, d \notin W, NEW k
  PROVE  /\ IsFiniteSet(Users(use, W, k))
         /\ Cardinality(Users(use, W, k)) \in Nat
         /\ use[d] = k => Cardinality(Users(use, W \cup {d}, k)) =
                            Cardinality(Users(use, W, k)) + 1
         /\ use[d] # k => Users(use, W \cup {d}, k) = Users(use, W, k)
<1>1. /\ IsFiniteSet(Users(use, W, k))
      /\ Cardinality(Users(use, W, k)) \in Nat
  <2>1. Users(use, W, k) \in SUBSET W
    BY DEF Users
  <2> QED BY <2>1, FS_Subset, FS_CardinalityType
<1>2. ASSUME use[d] = k
      PROVE  Cardinality(Users(use, W \cup {d}, k)) =
               Cardinality(Users(use, W, k)) + 1
  <2>1. /\ Users(use, W \cup {d}, k) = Users(use, W, k) \cup {d}
        /\ d \notin Users(use, W, k)
    BY <1>2 DEF Users
  <2> QED BY <1>1, <2>1, FS_AddElement
<1>3. use[d] # k => Users(use, W \cup {d}, k) = Users(use, W, k)
  BY DEF Users
<1> QED BY <1>1, <1>2, <1>3

-----------------------------------------------------------------------------
(* The counts.                                                             *)

Table == [made : BOOLEAN, count : Nat, allocations : Nat, remaining : Nat]

(* The drawables that wait are finitely many, and use keys that there are. *)
LEMMA WaitingRight ==
  ASSUME TypeOK, QueuesInv
  PROVE  /\ IsFiniteSet(Waiting) /\ Waiting \subseteq 1..Len(scene)
         /\ \A d \in 1..Len(scene) :
              /\ MaskOf(d) \in Masks /\ scene[d] = MaskOf(d)
              /\ TableFor(d) \in TableKeys /\ TableUse[d] = TableFor(d)
              /\ TableFor(d) = TableOf[MaskOf(d)]
              /\ ShaderUse[d] \in ShaderKeys /\ ShaderUse[d] = ShaderOf[MaskOf(d)]
<1>1. pushed \in Nat /\ 1..pushed \subseteq 1..Len(scene)
  BY DEF TypeOK
<1>2. IsFiniteSet(1..pushed)
  BY <1>1, FS_Interval
<1>3. IsFiniteSet(Waiting)
  BY <1>2, FS_Subset DEF QueuesInv
<1>4. \A d \in 1..Len(scene) : scene[d] \in Masks
  BY DEF TypeOK
<1> QED BY <1>1, <1>3, <1>4 DEF QueuesInv, MaskOf, TableFor, TableUse, ShaderUse,
           TableKeys, ShaderKeys

(* A count that falls with a drawable that is drawn.                       *)
LEMMA CoverLess ==
  ASSUME NEW use, NEW W, IsFiniteSet(W), NEW d \in W, NEW k, NEW n \in Nat,
         NEW exact, Cover(exact, n, Users(use, W, k))
  PROVE  /\ use[d] = k => n > 0 /\ Cover(exact, n - 1, Users(use, W \ {d}, k))
         /\ use[d] # k => Cover(exact, n, Users(use, W \ {d}, k))
<1>1. /\ Cardinality(Users(use, W, k)) \in Nat
      /\ use[d] = k => /\ Cardinality(Users(use, W, k)) > 0
                       /\ Cardinality(Users(use, W \ {d}, k)) =
                            Cardinality(Users(use, W, k)) - 1
      /\ use[d] # k => Users(use, W \ {d}, k) = Users(use, W, k)
  BY UsersRemoved
<1> QED BY <1>1 DEF Cover

(* A count that rises with a drawable that is pushed.                      *)
LEMMA CoverMore ==
  ASSUME NEW use, NEW W, IsFiniteSet(W), NEW d, d \notin W, NEW k, NEW n \in Nat,
         NEW exact, Cover(exact, n, Users(use, W, k))
  PROVE  /\ use[d] = k => Cover(exact, n + 1, Users(use, W \cup {d}, k))
         /\ use[d] # k => Cover(exact, n, Users(use, W \cup {d}, k))
<1>1. /\ Cardinality(Users(use, W, k)) \in Nat
      /\ use[d] = k => Cardinality(Users(use, W \cup {d}, k)) =
                         Cardinality(Users(use, W, k)) + 1
      /\ use[d] # k => Users(use, W \cup {d}, k) = Users(use, W, k)
  BY UsersAdded
<1> QED BY <1>1 DEF Cover

(* No drawable waits for anything.                                         *)
LEMMA CoverNone ==
  ASSUME NEW use, NEW k, NEW n \in Nat, NEW exact, exact => n = 0
  PROVE  Cover(exact, n, Users(use, {}, k))
<1>1. Users(use, {}, k) = {}
  BY DEF Users
<1> QED BY <1>1, FS_EmptySet DEF Cover

(* What renderDrawable does to the counts of what it draws, and to the     *)
(* tables.                                                                 *)
LEMMA DrawCounts ==
  ASSUME TypeOK, QueuesInv, CountsInv, NEW d \in Waiting, ~OutOfResources(d),
         Draw(d), Waiting' = Waiting \ {d}, scene' = scene, intact' = intact
  PROVE  /\ CountsInv'
         /\ tables' \in [TableKeys -> Table]
         /\ stateCount' \in [Masks -> Nat] /\ shaderCount' \in [ShaderKeys -> Nat]
         /\ \A k \in TableKeys :
              /\ tables'[k].made = tables[k].made
              /\ tables'[k].allocations = tables[k].allocations
              /\ k # TableFor(d) => tables'[k] = tables[k]
              /\ k = TableFor(d) => /\ tables[k].count > 0
                                    /\ tables[k].remaining > 0
                                    /\ tables'[k].count = tables[k].count - 1
                                    /\ tables'[k].remaining = tables[k].remaining - 1
<1> DEFINE W == Waiting  m == MaskOf(d)  t == TableFor(d)  s == ShaderOf[MaskOf(d)]
<1>1. /\ IsFiniteSet(W) /\ d \in 1..Len(scene)
      /\ m \in Masks /\ scene[d] = m
      /\ t \in TableKeys /\ TableUse[d] = t /\ TableOf[m] = t
      /\ s \in ShaderKeys /\ ShaderUse[d] = s
  BY WaitingRight
<1>2. /\ tables \in [TableKeys -> Table] /\ stateCount \in [Masks -> Nat]
      /\ shaderCount \in [ShaderKeys -> Nat]
  BY DEF TypeOK, Table
<1>3. \A k \in TableKeys : tables[k] \in Table /\ tables[k].count \in Nat
  BY <1>2 DEF Table
<1>4. \A k \in TableKeys :
        /\ TableUse[d] = k =>
             /\ tables[k].count > 0
             /\ Cover(intact, tables[k].count - 1, Users(TableUse, W \ {d}, k))
        /\ TableUse[d] # k =>
             Cover(intact, tables[k].count, Users(TableUse, W \ {d}, k))
  <2> SUFFICES ASSUME NEW k \in TableKeys
               PROVE  /\ TableUse[d] = k =>
                           /\ tables[k].count > 0
                           /\ Cover(intact, tables[k].count - 1,
                                    Users(TableUse, W \ {d}, k))
                      /\ TableUse[d] # k =>
                           Cover(intact, tables[k].count, Users(TableUse, W \ {d}, k))
    OBVIOUS
  <2>1. tables[k].count \in Nat
    BY <1>3
  <2>2. Cover(intact, tables[k].count, Users(TableUse, W, k))
    BY DEF CountsInv
  <2> QED BY <1>1, <2>1, <2>2, CoverLess, Zenon
<1>5. \A k \in Masks :
        /\ scene[d] = k => /\ stateCount[k] > 0
                           /\ Cover(intact, stateCount[k] - 1, Users(scene, W \ {d}, k))
        /\ scene[d] # k => Cover(intact, stateCount[k], Users(scene, W \ {d}, k))
  <2> SUFFICES ASSUME NEW k \in Masks
               PROVE  /\ scene[d] = k =>
                           /\ stateCount[k] > 0
                           /\ Cover(intact, stateCount[k] - 1, Users(scene, W \ {d}, k))
                      /\ scene[d] # k =>
                           Cover(intact, stateCount[k], Users(scene, W \ {d}, k))
    OBVIOUS
  <2>1. stateCount[k] \in Nat
    BY <1>2
  <2>2. Cover(intact, stateCount[k], Users(scene, W, k))
    BY DEF CountsInv
  <2> QED BY <1>1, <2>1, <2>2, CoverLess, Zenon
<1>6. \A k \in ShaderKeys :
        /\ ShaderUse[d] = k =>
             /\ shaderCount[k] > 0
             /\ Cover(intact, shaderCount[k] - 1, Users(ShaderUse, W \ {d}, k))
        /\ ShaderUse[d] # k =>
             Cover(intact, shaderCount[k], Users(ShaderUse, W \ {d}, k))
  <2> SUFFICES ASSUME NEW k \in ShaderKeys
               PROVE  /\ ShaderUse[d] = k =>
                           /\ shaderCount[k] > 0
                           /\ Cover(intact, shaderCount[k] - 1,
                                    Users(ShaderUse, W \ {d}, k))
                      /\ ShaderUse[d] # k =>
                           Cover(intact, shaderCount[k], Users(ShaderUse, W \ {d}, k))
    OBVIOUS
  <2>1. shaderCount[k] \in Nat
    BY <1>2
  <2>2. Cover(intact, shaderCount[k], Users(ShaderUse, W, k))
    BY DEF CountsInv
  <2> QED BY <1>1, <2>1, <2>2, CoverLess, Zenon
<1>7. /\ tables' = [tables EXCEPT ![t].remaining = @ - 1, ![t].count = @ - 1]
      /\ stateCount' = [stateCount EXCEPT ![m] = @ - 1]
      /\ shaderCount' = [shaderCount EXCEPT ![s] = @ - 1]
  BY <1>1 DEF Draw
<1>8. TableUse' = TableUse /\ ShaderUse' = ShaderUse /\ Waiting' = W \ {d}
  BY DEF TableUse, ShaderUse, TableFor, MaskOf
<1>9. tables[t].remaining # 0
  BY DEF OutOfResources
<1> HIDE DEF W, m, t, s
<1>10. /\ tables' \in [TableKeys -> Table]
       /\ \A k \in TableKeys :
            /\ tables'[k].made = tables[k].made
            /\ tables'[k].allocations = tables[k].allocations
            /\ k # t => tables'[k] = tables[k]
            /\ k = t => /\ tables[k].count > 0
                        /\ tables[k].remaining > 0
                        /\ tables'[k].count = tables[k].count - 1
                        /\ tables'[k].remaining = tables[k].remaining - 1
  <2>1. tables[t].count > 0
    BY <1>1, <1>4
  <2>2. PICK r \in Table : r = tables[t]
    BY <1>1, <1>3
  <2>3. r.count > 0 /\ r.remaining > 0 /\ r.count \in Nat /\ r.remaining \in Nat
    BY <2>1, <2>2, <1>9 DEF Table
  <2>4. PICK new : new = [r EXCEPT !.remaining = @ - 1, !.count = @ - 1]
    OBVIOUS
  <2>5. /\ new \in Table /\ new.made = r.made /\ new.allocations = r.allocations
        /\ new.count = r.count - 1 /\ new.remaining = r.remaining - 1
    <3>1. /\ new.made = r.made /\ new.allocations = r.allocations
          /\ new.count = r.count - 1 /\ new.remaining = r.remaining - 1
      BY <2>4 DEF Table
    <3>2. new = [made |-> r.made, count |-> r.count - 1,
                 allocations |-> r.allocations, remaining |-> r.remaining - 1]
      BY <2>4 DEF Table
    <3>3. r.made \in BOOLEAN /\ r.allocations \in Nat
      BY DEF Table
    <3>4. new \in Table
      BY <3>2, <3>3, <2>3 DEF Table
    <3> QED BY <3>1, <3>4
  <2>6. tables' = [tables EXCEPT ![t] = new]
    BY <1>1, <1>2, <1>7, <2>2, <2>4
  <2> QED BY <1>1, <1>2, <2>2, <2>3, <2>5, <2>6
<1>11. /\ stateCount' \in [Masks -> Nat]
       /\ \A k \in Masks : stateCount'[k] = IF k = m THEN stateCount[k] - 1
                                                      ELSE stateCount[k]
  BY <1>1, <1>2, <1>5, <1>7
<1>12. /\ shaderCount' \in [ShaderKeys -> Nat]
       /\ \A k \in ShaderKeys : shaderCount'[k] = IF k = s THEN shaderCount[k] - 1
                                                            ELSE shaderCount[k]
  BY <1>1, <1>2, <1>6, <1>7
<1>13. \A k \in TableKeys :
         Cover(intact, tables'[k].count, Users(TableUse, Waiting', k))
  BY <1>1, <1>4, <1>8, <1>10
<1>14. \A k \in Masks : Cover(intact, stateCount'[k], Users(scene, Waiting', k))
  BY <1>1, <1>5, <1>8, <1>11
<1>15. \A k \in ShaderKeys :
         Cover(intact, shaderCount'[k], Users(ShaderUse, Waiting', k))
  BY <1>1, <1>6, <1>8, <1>12
<1>16. CountsInv'
  BY <1>8, <1>13, <1>14, <1>15 DEF CountsInv
<1> QED BY <1>10, <1>11, <1>12, <1>16 DEF t

(* What setState does to the counts of what a drawable needs, and to the   *)
(* tables.                                                                 *)
LEMMA PushCounts ==
  ASSUME TypeOK, QueuesInv, CountsInv, NEW d \in 1..Len(scene), d \notin Waiting,
         SetState(scene[d]), Waiting' = Waiting \cup {d}, scene' = scene,
         intact' = intact
  PROVE  /\ CountsInv'
         /\ tables' \in [TableKeys -> Table]
         /\ stateCount' \in [Masks -> Nat] /\ shaderCount' \in [ShaderKeys -> Nat]
         /\ \A k \in TableKeys :
              /\ tables[k].made => tables'[k].made
              /\ k # TableFor(d) => tables'[k] = tables[k]
              /\ k = TableFor(d) => tables'[k].made
<1> DEFINE W == Waiting  m == MaskOf(d)  t == TableFor(d)  s == ShaderOf[MaskOf(d)]
<1>1. /\ IsFiniteSet(W) /\ d \in 1..Len(scene)
      /\ m \in Masks /\ scene[d] = m
      /\ t \in TableKeys /\ TableUse[d] = t /\ TableOf[m] = t
      /\ s \in ShaderKeys /\ ShaderUse[d] = s
  BY WaitingRight
<1>2. /\ tables \in [TableKeys -> Table] /\ stateCount \in [Masks -> Nat]
      /\ shaderCount \in [ShaderKeys -> Nat]
  BY DEF TypeOK, Table
<1>3. \A k \in TableKeys : tables[k] \in Table /\ tables[k].count \in Nat
  BY <1>2 DEF Table
<1>4. \A k \in TableKeys :
        /\ TableUse[d] = k =>
             Cover(intact, tables[k].count + 1, Users(TableUse, W \cup {d}, k))
        /\ TableUse[d] # k =>
             Cover(intact, tables[k].count, Users(TableUse, W \cup {d}, k))
  <2> SUFFICES ASSUME NEW k \in TableKeys
               PROVE  /\ TableUse[d] = k =>
                           Cover(intact, tables[k].count + 1,
                                 Users(TableUse, W \cup {d}, k))
                      /\ TableUse[d] # k =>
                           Cover(intact, tables[k].count,
                                 Users(TableUse, W \cup {d}, k))
    OBVIOUS
  <2>1. tables[k].count \in Nat
    BY <1>3
  <2>2. Cover(intact, tables[k].count, Users(TableUse, W, k))
    BY DEF CountsInv
  <2> QED BY <1>1, <2>1, <2>2, CoverMore, Zenon
<1>5. \A k \in Masks :
        /\ scene[d] = k =>
             Cover(intact, stateCount[k] + 1, Users(scene, W \cup {d}, k))
        /\ scene[d] # k => Cover(intact, stateCount[k], Users(scene, W \cup {d}, k))
  <2> SUFFICES ASSUME NEW k \in Masks
               PROVE  /\ scene[d] = k =>
                           Cover(intact, stateCount[k] + 1,
                                 Users(scene, W \cup {d}, k))
                      /\ scene[d] # k =>
                           Cover(intact, stateCount[k], Users(scene, W \cup {d}, k))
    OBVIOUS
  <2>1. stateCount[k] \in Nat
    BY <1>2
  <2>2. Cover(intact, stateCount[k], Users(scene, W, k))
    BY DEF CountsInv
  <2> QED BY <1>1, <2>1, <2>2, CoverMore, Zenon
<1>6. \A k \in ShaderKeys :
        /\ ShaderUse[d] = k =>
             Cover(intact, shaderCount[k] + 1, Users(ShaderUse, W \cup {d}, k))
        /\ ShaderUse[d] # k =>
             Cover(intact, shaderCount[k], Users(ShaderUse, W \cup {d}, k))
  <2> SUFFICES ASSUME NEW k \in ShaderKeys
               PROVE  /\ ShaderUse[d] = k =>
                           Cover(intact, shaderCount[k] + 1,
                                 Users(ShaderUse, W \cup {d}, k))
                      /\ ShaderUse[d] # k =>
                           Cover(intact, shaderCount[k],
                                 Users(ShaderUse, W \cup {d}, k))
    OBVIOUS
  <2>1. shaderCount[k] \in Nat
    BY <1>2
  <2>2. Cover(intact, shaderCount[k], Users(ShaderUse, W, k))
    BY DEF CountsInv
  <2> QED BY <1>1, <2>1, <2>2, CoverMore, Zenon
<1>7. /\ tables' = [tables EXCEPT ![t].made = TRUE, ![t].count = @ + 1]
      /\ stateCount' = [stateCount EXCEPT ![m] = @ + 1]
      /\ shaderCount' = [shaderCount EXCEPT ![s] = @ + 1]
  BY <1>1 DEF SetState
<1>8. TableUse' = TableUse /\ ShaderUse' = ShaderUse /\ Waiting' = W \cup {d}
  BY DEF TableUse, ShaderUse, TableFor, MaskOf
<1> HIDE DEF W, m, t, s
<1>9. /\ tables' \in [TableKeys -> Table]
      /\ \A k \in TableKeys :
           /\ tables[k].made => tables'[k].made
           /\ k # t => tables'[k] = tables[k]
           /\ k = t => tables'[k].made /\ tables'[k].count = tables[k].count + 1
  <2>1. PICK r \in Table : r = tables[t]
    BY <1>1, <1>3
  <2>2. PICK new : new = [r EXCEPT !.made = TRUE, !.count = @ + 1]
    OBVIOUS
  <2>3. new.made /\ new.count = r.count + 1
    BY <2>2 DEF Table
  <2>4. new = [made |-> TRUE, count |-> r.count + 1,
               allocations |-> r.allocations, remaining |-> r.remaining]
    BY <2>2 DEF Table
  <2>5. r.count \in Nat /\ r.allocations \in Nat /\ r.remaining \in Nat
    BY DEF Table
  <2>6. new \in Table
    BY <2>4, <2>5 DEF Table
  <2>7. tables' = [tables EXCEPT ![t] = new]
    BY <1>1, <1>2, <1>7, <2>1, <2>2
  <2> QED BY <1>1, <1>2, <2>1, <2>3, <2>6, <2>7
<1>10. /\ stateCount' \in [Masks -> Nat]
       /\ \A k \in Masks : stateCount'[k] = IF k = m THEN stateCount[k] + 1
                                                      ELSE stateCount[k]
  BY <1>1, <1>2, <1>7
<1>11. /\ shaderCount' \in [ShaderKeys -> Nat]
       /\ \A k \in ShaderKeys : shaderCount'[k] = IF k = s THEN shaderCount[k] + 1
                                                            ELSE shaderCount[k]
  BY <1>1, <1>2, <1>7
<1>12. \A k \in TableKeys :
         Cover(intact, tables'[k].count, Users(TableUse, Waiting', k))
  BY <1>1, <1>4, <1>8, <1>9
<1>13. \A k \in Masks : Cover(intact, stateCount'[k], Users(scene, Waiting', k))
  BY <1>1, <1>5, <1>8, <1>10
<1>14. \A k \in ShaderKeys :
         Cover(intact, shaderCount'[k], Users(ShaderUse, Waiting', k))
  BY <1>1, <1>6, <1>8, <1>11
<1>15. CountsInv'
  BY <1>8, <1>12, <1>13, <1>14 DEF CountsInv
<1> QED BY <1>9, <1>10, <1>11, <1>15 DEF t

-----------------------------------------------------------------------------
(* The steps keep CachesInv.                                               *)

(* A step that leaves what waits and the counts alone.                     *)
LEMMA SteadyCounts ==
  ASSUME QueuesInv, CountsInv, StatesInv,
         scene' = scene, Waiting' = Waiting, states' = states,
         stateCount' = stateCount, shaders' = shaders, shaderCount' = shaderCount,
         intact' = intact, TypeOK,
         \A k \in TableKeys : /\ tables'[k].count = tables[k].count
                              /\ tables'[k].made = tables[k].made
  PROVE  CountsInv' /\ StatesInv'
<1>1. TableUse' = TableUse /\ ShaderUse' = ShaderUse
  BY DEF TableUse, ShaderUse, TableFor, MaskOf
<1>2. CountsInv'
  BY <1>1 DEF CountsInv
<1>3. \A d \in Waiting : TableFor(d) \in TableKeys
  BY WaitingRight
<1>4. \A d \in Waiting : TableFor(d)' = TableFor(d) /\ MaskOf(d)' = MaskOf(d)
  BY DEF TableFor, MaskOf
<1> QED BY <1>2, <1>3, <1>4 DEF StatesInv

(* A step that neither touches the lists nor the counts.                   *)
LEMMA Steady ==
  ASSUME QueuesInv, CountsInv, StatesInv,
         scene' = scene, pass' = pass, pushed' = pushed, opaque' = opaque,
         blend' = blend, states' = states, stateCount' = stateCount,
         shaders' = shaders, shaderCount' = shaderCount, intact' = intact,
         TypeOK,
         \A k \in TableKeys : /\ tables'[k].count = tables[k].count
                              /\ tables'[k].made = tables[k].made
  PROVE  QueuesInv' /\ CountsInv' /\ StatesInv'
<1>1. Waiting' = Waiting
  BY DEF Waiting
<1>2. QueuesInv'
  BY <1>1 DEF QueuesInv
<1> QED BY <1>1, <1>2, SteadyCounts

(* What throws may leave wrong lists and counts.                           *)
LEMMA Thrown ==
  ASSUME TypeOK', Throw, \A m \in Masks : states'[m] \in {None, pass'},
         \A k \in TableKeys : ~tables'[k].made =>
           /\ tables'[k].count = 0
           /\ tables'[k].remaining = 0
           /\ tables'[k].allocations = 0
  PROVE  CachesInv'
<1>1. pc' = "idle" /\ ~intact'
  BY DEF Throw
<1>2. ~Live' /\ ~Busy'
  BY <1>1 DEF Live, Busy
<1>3. TablesInv'
  BY <1>1 DEF TablesInv
<1> QED BY <1>1, <1>2, <1>3 DEF CachesInv, Busy

(* An empty list of drawables has no ids, and no two of the same.          *)
LEMMA EmptyList == Ids(<<>>) = {} /\ Distinct(<<>>)
<1>1. Len(<<>>) = 0 /\ DOMAIN <<>> = 1..0
  OBVIOUS
<1> QED BY <1>1 DEF Ids, Distinct

(* The caches are empty at first, and nothing uses them.                   *)
LEMMA InitCaches == Init => CachesInv
<1> SUFFICES ASSUME Init PROVE CachesInv
  OBVIOUS
<1>1. TypeOK
  BY RendererAssumption DEF Init, TypeOK, Steps
<1>2. Waiting = {}
  BY EmptyList DEF Init, Waiting
<1>3. QueuesInv
  BY <1>2, EmptyList DEF QueuesInv, Init
<1>4. CountsInv
  BY <1>2, CoverNone DEF CountsInv, Init
<1>5. StatesInv
  BY <1>2 DEF StatesInv
<1>6. TablesInv
  BY DEF TablesInv, Init
<1> QED BY <1>1, <1>3, <1>4, <1>5, <1>6 DEF CachesInv, Init, Busy

(* A call begins with empty lists; what it finds counted, an exception     *)
(* left.                                                                   *)
LEMMA RenderCaches ==
  ASSUME CachesInv, NEW s \in Scenes, NEW p \in Passes, Render(s, p)
  PROVE  CachesInv'
<1> USE DEF Render
<1>1. s \in Seq(Masks) /\ Len(s) \in Nat
  BY RendererAssumption
<1>2. /\ states' \in [Masks -> Passes \cup {None}]
      /\ \A m \in Masks : states'[m] \in {None, pass'}
  BY DEF CachesInv, TypeOK, StatesFor
<1>3. stateCount' \in [Masks -> Nat]
  BY DEF CachesInv, TypeOK
<1>4. TypeOK'
  <2>1. renders' \in 0..MaxRenders
    BY RendererAssumption DEF CachesInv, TypeOK
  <2> QED BY <1>1, <1>2, <1>3, <2>1 DEF CachesInv, TypeOK, passVars, Steps
<1>5. Waiting' = {} /\ QueuesInv'
  BY EmptyList DEF Waiting, QueuesInv
<1>6. /\ \A k \in TableKeys : tables[k].count \in Nat
      /\ stateCount \in [Masks -> Nat] /\ shaderCount \in [ShaderKeys -> Nat]
  BY DEF CachesInv, TypeOK
<1>7. ASSUME intact
      PROVE  /\ \A k \in TableKeys : tables[k].count = 0
             /\ \A m \in Masks : stateCount'[m] = 0
             /\ \A k \in ShaderKeys : shaderCount[k] = 0
  <2>1. Waiting = {} /\ CountsInv
    BY <1>7, EmptyList DEF CachesInv, Waiting, Live
  <2>2. \A use, k : Cardinality(Users(use, {}, k)) = 0
    BY FS_EmptySet DEF Users
  <2>3. /\ \A k \in TableKeys : tables[k].count = 0
        /\ \A m \in Masks : stateCount[m] = 0
        /\ \A k \in ShaderKeys : shaderCount[k] = 0
    BY <1>7, <2>1, <2>2 DEF CountsInv, Cover
  <2> QED BY <2>3
<1>8. CountsInv'
  <2>1. \A use, k : \A n \in Nat :
          (intact => n = 0) => Cover(intact, n, Users(use, {}, k))
    BY CoverNone
  <2> QED BY <1>3, <1>5, <1>6, <1>7, <2>1 DEF CountsInv
<1>9. StatesInv'
  BY <1>5 DEF StatesInv
<1>10. TablesInv'
  BY DEF CachesInv, TablesInv
<1> QED BY <1>2, <1>4, <1>5, <1>8, <1>9, <1>10 DEF CachesInv

(* A primitive that is refused ends the call, and changes no cache.        *)
LEMMA RejectCaches ==
  ASSUME CachesInv, RejectPrimitive
  PROVE  CachesInv'
<1>1. TypeOK'
  BY DEF CachesInv, TypeOK, RejectPrimitive, Throw, graphVars, cacheVars, passVars,
         Steps
<1> QED BY <1>1, Thrown
        DEF CachesInv, TablesInv, RejectPrimitive, graphVars, cacheVars

(* The end of the traversal changes no cache.                              *)
LEMMA GraphDoneCaches ==
  ASSUME CachesInv, GraphDone
  PROVE  CachesInv'
<1> USE DEF GraphDone, graphVars, cacheVars, passVars, historyVars
<1>1. TypeOK'
  BY DEF CachesInv, TypeOK, Steps
<1>2. QueuesInv' /\ CountsInv' /\ StatesInv'
  BY Steady DEF CachesInv, Live, Busy
<1>3. TablesInv'
  BY DEF CachesInv, TablesInv
<1> QED BY <1>1, <1>2, <1>3 DEF CachesInv, Busy

(* A drawable that is pushed counts in the state and the table that it     *)
(* will use, and in no other.                                              *)
LEMMA PushCaches ==
  ASSUME CachesInv, PushDrawable
  PROVE  CachesInv'
<1> DEFINE d == pushed + 1
<1>1. /\ pc = "graph" /\ TypeOK /\ Live /\ QueuesInv /\ CountsInv /\ StatesInv
      /\ TablesInv /\ pass \in Passes /\ pass # None
      /\ \A m \in Masks : states[m] \in {None, pass}
  BY RendererAssumption DEF PushDrawable, CachesInv, Live, Busy
<1>2. /\ scene' = scene /\ pass' = pass /\ unifBuffer' = unifBuffer
      /\ offset' = offset /\ turns' = turns /\ recorded' = recorded
      /\ Enlist(d)
  BY DEF PushDrawable, passVars
<1>3. /\ d \in 1..Len(scene) /\ d \in Nat /\ d \notin Waiting
      /\ Waiting \subseteq 1..d
  BY <1>1 DEF PushDrawable, TypeOK, QueuesInv
<1>4. /\ d \notin Ids(opaque) /\ d \notin Ids(blend)
      /\ opaque \in Seq(Nat) /\ blend \in Seq(Nat)
  BY <1>1, <1>3 DEF Waiting, TypeOK
<1>5. MaskOf(d) = scene[d] /\ scene[d] \in Masks
  BY <1>1, <1>3 DEF TypeOK, MaskOf
<1> HIDE DEF d
<1>6. /\ pushed' = d /\ pushed' \in 0..Len(scene)
      /\ opaque' \in Seq(Nat) /\ blend' \in Seq(Nat)
      /\ QueuesInv' /\ Waiting' = Waiting \cup {d}
  <2>1. pushed' = d
    BY <1>2 DEF Enlist
  <2>2. CASE IsBlended(d)
    <3>1. blend' = Append(blend, d) /\ opaque' = opaque
      BY <1>2, <2>2 DEF Enlist
    <3>2. /\ blend' \in Seq(Nat) /\ Ids(blend') = Ids(blend) \cup {d}
          /\ Distinct(blend')
      BY <3>1, <1>1, <1>3, <1>4, Appended DEF QueuesInv
    <3>3. Waiting' = Waiting \cup {d}
      BY <3>1, <3>2 DEF Waiting
    <3>4. QueuesInv'
      BY <1>1, <1>3, <1>4, <2>1, <3>1, <3>2, <3>3 DEF QueuesInv
    <3> QED BY <1>3, <1>4, <2>1, <3>1, <3>2, <3>3, <3>4
  <2>3. CASE ~IsBlended(d)
    <3>1. opaque' = Append(opaque, d) /\ blend' = blend
      BY <1>2, <2>3 DEF Enlist
    <3>2. /\ opaque' \in Seq(Nat) /\ Ids(opaque') = Ids(opaque) \cup {d}
          /\ Distinct(opaque')
      BY <3>1, <1>1, <1>3, <1>4, Appended DEF QueuesInv
    <3>3. Waiting' = Waiting \cup {d}
      BY <3>1, <3>2 DEF Waiting
    <3>4. QueuesInv'
      BY <1>1, <1>3, <1>4, <2>1, <3>1, <3>2, <3>3 DEF QueuesInv
    <3> QED BY <1>3, <1>4, <2>1, <3>1, <3>2, <3>3, <3>4
  <2> QED BY <2>2, <2>3
<1>7. /\ ShaderOf[scene[d]] \in ShaderKeys /\ TableOf[scene[d]] \in TableKeys
      /\ TableFor(d) = TableOf[scene[d]]
  BY <1>5 DEF ShaderKeys, TableKeys, TableFor
<1>8. CASE SetState(scene[d]) /\ UNCHANGED <<pc, historyVars>>
  <2>1. /\ CountsInv'
        /\ tables' \in [TableKeys -> Table]
        /\ stateCount' \in [Masks -> Nat] /\ shaderCount' \in [ShaderKeys -> Nat]
        /\ \A k \in TableKeys :
             /\ tables[k].made => tables'[k].made
             /\ k # TableFor(d) => tables'[k] = tables[k]
             /\ k = TableFor(d) => tables'[k].made
    <3>1. intact' = intact
      BY <1>8 DEF historyVars
    <3> QED BY <1>1, <1>2, <1>3, <1>6, <1>8, <3>1, PushCounts, Zenon
  <2>2. /\ states' \in [Masks -> Passes \cup {None}]
        /\ \A m \in Masks : /\ states'[m] \in {None, pass}
                            /\ states[m] # None => states'[m] # None
        /\ states'[scene[d]] # None
    BY <1>1, <1>5, <1>8 DEF SetState, TypeOK
  <2>3. /\ shaders' \in [vert : SUBSET ShaderKeys, frag : SUBSET ShaderKeys]
        /\ shaders.vert \subseteq shaders'.vert /\ shaders.frag \subseteq shaders'.frag
        /\ ShaderOf[scene[d]] \in shaders'.vert \cap shaders'.frag
    BY <1>1, <1>7, <1>8 DEF SetState, TypeOK
  <2>4. TypeOK'
    <3>1. tables' \in [TableKeys -> [made : BOOLEAN, count : Nat, allocations : Nat,
                                     remaining : Nat]]
      BY <2>1 DEF Table
    <3> QED BY <1>1, <1>2, <1>6, <1>8, <2>1, <2>2, <2>3, <3>1 DEF TypeOK, historyVars
  <2>5. StatesInv'
    <3> SUFFICES ASSUME NEW e \in Waiting'
                 PROVE  /\ states'[scene[e]] # None
                        /\ ShaderOf[scene[e]] \in shaders'.vert \cap shaders'.frag
                        /\ tables'[TableOf[scene[e]]].made
      BY <1>2 DEF StatesInv, MaskOf, TableFor
    <3>1. CASE e = d
      BY <3>1, <1>7, <2>1, <2>2, <2>3
    <3>2. CASE e \in Waiting
      <4>1. scene[e] \in Masks /\ TableOf[scene[e]] \in TableKeys
        BY <3>2, <1>1, WaitingRight DEF MaskOf, TableFor
      <4>2. /\ states[scene[e]] # None
            /\ ShaderOf[scene[e]] \in shaders.vert \cap shaders.frag
            /\ tables[TableOf[scene[e]]].made
        BY <3>2, <1>1 DEF StatesInv, MaskOf, TableFor
      <4> QED BY <4>1, <4>2, <2>1, <2>2, <2>3
    <3> QED BY <3>1, <3>2, <1>6
  <2>6. TablesInv'
    BY <1>1, <1>8, <2>1 DEF TablesInv
  <2> QED BY <1>1, <1>2, <1>6, <1>8, <2>1, <2>2, <2>4, <2>5, <2>6 DEF CachesInv
<1>9. CASE SetStateFails(scene[d]) /\ Throw
  <2>1. /\ states' = states /\ stateCount' = stateCount
        /\ shaderCount' = shaderCount
    BY <1>9 DEF SetStateFails
  <2>2. shaders' \in [vert : SUBSET ShaderKeys, frag : SUBSET ShaderKeys]
    <3> DEFINE k == ShaderOf[scene[d]]
    <3>1. /\ shaders.vert \cup {k} \in SUBSET ShaderKeys
          /\ shaders.frag \cup {k} \in SUBSET ShaderKeys
          /\ shaders \in [vert : SUBSET ShaderKeys, frag : SUBSET ShaderKeys]
      BY <1>1, <1>7 DEF TypeOK
    <3>2. \/ shaders' = shaders
          \/ shaders' = [shaders EXCEPT !.vert = shaders.vert \cup {k}]
          \/ shaders' = [vert |-> shaders.vert \cup {k},
                         frag |-> shaders.frag \cup {k}]
      BY <1>9 DEF SetStateFails
    <3> DEFINE K == SUBSET ShaderKeys
    <3> HIDE DEF k, K
    <3>3. shaders' \in [vert : K, frag : K]
      BY <3>1, <3>2 DEF K
    <3> QED BY <3>3 DEF K
  <2>3. /\ tables' \in [TableKeys -> Table]
        /\ \A k \in TableKeys : ~tables'[k].made => tables'[k] = tables[k]
    <3>1. tables \in [TableKeys -> Table]
      BY <1>1 DEF TypeOK, Table
    <3>2. \/ tables' = tables
          \/ tables' = [tables EXCEPT ![TableOf[scene[d]]].made = TRUE]
      BY <1>9 DEF SetStateFails
    <3> QED BY <3>1, <3>2, <1>7 DEF Table
  <2>4. TypeOK'
    <3>1. tables' \in [TableKeys -> [made : BOOLEAN, count : Nat, allocations : Nat,
                                     remaining : Nat]]
      BY <2>3 DEF Table
    <3> QED BY <1>1, <1>2, <1>6, <1>9, <2>1, <2>2, <3>1 DEF TypeOK, Throw, Steps
  <2> QED BY <1>1, <1>2, <1>9, <2>1, <2>3, <2>4, Thrown DEF TablesInv
<1> QED BY <1>8, <1>9 DEF PushDrawable, d

-----------------------------------------------------------------------------
(* The uniform buffer.                                                     *)

(* The entries of the tables of D when each has n of them.                 *)
Entries(D, n) == UNION {{k} \X (1..n[k]) : k \in D}

Remaining(T) == [k \in TableKeys |-> T[k].remaining]
Allocations(T) == [k \in TableKeys |-> T[k].allocations]

(* Finitely many keys with a finite count each are finitely many entries.  *)
LEMMA EntriesFinite ==
  ASSUME NEW D, IsFiniteSet(D), NEW n, \A k \in D : n[k] \in Nat
  PROVE  IsFiniteSet(Entries(D, n)) /\ Cardinality(Entries(D, n)) \in Nat
<1> DEFINE f == [k \in D |-> {k} \X (1..n[k])]
           F == {{k} \X (1..n[k]) : k \in D}
<1>1. f \in Surjection(D, F)
  BY DEF Surjection
<1>2. IsFiniteSet(F)
  <2> HIDE DEF f, F
  <2> QED BY <1>1, FS_Surjection
<1>3. \A T \in F : IsFiniteSet(T)
  <2> SUFFICES ASSUME NEW k \in D PROVE IsFiniteSet({k} \X (1..n[k]))
    OBVIOUS
  <2>1. PICK l \in Nat : l = n[k]
    OBVIOUS
  <2>2. IsFiniteSet({k})
    BY FS_Singleton
  <2>3. IsFiniteSet(1..l)
    BY FS_Interval
  <2>4. IsFiniteSet({k} \X (1..l))
    BY <2>2, <2>3, FS_Product
  <2> QED BY <2>1, <2>4
<1>4. IsFiniteSet(UNION F)
  <2> HIDE DEF F
  <2> QED BY <1>2, <1>3, FS_UNION
<1> QED BY <1>4, FS_CardinalityType DEF Entries

(* There are finitely many tables.                                         *)
LEMMA TablesFinite == IsFiniteSet(TableKeys) /\ IsFiniteSet(Made)
<1> DEFINE f == [m \in Masks |-> TableOf[m]]
<1>1. f \in Surjection(Masks, TableKeys)
  BY DEF Surjection, TableKeys
<1>2. IsFiniteSet(TableKeys)
  <2> HIDE DEF f
  <2> QED BY <1>1, RendererAssumption, FS_Surjection
<1>3. Made \in SUBSET TableKeys
  BY DEF Made
<1> QED BY <1>2, <1>3, FS_Subset

(* The size that is required, by the entries that remain.                  *)
LEMMA SizeRequired ==
  ASSUME NEW T \in [TableKeys -> Table]
  PROVE  /\ RequiredSize(T) =
              MainUnifSize + InstanceSize * Cardinality(Entries(Made, Remaining(T)))
         /\ RequiredSize(T) \in Nat
<1>1. Made \subseteq TableKeys
  BY DEF Made
<1>2. \A k \in Made : Remaining(T)[k] = T[k].remaining /\ Remaining(T)[k] \in Nat
  BY <1>1 DEF Remaining, Table
<1>3. UNION {{k} \X (1..T[k].remaining) : k \in Made} = Entries(Made, Remaining(T))
  BY <1>2 DEF Entries
<1>4. Cardinality(Entries(Made, Remaining(T))) \in Nat
  BY <1>2, TablesFinite, EntriesFinite
<1>5. PICK c \in Nat : c = Cardinality(Entries(Made, Remaining(T)))
  BY <1>4
<1>6. RequiredSize(T) = MainUnifSize + InstanceSize * c
  BY <1>3, <1>5 DEF RequiredSize
<1>7. MainUnifSize \in Nat /\ InstanceSize \in Nat
  BY RendererAssumption
<1> QED BY <1>5, <1>6, <1>7

(* A buffer is never smaller than what is required.                        *)
LEMMA WantedEnough ==
  ASSUME NEW size \in Nat, unifBuffer \in Nat
  PROVE  WantedBuffer(size) \in Nat /\ WantedBuffer(size) >= size
<1>1. RoundedUp(size) \in Nat /\ RoundedUp(size) >= size
  <2>1. PICK u \in Nat \ {0} : u = UnifBufferSize
    BY RendererAssumption
  <2>2. PICK q \in Nat : q = size \div u
    BY <2>1
  <2>3. size < (q + 1) * u
    BY <2>1, <2>2
  <2>4. (q + 1) * u = q * u + u /\ q * u + u \in Nat
    BY <2>1, <2>2
  <2> QED BY <2>1, <2>2, <2>3, <2>4 DEF RoundedUp
<1>2. UnifBufferSize \in Nat
  BY RendererAssumption
<1> QED BY <1>1, <1>2 DEF WantedBuffer

(* The buffer is as large as was asked for when it can be had, and gone    *)
(* when it cannot.                                                         *)
LEMMA BufferChecked ==
  ASSUME NEW size \in Nat, unifBuffer \in Nat
  PROVE  /\ CheckUnifBuffer(size, TRUE) =>
              unifBuffer' \in Nat /\ unifBuffer' >= size
         /\ CheckUnifBuffer(size, FALSE) => unifBuffer' = 0
BY WantedEnough DEF CheckUnifBuffer

-----------------------------------------------------------------------------
(* Allocation keeps CachesInv.                                             *)

(* Where an allocation that does not throw may lead.                       *)
LEMMA Settled ==
  ASSUME CachesInv, Busy, unifBuffer' \in Nat, tables' \in [TableKeys -> Table],
         UNCHANGED <<graphVars, opaque, blend, cacheVars, historyVars>>,
         \A k \in TableKeys : /\ tables'[k].count = tables[k].count
                              /\ tables'[k].made = tables[k].made,
         TablesInv',
         \/ pc' \in {"subset", "fewer", "undefined"} /\ UNCHANGED passVars
         \/ StartDrawing
  PROVE  CachesInv'
<1>1. /\ TypeOK /\ QueuesInv /\ CountsInv /\ StatesInv /\ pass \in Passes
      /\ Len(opaque) \in Nat
  <2>1. TypeOK /\ QueuesInv /\ CountsInv /\ StatesInv /\ pass \in Passes
    BY DEF CachesInv, Live
  <2>2. opaque \in Seq(Nat)
    BY <2>1 DEF TypeOK
  <2> QED BY <2>1, <2>2, LenProperties
<1> USE DEF graphVars, cacheVars, historyVars, passVars, StartDrawing
<1>2. QueuesInv' /\ CountsInv' /\ StatesInv'
  BY <1>1, Steady
<1>3. /\ offset' \in Nat /\ turns' \in Nat
      /\ recorded' \in Seq([drawable : Nat, allocation : Nat])
      /\ pc' \in Steps
  <2>1. MainUnifSize \in Nat
    BY RendererAssumption
  <2>2. offset' \in Nat /\ turns' \in Nat /\ pc' \in Steps
    BY <1>1, <2>1 DEF TypeOK, Steps
  <2>3. recorded \in Seq([drawable : Nat, allocation : Nat])
    BY <1>1 DEF TypeOK
  <2>4. recorded' = recorded \/ recorded' = <<>>
    OBVIOUS
  <2>5. <<>> \in Seq([drawable : Nat, allocation : Nat])
    BY EmptySeq, Zenon
  <2>6. recorded' \in Seq([drawable : Nat, allocation : Nat])
    BY <2>3, <2>4, <2>5, Zenon
  <2> QED BY <2>2, <2>6, Zenon
<1>4. TypeOK'
  BY <1>1, <1>3 DEF TypeOK, Table
<1>5. pc' = "opaque" => turns' <= Len(opaque')
  BY <1>1 DEF CachesInv
<1>6. pc' # "idle" /\ \A m \in Masks : states'[m] \in {None, pass'}
  BY DEF CachesInv
<1> QED BY <1>1, <1>2, <1>4, <1>5, <1>6 DEF CachesInv

(* The allocation of all tables at once changes what they have, not who    *)
(* uses them.                                                              *)
LEMMA AllocateCaches ==
  ASSUME CachesInv, AllocateTables
  PROVE  CachesInv'
<1>1. /\ TypeOK /\ TablesInv /\ pc = "allocate" /\ Busy /\ unifBuffer \in Nat
      /\ tables \in [TableKeys -> Table]
  BY DEF CachesInv, AllocateTables, Busy, TypeOK, Table
<1>2. PICK done \in SUBSET Made :
        /\ tables' = [k \in TableKeys |->
                        IF k \in done
                          THEN [tables[k] EXCEPT !.allocations = tables[k].count,
                                                 !.remaining = tables[k].count]
                          ELSE tables[k]]
        /\ \/ pc' = "subset" /\ UNCHANGED <<unifBuffer, passVars>>
           \/ CheckUnifBuffer(RequiredSize(tables'), TRUE) /\ StartDrawing
           \/ /\ CheckUnifBuffer(RequiredSize(tables'), FALSE)
              /\ pc' = "subset"
              /\ UNCHANGED passVars
           \/ NullBuffer
  BY DEF AllocateTables
<1>3. /\ tables' \in [TableKeys -> Table]
      /\ \A k \in TableKeys : /\ tables'[k].count = tables[k].count
                              /\ tables'[k].made = tables[k].made
                              /\ k \notin done => tables'[k] = tables[k]
  <2>1. \A k \in TableKeys : tables[k] \in Table
    BY <1>1
  <2>2. \A k \in TableKeys :
          [tables[k] EXCEPT !.allocations = tables[k].count,
                            !.remaining = tables[k].count] \in Table
    <3> SUFFICES ASSUME NEW r \in Table
                 PROVE  [r EXCEPT !.allocations = r.count,
                                  !.remaining = r.count] \in Table
      BY <2>1
    <3> QED BY DEF Table
  <2> QED BY <1>2, <2>1, <2>2 DEF Table
<1>4. RequiredSize(tables') \in Nat
  BY <1>3, SizeRequired
<1>5. unifBuffer' \in Nat
  <2>1. PICK size \in Nat : size = RequiredSize(tables')
    BY <1>4
  <2>2. \/ CheckUnifBuffer(size, TRUE) \/ CheckUnifBuffer(size, FALSE)
        \/ unifBuffer' = unifBuffer
    BY <1>2, <2>1 DEF NullBuffer
  <2>3. /\ CheckUnifBuffer(size, TRUE) => unifBuffer' \in Nat
        /\ CheckUnifBuffer(size, FALSE) => unifBuffer' = 0
    BY <1>1, BufferChecked
  <2>4. unifBuffer' \in Nat \/ unifBuffer' = 0
    BY <1>1, <2>2, <2>3, Zenon
  <2> QED BY <2>4
<1>6. TablesInv'
  <2>1. pc' # "fewer"
    BY <1>2 DEF StartDrawing, NullBuffer
  <2>2. \A k \in done : tables[k].made
    BY DEF Made
  <2> QED BY <1>1, <1>3, <2>1, <2>2 DEF TablesInv
<1>7. \/ pc' \in {"subset", "fewer", "undefined"} /\ UNCHANGED passVars
      \/ StartDrawing
  BY <1>2 DEF NullBuffer
<1>8. UNCHANGED <<graphVars, opaque, blend, cacheVars, historyVars>>
  BY DEF AllocateTables
<1> QED BY <1>1, <1>3, <1>5, <1>6, <1>7, <1>8, Settled

(* So does the start of an allocation of less than all.                    *)
LEMMA BeginSubsetCaches ==
  ASSUME CachesInv, BeginSubset
  PROVE  CachesInv'
<1>1. /\ TypeOK /\ TablesInv /\ pc = "subset" /\ Busy /\ unifBuffer' = unifBuffer
      /\ tables \in [TableKeys -> Table] /\ unifBuffer \in Nat
  BY DEF CachesInv, BeginSubset, Busy, TypeOK, Table
<1>2. tables' = [k \in TableKeys |->
                  [tables[k] EXCEPT
                     !.remaining = tables[k].count,
                     !.allocations = IF tables[k].count = 0 THEN 0 ELSE @]]
  BY DEF BeginSubset
<1>3. \A k \in TableKeys : tables[k] \in Table
  BY <1>1
<1>4. ASSUME NEW k \in TableKeys
      PROVE  /\ tables'[k] \in Table
             /\ tables'[k].count = tables[k].count
             /\ tables'[k].made = tables[k].made
             /\ tables'[k].remaining = tables[k].count
             /\ tables'[k].allocations = IF tables[k].count = 0
                                           THEN 0 ELSE tables[k].allocations
  <2>1. PICK r \in Table : r = tables[k]
    BY <1>3
  <2>2. tables'[k] = [made |-> r.made, count |-> r.count,
                      allocations |-> IF r.count = 0 THEN 0 ELSE r.allocations,
                      remaining |-> r.count]
    BY <1>2, <2>1 DEF Table
  <2> QED BY <2>1, <2>2 DEF Table
<1>5. tables' \in [TableKeys -> Table]
  BY <1>2, <1>4
<1>6. TablesInv'
  BY <1>1, <1>4 DEF TablesInv
<1>7. /\ UNCHANGED <<graphVars, opaque, blend, cacheVars, historyVars>>
      /\ pc' \in {"subset", "fewer", "undefined"} /\ UNCHANGED passVars
  BY DEF BeginSubset
<1> QED BY <1>1, <1>4, <1>5, <1>6, <1>7, Settled

(* What trying fewer allocations leaves alone.                             *)
Retried(T) ==
  /\ T \in [TableKeys -> Table]
  /\ \A k \in TableKeys :
       /\ T[k].count = tables[k].count
       /\ T[k].made = tables[k].made
       /\ k \notin Counted => T[k].allocations = tables[k].allocations
       /\ k \notin Counted /\ tables[k].remaining = 0 => T[k].remaining = 0

(* An attempt in which the tables of F fail gives every other table the    *)
(* allocations that it asked for; neither it nor the halving after it      *)
(* changes who uses the tables.                                            *)
LEMMA AttemptedRight ==
  ASSUME tables \in [TableKeys -> Table], NEW F
  PROVE  /\ Retried(Attempted(F)) /\ Retried(Halved(Attempted(F)))
         /\ \A k \in TableKeys :
              /\ Attempted(F)[k].remaining = tables[k].remaining
              /\ k \in Counted \ F =>
                   Attempted(F)[k].allocations = tables[k].remaining
<1>1. \A k \in TableKeys : tables[k] \in Table
  OBVIOUS
<1> DEFINE A == Attempted(F)
<1>2. ASSUME NEW k \in TableKeys
      PROVE  /\ A[k] \in Table
             /\ A[k].count = tables[k].count
             /\ A[k].made = tables[k].made
             /\ A[k].remaining = tables[k].remaining
             /\ A[k].allocations = IF k \in Counted \ F THEN tables[k].remaining
                                                        ELSE tables[k].allocations
  <2>1. PICK r \in Table : r = tables[k]
    BY <1>1
  <2>2. A[k] = IF k \in Counted \ F
                 THEN [r EXCEPT !.allocations = r.remaining] ELSE r
    BY <2>1 DEF Attempted
  <2> HIDE DEF A
  <2>3. CASE k \in Counted \ F
    <3>1. A[k] = [made |-> r.made, count |-> r.count, allocations |-> r.remaining,
                  remaining |-> r.remaining]
      BY <2>2, <2>3 DEF Table
    <3> QED BY <2>1, <2>3, <3>1 DEF Table
  <2>4. CASE ~(k \in Counted \ F)
    BY <2>1, <2>2, <2>4
  <2> QED BY <2>3, <2>4
<1>3. A \in [TableKeys -> Table]
  BY <1>2 DEF Attempted
<1>4. Retried(A)
  BY <1>2, <1>3 DEF Retried
<1>5. ASSUME NEW k \in TableKeys
      PROVE  /\ Halved(A)[k] \in Table
             /\ Halved(A)[k].count = A[k].count
             /\ Halved(A)[k].made = A[k].made
             /\ Halved(A)[k].allocations = A[k].allocations
             /\ A[k].remaining = 0 => Halved(A)[k].remaining = 0
  <2>1. PICK r \in Table : r = A[k]
    BY <1>2
  <2>2. Halved(A)[k] = IF r.remaining > 1
                         THEN [r EXCEPT !.remaining = @ \div 2] ELSE r
    BY <2>1 DEF Halved
  <2> HIDE DEF A
  <2>3. CASE r.remaining > 1
    <3>1. Halved(A)[k] = [made |-> r.made, count |-> r.count,
                          allocations |-> r.allocations,
                          remaining |-> r.remaining \div 2]
      BY <2>2, <2>3 DEF Table
    <3>2. r.remaining \in Nat /\ r.remaining \div 2 \in Nat
      BY DEF Table
    <3> QED BY <2>1, <2>3, <3>1, <3>2 DEF Table
  <2>4. CASE ~(r.remaining > 1)
    BY <2>1, <2>2, <2>4
  <2> QED BY <2>3, <2>4
<1>6. Halved(A) \in [TableKeys -> Table]
  <2> HIDE DEF A
  <2> QED BY <1>5 DEF Halved
<1>7. Retried(Halved(A))
  BY <1>2, <1>4, <1>5, <1>6 DEF Retried
<1> QED BY <1>2, <1>4, <1>7

(* So does an attempt at fewer allocations.                                *)
LEMMA FewerCaches ==
  ASSUME CachesInv, AllocateFewer
  PROVE  CachesInv'
<1>1. /\ TypeOK /\ TablesInv /\ pc = "fewer" /\ Busy /\ unifBuffer \in Nat
      /\ tables \in [TableKeys -> Table]
      /\ UNCHANGED <<graphVars, opaque, blend, cacheVars>>
      /\ \A m \in Masks : states[m] \in {None, pass}
  BY DEF CachesInv, AllocateFewer, Busy, TypeOK, Table
<1>2. PICK size \in Nat : size = RequiredSize(tables)
  BY <1>1, SizeRequired
<1>3. PICK F \in SUBSET {k \in Counted : Allocates(k, tables[k].remaining)} :
        \/ TryFewer(Attempted(F)) /\ UNCHANGED <<unifBuffer, passVars>>
        \/ /\ CheckUnifBuffer(size, TRUE)
           /\ StartDrawing
           /\ tables' = Attempted({})
           /\ UNCHANGED historyVars
        \/ /\ CheckUnifBuffer(size, FALSE)
           /\ TryFewer(Attempted({}))
           /\ UNCHANGED passVars
        \/ /\ NullBuffer
           /\ tables' = Attempted({})
           /\ UNCHANGED historyVars
  BY <1>2 DEF AllocateFewer
<1>4. \A G : Retried(Attempted(G)) /\ Retried(Halved(Attempted(G)))
  BY <1>1, AttemptedRight
<1>5. Retried(tables')
  BY <1>3, <1>4 DEF TryFewer
<1>6. unifBuffer' \in Nat
  <2>1. \/ CheckUnifBuffer(size, TRUE) \/ CheckUnifBuffer(size, FALSE)
        \/ unifBuffer' = unifBuffer
    BY <1>3 DEF NullBuffer
  <2>2. /\ CheckUnifBuffer(size, TRUE) => unifBuffer' \in Nat
        /\ CheckUnifBuffer(size, FALSE) => unifBuffer' = 0
    BY <1>1, BufferChecked
  <2>3. unifBuffer' \in Nat \/ unifBuffer' = 0
    BY <1>1, <2>1, <2>2, Zenon
  <2> QED BY <2>3
<1>7. /\ tables' \in [TableKeys -> Table]
      /\ \A k \in TableKeys : /\ tables'[k].count = tables[k].count
                              /\ tables'[k].made = tables[k].made
  BY <1>5 DEF Retried
<1>8. TablesInv'
  <2>1. \A k \in TableKeys : tables[k].count = 0 \/ ~tables[k].made =>
          k \notin Counted
    BY DEF Counted, Made
  <2> QED BY <1>1, <1>5, <2>1 DEF TablesInv, Retried
<1>9. CASE Throw /\ UNCHANGED passVars
  <2>1. TypeOK'
    BY <1>1, <1>6, <1>7, <1>9
       DEF TypeOK, Table, Throw, graphVars, cacheVars, passVars, Steps
  <2> QED BY <1>1, <1>8, <1>9, <2>1, Thrown DEF TablesInv, graphVars, cacheVars
<1>10. CASE /\ UNCHANGED historyVars
            /\ \/ pc' \in {"subset", "fewer", "undefined"} /\ UNCHANGED passVars
               \/ StartDrawing
  BY <1>1, <1>6, <1>7, <1>8, <1>10, Settled
<1> QED BY <1>1, <1>3, <1>9, <1>10 DEF TryFewer, NullBuffer

-----------------------------------------------------------------------------
(* Drawing keeps CachesInv.                                                *)

Record == [drawable : Nat, allocation : Nat]

(* What a drawable that waits is.                                          *)
LEMMA WaitingInScene ==
  ASSUME CachesInv, Busy, NEW d \in Waiting
  PROVE  /\ d \in 1..Len(scene) /\ d \in Nat
         /\ MaskOf(d) \in Masks /\ TableFor(d) \in TableKeys
         /\ tables[TableFor(d)] \in Table
         /\ WrittenSize(d) \in Nat \ {0}
<1>1. TypeOK /\ QueuesInv
  BY DEF CachesInv, Live
<1>2. d \in 1..Len(scene) /\ MaskOf(d) \in Masks /\ TableFor(d) \in TableKeys
  BY <1>1, WaitingRight
<1>3. Len(scene) \in Nat
  BY <1>1, LenProperties DEF TypeOK
<1>4. tables[TableFor(d)] \in Table
  BY <1>1, <1>2 DEF TypeOK, Table
<1>5. WrittenSize(d) \in Nat \ {0}
  BY RendererAssumption DEF WrittenSize
<1> QED BY <1>2, <1>3, <1>4, <1>5

(* A drawable is drawn and leaves the lists.                               *)
LEMMA DrawCaches ==
  ASSUME CachesInv, pc \in {"opaque", "blend"}, NEW d \in Waiting,
         ~OutOfResources(d), Draw(d),
         opaque' \in Seq(Nat), blend' \in Seq(Nat),
         QueuesInv', Waiting' = Waiting \ {d},
         turns' \in Nat, pc = "opaque" => turns' <= Len(opaque'),
         UNCHANGED <<pc, graphVars, states, shaders, unifBuffer, historyVars>>
  PROVE  CachesInv'
<1> USE DEF graphVars, historyVars
<1>1. /\ TypeOK /\ QueuesInv /\ CountsInv /\ StatesInv /\ TablesInv /\ Busy
      /\ pass \in Passes
  BY DEF CachesInv, Live, Busy
<1>2. /\ d \in Nat /\ TableFor(d) \in TableKeys /\ tables[TableFor(d)] \in Table
      /\ WrittenSize(d) \in Nat
  BY <1>1, WaitingInScene
<1>3. /\ CountsInv'
      /\ tables' \in [TableKeys -> Table]
      /\ stateCount' \in [Masks -> Nat] /\ shaderCount' \in [ShaderKeys -> Nat]
      /\ \A k \in TableKeys :
           /\ tables'[k].made = tables[k].made
           /\ tables'[k].allocations = tables[k].allocations
           /\ k # TableFor(d) => tables'[k] = tables[k]
           /\ k = TableFor(d) => /\ tables[k].count > 0
                                 /\ tables[k].remaining > 0
                                 /\ tables'[k].count = tables[k].count - 1
                                 /\ tables'[k].remaining = tables[k].remaining - 1
  BY <1>1, DrawCounts
<1>4. AllocationFor(d) \in Nat
  BY <1>2, <1>3 DEF AllocationFor, Table
<1>5. recorded' \in Seq(Record)
  <2>1. recorded \in Seq(Record)
    BY <1>1 DEF TypeOK, Record
  <2>2. PICK r : r = [drawable |-> d, allocation |-> AllocationFor(d)]
    OBVIOUS
  <2>3. r \in Record
    BY <1>2, <1>4, <2>2 DEF Record
  <2>4. recorded' = Append(recorded, r)
    BY <2>2 DEF Draw
  <2> QED BY <2>1, <2>3, <2>4
<1>6. offset' \in Nat
  BY <1>1, <1>2 DEF Draw, TypeOK
<1>7. TypeOK'
  BY <1>1, <1>3, <1>5, <1>6 DEF TypeOK, Table, Record
<1>8. TablesInv'
  <2>1. pc' # "fewer"
    OBVIOUS
  <2>2. ASSUME NEW k \in TableKeys, ~tables'[k].made PROVE tables'[k] = tables[k]
    <3>1. tables[k].remaining = 0
      BY <1>1, <1>3, <2>2 DEF TablesInv
    <3> QED BY <1>3, <3>1
  <2> QED BY <1>1, <2>1, <2>2 DEF TablesInv
<1>9. StatesInv'
  <2>1. \A e \in Waiting' : e \in Waiting /\ TableFor(e) \in TableKeys
    BY <1>1, WaitingRight
  <2>2. \A e : MaskOf(e)' = MaskOf(e) /\ TableFor(e)' = TableFor(e)
    BY DEF MaskOf, TableFor
  <2> QED BY <1>1, <1>3, <2>1, <2>2 DEF StatesInv
<1> QED BY <1>1, <1>3, <1>7, <1>8, <1>9 DEF CachesInv

(* A drawable is not drawn.                                                *)
LEMMA DrawThrowsCaches ==
  ASSUME CachesInv, pc \in {"opaque", "blend"}, NEW d \in Waiting, DrawThrows(d),
         UNCHANGED <<graphVars, states, shaders, unifBuffer>>
  PROVE  CachesInv'
<1>1. TypeOK /\ TablesInv /\ Busy
  BY DEF CachesInv, Busy
<1>2. PICK t \in TableKeys : t = TableFor(d)
  BY <1>1, WaitingInScene
<1>3. PICK r \in Table : r = tables[t]
  BY <1>1, <1>2, WaitingInScene
<1>4. r.remaining \in Nat /\ r.remaining # 0
  BY <1>2, <1>3 DEF DrawThrows, OutOfResources, Table
<1>5. PICK new : new = [r EXCEPT !.remaining = @ - 1]
  OBVIOUS
<1>6. new \in Table /\ new.made = r.made
  <2>1. new = [made |-> r.made, count |-> r.count, allocations |-> r.allocations,
               remaining |-> r.remaining - 1]
    BY <1>5 DEF Table
  <2> QED BY <1>4, <2>1 DEF Table
<1>7. tables' = [tables EXCEPT ![t] = new]
  BY <1>2, <1>3, <1>5, <1>1 DEF DrawThrows, TypeOK
<1>8. tables' \in [TableKeys -> Table]
  BY <1>1, <1>6, <1>7 DEF TypeOK, Table
<1>9. r.made
  BY <1>1, <1>3, <1>4 DEF TablesInv
<1>10. TypeOK'
  <2>1. recorded' \in Seq([drawable : Nat, allocation : Nat])
    BY EmptySeq, Zenon DEF DrawThrows, LeaveDrawing
  <2>2. offset' \in Nat /\ turns' \in Nat
    BY DEF DrawThrows, LeaveDrawing
  <2> QED BY <1>1, <1>8, <2>1, <2>2
          DEF TypeOK, Table, DrawThrows, Throw, graphVars, Steps
<1>11. \A k \in TableKeys : ~tables'[k].made => tables'[k] = tables[k]
  BY <1>1, <1>6, <1>7, <1>9 DEF TypeOK
<1> QED BY <1>1, <1>10, <1>11, Thrown
        DEF DrawThrows, CachesInv, TablesInv, graphVars

(* So does a pass over the opaque drawables: what is drawn uses nothing    *)
(* any more, what is not keeps its state and table.                        *)
LEMMA OpaqueCaches ==
  ASSUME CachesInv, RenderOpaque
  PROVE  CachesInv'
<1>1. /\ pc = "opaque" /\ TypeOK /\ QueuesInv /\ CountsInv /\ StatesInv /\ TablesInv
      /\ Busy /\ opaque \in Seq(Nat) /\ turns \in Nat /\ turns > 0
      /\ turns <= Len(opaque)
      /\ UNCHANGED <<graphVars, blend, states, shaders, unifBuffer>>
  BY DEF CachesInv, RenderOpaque, Live, Busy, TypeOK
<1>2. opaque # <<>> /\ Len(opaque) \in Nat
  BY <1>1, EmptySeq, LenProperties
<1>3. PICK d \in Nat : d = Head(opaque)
  BY <1>1, <1>2, Removed
<1>4. PICK rest \in Seq(Nat) : rest = Tail(opaque)
  BY <1>1, <1>2, Removed
<1>5. /\ d \in Ids(opaque)
      /\ Len(rest) = Len(opaque) - 1
      /\ Ids(opaque) = Ids(rest) \cup {d}
      /\ Distinct(rest) /\ d \notin Ids(rest)
  BY <1>1, <1>2, <1>3, <1>4, Removed DEF QueuesInv
<1>6. d \in Waiting /\ d \notin Ids(blend) /\ Ids(rest) \cap Ids(blend) = {}
  BY <1>1, <1>5 DEF Waiting, QueuesInv
<1>7. CASE /\ OutOfResources(d) /\ PutBack(d) /\ turns' = turns - 1
           /\ UNCHANGED <<pc, offset, recorded, tables, stateCount, shaderCount,
                          historyVars>>
  <2>1. opaque' = Append(rest, d)
    BY <1>3, <1>4, <1>7 DEF PutBack
  <2>2. /\ opaque' \in Seq(Nat) /\ Len(opaque') = Len(opaque)
        /\ Ids(opaque') = Ids(opaque) /\ Distinct(opaque')
    <3>1. /\ opaque' \in Seq(Nat) /\ Len(opaque') = Len(rest) + 1
          /\ Ids(opaque') = Ids(rest) \cup {d} /\ Distinct(opaque')
      BY <1>3, <1>4, <1>5, <2>1, Appended
    <3> QED BY <1>2, <1>5, <3>1
  <2>3. Waiting' = Waiting
    BY <1>1, <2>2 DEF Waiting
  <2>4. QueuesInv'
    BY <1>1, <2>2, <2>3 DEF QueuesInv, graphVars
  <2>5. CountsInv' /\ StatesInv'
    BY <1>1, <1>7, <2>3, SteadyCounts DEF graphVars, historyVars
  <2>6. turns' \in Nat /\ turns' <= Len(opaque')
    BY <1>1, <1>2, <1>7, <2>2
  <2>7. TypeOK'
    BY <1>1, <1>7, <2>2, <2>6 DEF TypeOK, graphVars, historyVars
  <2>8. TablesInv'
    BY <1>1, <1>7 DEF TablesInv
  <2>9. /\ pass' \in Passes /\ \A m \in Masks : states'[m] \in {None, pass'}
    BY <1>1 DEF CachesInv, graphVars
  <2> QED BY <1>1, <1>7, <2>4, <2>5, <2>6, <2>7, <2>8, <2>9 DEF CachesInv
<1>8. CASE /\ ~OutOfResources(d) /\ Draw(d) /\ opaque' = rest
           /\ turns' = turns - 1 /\ UNCHANGED <<pc, historyVars>>
  <2>1. Waiting' = Waiting \ {d}
    BY <1>1, <1>5, <1>6, <1>8 DEF Waiting
  <2>2. QueuesInv'
    BY <1>1, <1>5, <1>6, <1>8, <2>1 DEF QueuesInv, graphVars
  <2>3. turns' \in Nat /\ turns' <= Len(opaque') /\ opaque' \in Seq(Nat)
    BY <1>1, <1>2, <1>5, <1>8
  <2>4. blend' \in Seq(Nat) /\ pc \in {"opaque", "blend"}
    BY <1>1 DEF TypeOK
  <2> QED BY <1>1, <1>6, <1>8, <2>1, <2>2, <2>3, <2>4, DrawCaches
<1>9. CASE DrawThrows(d)
  BY <1>1, <1>6, <1>9, DrawThrowsCaches
<1> QED BY <1>3, <1>4, <1>7, <1>8, <1>9 DEF RenderOpaque

(* So does a step over the drawables that blend, which stops at the first  *)
(* that it cannot draw.                                                    *)
LEMMA BlendCaches ==
  ASSUME CachesInv, RenderBlend
  PROVE  CachesInv'
<1>1. /\ pc = "blend" /\ TypeOK /\ QueuesInv /\ Busy /\ blend \in Seq(Nat)
      /\ blend # <<>>
      /\ UNCHANGED <<graphVars, opaque, states, shaders, unifBuffer>>
  BY DEF CachesInv, RenderBlend, Live, Busy, TypeOK
<1>2. PICK d \in Nat : d = Head(blend)
  BY <1>1, Removed
<1>3. PICK rest \in Seq(Nat) : rest = Tail(blend)
  BY <1>1, Removed
<1>4. /\ d \in Ids(blend)
      /\ Ids(blend) = Ids(rest) \cup {d}
      /\ Distinct(rest) /\ d \notin Ids(rest)
  BY <1>1, <1>2, <1>3, Removed DEF QueuesInv
<1>5. d \in Waiting /\ d \notin Ids(opaque) /\ Ids(opaque) \cap Ids(rest) = {}
  BY <1>1, <1>4 DEF Waiting, QueuesInv
<1>6. CASE /\ ~OutOfResources(d) /\ Draw(d) /\ blend' = rest
           /\ UNCHANGED <<pc, turns, historyVars>>
  <2>1. Waiting' = Waiting \ {d}
    BY <1>1, <1>4, <1>5, <1>6 DEF Waiting
  <2>2. QueuesInv'
    BY <1>1, <1>4, <1>5, <1>6, <2>1 DEF QueuesInv, graphVars
  <2>3. turns' \in Nat /\ opaque' \in Seq(Nat) /\ blend' \in Seq(Nat)
    BY <1>1, <1>6 DEF TypeOK
  <2> QED BY <1>1, <1>5, <1>6, <2>1, <2>2, <2>3, DrawCaches
<1>7. CASE DrawThrows(d)
  BY <1>1, <1>5, <1>7, DrawThrowsCaches
<1> QED BY <1>2, <1>3, <1>6, <1>7 DEF RenderBlend

(* So does the end of either list.                                         *)
LEMMA DoneCaches ==
  ASSUME CachesInv, OpaqueDone \/ BlendDone
  PROVE  CachesInv'
<1> USE DEF OpaqueDone, BlendDone, graphVars, cacheVars, passVars, historyVars
<1>1. TypeOK'
  BY DEF CachesInv, TypeOK, Steps
<1>2. QueuesInv' /\ CountsInv' /\ StatesInv'
  BY Steady DEF CachesInv, Live, Busy
<1>3. TablesInv'
  BY DEF CachesInv, TablesInv
<1> QED BY <1>1, <1>2, <1>3 DEF CachesInv, Busy

(* The tables of another pass.                                             *)
LEMMA AgainRight ==
  ASSUME tables \in [TableKeys -> Table]
  PROVE  /\ WillRenderAgain \in [TableKeys -> Table]
         /\ \A k \in TableKeys :
              /\ WillRenderAgain[k].count = tables[k].count
              /\ WillRenderAgain[k].made = tables[k].made
              /\ WillRenderAgain[k].allocations = tables[k].allocations
              /\ WillRenderAgain[k].remaining =
                   IF k \in Counted THEN tables[k].allocations
                                    ELSE tables[k].remaining
<1>1. ASSUME NEW k \in TableKeys
      PROVE  /\ WillRenderAgain[k] \in Table
             /\ WillRenderAgain[k].count = tables[k].count
             /\ WillRenderAgain[k].made = tables[k].made
             /\ WillRenderAgain[k].allocations = tables[k].allocations
             /\ WillRenderAgain[k].remaining =
                  IF k \in Counted THEN tables[k].allocations
                                   ELSE tables[k].remaining
  <2>1. PICK r \in Table : r = tables[k]
    OBVIOUS
  <2>2. PICK new : new = WillRenderAgain[k]
    OBVIOUS
  <2>3. CASE k \in Counted
    <3>1. new = [r EXCEPT !.remaining = r.allocations]
      BY <2>1, <2>2, <2>3 DEF WillRenderAgain
    <3>2. new = [made |-> r.made, count |-> r.count, allocations |-> r.allocations,
                 remaining |-> r.allocations]
      BY <3>1 DEF Table
    <3> QED BY <2>1, <2>2, <2>3, <3>2 DEF Table
  <2>4. CASE k \notin Counted
    BY <2>1, <2>4 DEF WillRenderAgain
  <2> QED BY <2>3, <2>4
<1> QED BY <1>1 DEF WillRenderAgain

(* So does the submission, which leaves the drawables that remain for      *)
(* another turn.                                                           *)
LEMMA SubmitCaches ==
  ASSUME CachesInv, Submit
  PROVE  CachesInv'
<1>1. /\ pc = "submit" /\ TypeOK /\ QueuesInv /\ CountsInv /\ StatesInv /\ TablesInv
      /\ Busy /\ tables \in [TableKeys -> Table] /\ opaque \in Seq(Nat)
      /\ UNCHANGED <<graphVars, opaque, blend, cacheVars, unifBuffer>>
      /\ pass \in Passes /\ \A m \in Masks : states[m] \in {None, pass}
  BY DEF CachesInv, Submit, Live, Busy, TypeOK, Table
<1>2. /\ <<>> \in Seq([drawable : Nat, allocation : Nat])
      /\ Len(opaque) \in Nat /\ MainUnifSize \in Nat
  <2>1. <<>> \in Seq([drawable : Nat, allocation : Nat])
    BY EmptySeq, Zenon
  <2> QED BY <1>1, <2>1, RendererAssumption, LenProperties
<1>3. CASE Throw /\ LeaveDrawing /\ UNCHANGED tables
  <2>1. TypeOK'
    BY <1>1, <1>2, <1>3
       DEF TypeOK, Throw, LeaveDrawing, graphVars, cacheVars, Steps
  <2> QED BY <1>1, <1>3, <2>1, Thrown DEF TablesInv, graphVars, cacheVars
<1>4. ASSUME drawn' = drawn \o [i \in DOMAIN recorded |-> recorded[i].drawable]
      PROVE  drawn' \in Seq(Nat)
  <2> DEFINE s == [i \in DOMAIN recorded |-> recorded[i].drawable]
  <2>1. s \in Seq(Nat)
    <3>1. recorded \in Seq(Record)
      BY <1>1 DEF TypeOK, Record
    <3>2. PICK n \in Nat : n = Len(recorded)
      BY <3>1, LenProperties
    <3>3. DOMAIN recorded = 1..n /\ \A i \in 1..n : recorded[i] \in Record
      BY <3>1, <3>2, LenProperties
    <3>4. s = [i \in 1..n |-> recorded[i].drawable]
      BY <3>3
    <3>5. \A i \in 1..n : recorded[i].drawable \in Nat
      BY <3>3 DEF Record
    <3> HIDE DEF s
    <3> QED BY <3>4, <3>5
  <2>2. drawn \in Seq(Nat)
    BY <1>1 DEF TypeOK
  <2> HIDE DEF s
  <2> QED BY <1>4, <2>1, <2>2 DEF s
<1>5. CASE /\ drawn' = drawn \o [i \in DOMAIN recorded |-> recorded[i].drawable]
           /\ UNCHANGED <<renders, intact>>
           /\ opaque = <<>> /\ blend = <<>>
           /\ pc' = "idle" /\ LeaveDrawing /\ UNCHANGED tables
  <2>1. TypeOK'
    BY <1>1, <1>2, <1>4, <1>5
       DEF TypeOK, LeaveDrawing, graphVars, cacheVars, Steps
  <2>2. QueuesInv' /\ CountsInv' /\ StatesInv'
    BY <1>1, <1>5, Steady DEF graphVars, cacheVars
  <2>3. TablesInv'
    BY <1>1, <1>5 DEF TablesInv
  <2> QED BY <1>1, <1>5, <2>1, <2>2, <2>3 DEF CachesInv, Busy, graphVars, cacheVars
<1>6. CASE /\ drawn' = drawn \o [i \in DOMAIN recorded |-> recorded[i].drawable]
           /\ UNCHANGED <<renders, intact>>
           /\ tables' = WillRenderAgain /\ StartDrawing
  <2>1. tables' \in [TableKeys -> Table]
    BY <1>1, <1>6, AgainRight
  <2>2. offset' \in Nat /\ turns' \in Nat /\ recorded' = <<>> /\ pc' = "opaque"
    BY <1>2, <1>6 DEF StartDrawing
  <2>3. TypeOK'
    BY <1>1, <1>2, <1>4, <1>6, <2>1, <2>2
       DEF TypeOK, Table, graphVars, cacheVars, Steps
  <2>4. \A k \in TableKeys : /\ tables'[k].count = tables[k].count
                             /\ tables'[k].made = tables[k].made
                             /\ k \notin Counted => tables'[k].remaining = tables[k].remaining
                             /\ tables'[k].allocations = tables[k].allocations
    BY <1>1, <1>6, AgainRight
  <2>5. QueuesInv' /\ CountsInv' /\ StatesInv'
    BY <1>1, <1>6, <2>4, Steady DEF graphVars, cacheVars
  <2>6. TablesInv'
    <3>1. \A k \in TableKeys : ~tables[k].made => k \notin Counted
      BY DEF Counted, Made
    <3> QED BY <1>1, <2>2, <2>4, <3>1 DEF TablesInv
  <2>7. turns' <= Len(opaque')
    BY <1>1, <1>2, <1>6 DEF StartDrawing
  <2> QED BY <1>1, <2>2, <2>3, <2>5, <2>6, <2>7 DEF CachesInv, graphVars, cacheVars
<1> QED BY <1>3, <1>5, <1>6 DEF Submit

(* Every step of the rendering keeps the caches right.                     *)
LEMMA NextCaches == CachesInv /\ [Next]_vars => CachesInv'
<1> SUFFICES ASSUME CachesInv, [Next]_vars PROVE CachesInv'
  OBVIOUS
<1>1. ASSUME NEW s \in Scenes, NEW p \in Passes, Render(s, p) PROVE CachesInv'
  BY <1>1, RenderCaches
<1>2. CASE RejectPrimitive
  BY <1>2, RejectCaches
<1>3. CASE PushDrawable
  BY <1>3, PushCaches
<1>4. CASE GraphDone
  BY <1>4, GraphDoneCaches
<1>5. CASE AllocateTables
  BY <1>5, AllocateCaches
<1>6. CASE BeginSubset
  BY <1>6, BeginSubsetCaches
<1>7. CASE AllocateFewer
  BY <1>7, FewerCaches
<1>8. CASE RenderOpaque
  BY <1>8, OpaqueCaches
<1>9. CASE RenderBlend
  BY <1>9, BlendCaches
<1>10. CASE OpaqueDone \/ BlendDone
  BY <1>10, DoneCaches
<1>11. CASE Submit
  BY <1>11, SubmitCaches
<1>12. CASE UNCHANGED vars
  <2> USE <1>12 DEF vars, graphVars, cacheVars, passVars, historyVars
  <2>1. TypeOK'
    BY DEF CachesInv, TypeOK
  <2>2. Live => QueuesInv' /\ CountsInv' /\ StatesInv'
    BY Steady DEF CachesInv
  <2>3. TablesInv'
    BY DEF CachesInv, TablesInv
  <2> QED BY <2>1, <2>2, <2>3 DEF CachesInv, Live, Busy
<1> QED BY <1>1, <1>2, <1>3, <1>4, <1>5, <1>6, <1>7, <1>8, <1>9, <1>10, <1>11, <1>12
        DEF Next, Step, Rest

(* The lists, the counts and the caches are right in every state: after    *)
(* any exception of any call, any change of target and any number of       *)
(* passes (pushDrawables, setState, didRenderDrawable).                    *)
THEOREM CachesStayRight == Spec => []CachesAgree
<1>1. CachesInv => CachesAgree
  <2> SUFFICES ASSUME CachesInv PROVE CachesAgree
    OBVIOUS
  <2>1. TypeOK
    BY DEF CachesInv
  <2>2. ASSUME Drawing
        PROVE  /\ QueuesInv /\ CountsInv /\ StatesInv
               /\ \A m \in Masks : states[m] \in {None, pass}
               /\ \A d \in Waiting : d \in 1..Len(scene) /\ MaskOf(d) \in Masks
               /\ TableUse \in [1..Len(scene) -> TableKeys]
    <3>1. /\ QueuesInv /\ CountsInv /\ StatesInv
          /\ \A m \in Masks : states[m] \in {None, pass}
      BY <2>2 DEF CachesInv, Drawing, Live, Busy
    <3> QED BY <2>1, <3>1, WaitingRight DEF TableUse
  <2>3. StatesOfPass
    BY <2>2 DEF StatesOfPass, StatesInv, Waiting
  <2>4. CountsAgree
    <3> SUFFICES ASSUME Drawing PROVE CountsAgree
      BY DEF CountsAgree
    <3>1. \A k : /\ Users(TableUse, Waiting, k) = {d \in Waiting : TableFor(d) = k}
                 /\ Users(scene, Waiting, k) = {d \in Waiting : MaskOf(d) = k}
                 /\ Users(ShaderUse, Waiting, k) =
                      {d \in Waiting : ShaderOf[MaskOf(d)] = k}
      BY <2>2 DEF Users, TableUse, ShaderUse, MaskOf
    <3>2. \A n, D : Cover(intact, n, D) =>
                      IF intact THEN n = Cardinality(D) ELSE n >= Cardinality(D)
      BY DEF Cover
    <3> QED BY <2>2, <3>1, <3>2 DEF CountsAgree, CountsInv, Waiting
  <2> QED BY <2>1, <2>3, <2>4 DEF CachesAgree
<1> QED BY <1>1, InitCaches, NextCaches, PTL DEF Spec

-----------------------------------------------------------------------------
(* Allocations of the tables.                                              *)

(* What is recorded has its allocations, and what remains is below them.   *)
AllocationsInv ==
  Drawing =>
    /\ \A k \in TableKeys : tables[k].remaining <= tables[k].allocations
    /\ \A i \in 1..Len(recorded) :
         LET r == recorded[i] IN
         /\ r.drawable \in 1..Len(scene)
         /\ r.allocation >= tables[TableFor(r.drawable)].remaining
         /\ r.allocation < tables[TableFor(r.drawable)].allocations
    /\ \A i, j \in 1..Len(recorded) :
         /\ TableFor(recorded[i].drawable) = TableFor(recorded[j].drawable)
         /\ recorded[i].allocation = recorded[j].allocation
         => i = j

(* A pass begins with no more than what is allocated.                      *)
LEMMA StartAllocations ==
  ASSUME StartDrawing,
         \A k \in TableKeys : tables'[k].remaining <= tables'[k].allocations
  PROVE  AllocationsInv'
<1>1. recorded' = <<>> /\ Len(recorded') = 0
  BY DEF StartDrawing
<1>2. 1..Len(recorded') = {}
  BY <1>1
<1> QED BY <1>2 DEF AllocationsInv

(* A drawable takes the next allocation of its table, which nobody has     *)
(* yet.                                                                    *)
LEMMA DrawAllocations ==
  ASSUME CachesInv, AllocationsInv, pc \in {"opaque", "blend"}, NEW d \in Waiting,
         ~OutOfResources(d), Draw(d), scene' = scene, intact' = intact,
         Waiting' = Waiting \ {d}
  PROVE  AllocationsInv'
<1>1. /\ TypeOK /\ QueuesInv /\ CountsInv /\ Busy /\ Drawing
  BY DEF CachesInv, Live, Busy, Drawing
<1>2. PICK t \in TableKeys : t = TableFor(d)
  BY <1>1, WaitingInScene
<1>3. /\ d \in 1..Len(scene) /\ tables \in [TableKeys -> Table]
      /\ tables[t].remaining \in Nat /\ tables[t].allocations \in Nat
  BY <1>1, <1>2, WaitingInScene DEF TypeOK, Table
<1>4. \A k \in TableKeys :
        /\ tables'[k].allocations = tables[k].allocations
        /\ k # t => tables'[k] = tables[k]
        /\ k = t => /\ tables[k].remaining > 0
                    /\ tables'[k].remaining = tables[k].remaining - 1
  BY <1>1, <1>2, DrawCounts
<1>5. PICK new : new = [drawable |-> d, allocation |-> AllocationFor(d)]
  OBVIOUS
<1>6. /\ new.drawable = d /\ new.allocation = tables[t].remaining - 1
      /\ new \in Record
  BY <1>2, <1>3, <1>4, <1>5 DEF AllocationFor, Record
<1>7. recorded \in Seq(Record) /\ recorded' = Append(recorded, new)
  BY <1>1, <1>5 DEF TypeOK, Record, Draw
<1>8. PICK n \in Nat : n = Len(recorded)
  BY <1>7, LenProperties
<1>9. /\ Len(recorded') = n + 1 /\ recorded'[n + 1] = new
      /\ \A i \in 1..n : recorded'[i] = recorded[i] /\ recorded[i] \in Record
  BY <1>6, <1>7, <1>8, AppendProperties
<1>10. \A e : TableFor(e)' = TableFor(e)
  BY DEF TableFor, MaskOf
<1>11. \A e \in 1..Len(scene) : TableFor(e) \in TableKeys
  BY <1>1, WaitingRight
<1>12. \A k \in TableKeys : /\ tables[k].remaining <= tables[k].allocations
                            /\ tables[k].remaining \in Nat
                            /\ tables[k].allocations \in Nat
  BY <1>1, <1>3 DEF AllocationsInv, Table
<1>13. \A i \in 1..n :
         /\ recorded[i].drawable \in 1..Len(scene)
         /\ recorded[i].allocation \in Nat
         /\ recorded[i].allocation >= tables[TableFor(recorded[i].drawable)].remaining
         /\ recorded[i].allocation < tables[TableFor(recorded[i].drawable)].allocations
  BY <1>1, <1>8, <1>9 DEF AllocationsInv, Record
<1>14. \A i, j \in 1..n :
         /\ TableFor(recorded[i].drawable) = TableFor(recorded[j].drawable)
         /\ recorded[i].allocation = recorded[j].allocation
         => i = j
  BY <1>1, <1>8 DEF AllocationsInv
<1>15. \A i \in 1..(n + 1) : i = n + 1 \/ i \in 1..n
  OBVIOUS
<1>16. \A k \in TableKeys : tables'[k].remaining <= tables'[k].allocations
  BY <1>4, <1>12
<1>17. ASSUME NEW i \in 1..(n + 1)
       PROVE  /\ recorded'[i].drawable \in 1..Len(scene)
              /\ recorded'[i].allocation >=
                   tables'[TableFor(recorded'[i].drawable)].remaining
              /\ recorded'[i].allocation <
                   tables'[TableFor(recorded'[i].drawable)].allocations
  <2>1. CASE i = n + 1
    BY <2>1, <1>2, <1>3, <1>4, <1>6, <1>9, <1>12
  <2>2. CASE i \in 1..n
    <3>1. PICK k \in TableKeys : k = TableFor(recorded[i].drawable)
      BY <2>2, <1>11, <1>13
    <3> QED BY <2>2, <3>1, <1>4, <1>9, <1>12, <1>13
  <2> QED BY <2>1, <2>2, <1>15
<1>18. ASSUME NEW i \in 1..n, TableFor(recorded[i].drawable) = t,
              recorded[i].allocation = new.allocation
       PROVE  FALSE
  BY <1>3, <1>6, <1>13, <1>18
<1>19. ASSUME NEW i \in 1..(n + 1), NEW j \in 1..(n + 1),
              TableFor(recorded'[i].drawable) = TableFor(recorded'[j].drawable),
              recorded'[i].allocation = recorded'[j].allocation
       PROVE  i = j
  <2>1. CASE i \in 1..n /\ j \in 1..n
    BY <2>1, <1>9, <1>14, <1>19
  <2>2. CASE i = n + 1 /\ j \in 1..n
    BY <2>2, <1>2, <1>6, <1>9, <1>18, <1>19
  <2>3. CASE i \in 1..n /\ j = n + 1
    BY <2>3, <1>2, <1>6, <1>9, <1>18, <1>19
  <2> QED BY <2>1, <2>2, <2>3, <1>15
<1> QED BY <1>9, <1>10, <1>16, <1>17, <1>19 DEF AllocationsInv

(* Drawing begins with as many entries remaining as are allocated, in each *)
(* table that a drawable needs.                                            *)
LEMMA TablesStart ==
  ASSUME CachesInv, AllocateTables \/ AllocateFewer, pc' = "opaque"
  PROVE  /\ StartDrawing /\ Made' = Made /\ scene' = scene
         /\ \A k \in TableKeys : tables'[k].remaining = tables'[k].allocations
         /\ tables' \in [TableKeys -> Table]
         /\ unifBuffer' \in Nat /\ unifBuffer' >= RequiredSize(tables')
<1>1. /\ TypeOK /\ TablesInv /\ unifBuffer \in Nat
      /\ tables \in [TableKeys -> Table]
  BY DEF CachesInv, TypeOK, Table
<1>2. CASE AllocateTables
  <2>1. /\ tables' = [k \in TableKeys |->
                        IF k \in Made
                          THEN [tables[k] EXCEPT !.allocations = tables[k].count,
                                                 !.remaining = tables[k].count]
                          ELSE tables[k]]
        /\ CheckUnifBuffer(RequiredSize(tables'), TRUE) /\ StartDrawing
        /\ scene' = scene
    BY <1>2 DEF AllocateTables, NullBuffer, graphVars
  <2>2. ASSUME NEW k \in TableKeys
        PROVE  /\ tables'[k] \in Table /\ tables'[k].made = tables[k].made
               /\ tables'[k].remaining = tables'[k].allocations
    <3>1. PICK r \in Table : r = tables[k]
      BY <1>1
    <3>2. CASE k \in Made
      <4>1. tables'[k] = [made |-> r.made, count |-> r.count,
                          allocations |-> r.count, remaining |-> r.count]
        BY <2>1, <3>1, <3>2 DEF Table
      <4> QED BY <3>1, <4>1 DEF Table
    <3>3. CASE k \notin Made
      BY <2>1, <3>1, <3>3, <1>1 DEF Made, TablesInv
    <3> QED BY <3>2, <3>3
  <2>3. tables' \in [TableKeys -> Table]
    BY <2>1, <2>2
  <2>4. Made' = Made
    BY <2>2 DEF Made
  <2>5. PICK size \in Nat : size = RequiredSize(tables')
    BY <2>3, SizeRequired
  <2>6. unifBuffer' \in Nat /\ unifBuffer' >= size
    BY <1>1, <2>1, <2>5, BufferChecked
  <2> QED BY <2>1, <2>2, <2>3, <2>4, <2>5, <2>6
<1>3. CASE AllocateFewer
  <2>1. pc = "fewer"
    BY <1>3 DEF AllocateFewer
  <2>2. /\ tables' = Attempted({}) /\ StartDrawing /\ scene' = scene
        /\ CheckUnifBuffer(RequiredSize(tables), TRUE)
    BY <1>3, <2>1 DEF AllocateFewer, TryFewer, Throw, NullBuffer, graphVars
  <2>3. /\ Retried(Attempted({}))
        /\ \A k \in TableKeys :
             /\ Attempted({})[k].remaining = tables[k].remaining
             /\ k \in Counted => Attempted({})[k].allocations = tables[k].remaining
    BY <1>1, AttemptedRight
  <2>4. /\ tables' \in [TableKeys -> Table]
        /\ \A k \in TableKeys :
             /\ tables'[k].made = tables[k].made
             /\ tables'[k].remaining = tables[k].remaining
             /\ k \in Counted => tables'[k].allocations = tables[k].remaining
             /\ k \notin Counted => tables'[k].allocations = tables[k].allocations
    BY <2>2, <2>3 DEF Retried
  <2>5. \A k \in TableKeys : k \notin Counted =>
          tables[k].remaining = 0 /\ tables[k].allocations = 0
    <3>1. \A k \in TableKeys : tables[k].count \in Nat
      BY <1>1 DEF Table
    <3> QED BY <1>1, <2>1, <3>1 DEF TablesInv, Counted, Made
  <2>6. \A k \in TableKeys : tables'[k].remaining = tables'[k].allocations
    BY <2>4, <2>5
  <2>7. Made' = Made
    BY <2>4 DEF Made
  <2>8. RequiredSize(tables) = RequiredSize(tables')
    <3>1. Remaining(tables) = Remaining(tables')
      BY <2>4 DEF Remaining
    <3> QED BY <1>1, <2>4, <3>1, SizeRequired
  <2>9. PICK size \in Nat : size = RequiredSize(tables)
    BY <1>1, SizeRequired
  <2>10. unifBuffer' \in Nat /\ unifBuffer' >= size
    BY <1>1, <2>2, <2>9, BufferChecked
  <2> QED BY <2>2, <2>4, <2>6, <2>7, <2>8, <2>9, <2>10
<1> QED BY <1>2, <1>3

(* What drawing a drawable changes.                                        *)
LEMMA DrawStep ==
  ASSUME CachesInv, RenderOpaque \/ RenderBlend, Drawing'
  PROVE  /\ scene' = scene /\ unifBuffer' = unifBuffer /\ Drawing
         /\ \/ UNCHANGED <<tables, recorded, offset>>
            \/ \E d \in Waiting : /\ pc \in {"opaque", "blend"}
                                  /\ ~OutOfResources(d) /\ Draw(d)
                                  /\ intact' = intact
                                  /\ Waiting' = Waiting \ {d}
<1>1. /\ TypeOK /\ QueuesInv /\ opaque \in Seq(Nat) /\ blend \in Seq(Nat)
      /\ scene' = scene /\ unifBuffer' = unifBuffer /\ Drawing
      /\ pc \in {"opaque", "blend"}
  BY DEF CachesInv, RenderOpaque, RenderBlend, Live, Busy, TypeOK, graphVars, Drawing
<1>2. ~Throw
  BY DEF Drawing, Throw
<1>3. CASE RenderOpaque
  <2>1. opaque # <<>>
    <3>1. turns > 0 /\ turns <= Len(opaque) /\ turns \in Nat
      BY <1>1, <1>3 DEF RenderOpaque, CachesInv, TypeOK
    <3> QED BY <3>1, EmptySeq
  <2>2. PICK d \in Nat : d = Head(opaque)
    BY <1>1, <2>1, Removed
  <2>3. /\ d \in Ids(opaque) /\ Ids(opaque) = Ids(Tail(opaque)) \cup {d}
        /\ d \notin Ids(Tail(opaque))
    BY <1>1, <2>1, <2>2, Removed DEF QueuesInv
  <2>4. \/ UNCHANGED <<tables, recorded, offset>>
        \/ /\ ~OutOfResources(d) /\ Draw(d) /\ opaque' = Tail(opaque)
           /\ blend' = blend /\ intact' = intact
    BY <1>2, <1>3, <2>2 DEF RenderOpaque, DrawThrows, historyVars
  <2>5. opaque' = Tail(opaque) /\ blend' = blend => Waiting' = Waiting \ {d}
    BY <1>1, <2>3 DEF Waiting, QueuesInv
  <2>6. d \in Waiting
    BY <2>3 DEF Waiting
  <2> QED BY <1>1, <2>4, <2>5, <2>6
<1>4. CASE RenderBlend
  <2>1. blend # <<>>
    BY <1>4 DEF RenderBlend
  <2>2. PICK d \in Nat : d = Head(blend)
    BY <1>1, <2>1, Removed
  <2>3. /\ d \in Ids(blend) /\ Ids(blend) = Ids(Tail(blend)) \cup {d}
        /\ d \notin Ids(Tail(blend))
    BY <1>1, <2>1, <2>2, Removed DEF QueuesInv
  <2>4. /\ ~OutOfResources(d) /\ Draw(d) /\ blend' = Tail(blend)
        /\ opaque' = opaque /\ intact' = intact
    BY <1>2, <1>4, <2>2 DEF RenderBlend, DrawThrows, historyVars
  <2>5. opaque' = opaque /\ blend' = Tail(blend) => Waiting' = Waiting \ {d}
    BY <1>1, <2>3 DEF Waiting, QueuesInv
  <2>6. d \in Waiting
    BY <2>3 DEF Waiting
  <2> QED BY <1>1, <2>4, <2>5, <2>6
<1> QED BY <1>3, <1>4

(* The steps after which render() draws.                                   *)
LEMMA DrawingStep ==
  ASSUME CachesInv, [Next]_vars, Drawing'
  PROVE  \/ (AllocateTables \/ AllocateFewer) /\ pc' = "opaque"
         \/ RenderOpaque \/ RenderBlend
         \/ /\ Drawing /\ tables' = WillRenderAgain /\ StartDrawing
            /\ UNCHANGED <<scene, unifBuffer>>
         \/ /\ Drawing
            /\ UNCHANGED <<scene, tables, recorded, offset, unifBuffer>>
<1>1. pc' \in {"opaque", "blend", "submit"}
  BY DEF Drawing
<1>2. ASSUME NEW s \in Scenes, NEW p \in Passes, Render(s, p) PROVE FALSE
  BY <1>1, <1>2 DEF Render
<1>3. CASE RejectPrimitive
  BY <1>1, <1>3 DEF RejectPrimitive, Throw
<1>4. CASE PushDrawable
  BY <1>1, <1>4 DEF PushDrawable, Throw
<1>5. CASE GraphDone
  BY <1>1, <1>5 DEF GraphDone
<1>6. CASE AllocateTables
  BY <1>1, <1>6 DEF AllocateTables, StartDrawing, NullBuffer
<1>7. CASE BeginSubset
  BY <1>1, <1>7 DEF BeginSubset
<1>8. CASE AllocateFewer
  <2>1. pc = "fewer"
    BY <1>8 DEF AllocateFewer
  <2>2. pc' = pc \/ pc' \in {"idle", "opaque", "undefined"}
    BY <1>8 DEF AllocateFewer, TryFewer, Throw, StartDrawing, NullBuffer
  <2> QED BY <1>1, <1>8, <2>1, <2>2
<1>9. CASE OpaqueDone \/ BlendDone
  BY <1>9 DEF OpaqueDone, BlendDone, Drawing, graphVars, passVars
<1>10. CASE Submit
  BY <1>1, <1>10 DEF Submit, Drawing, Throw, graphVars
<1>11. CASE UNCHANGED vars
  BY <1>1, <1>11 DEF vars, graphVars, passVars, Drawing
<1> QED BY <1>2, <1>3, <1>4, <1>5, <1>6, <1>7, <1>8, <1>9, <1>10, <1>11
        DEF Next, Step, Rest

(* Every step keeps the allocations that were taken different.             *)
LEMMA NextAllocations ==
  CachesInv /\ AllocationsInv /\ [Next]_vars => AllocationsInv'
<1> SUFFICES ASSUME CachesInv, AllocationsInv, [Next]_vars, Drawing'
             PROVE  AllocationsInv'
  BY DEF AllocationsInv
<1>1. tables \in [TableKeys -> Table] /\ TypeOK
  BY DEF CachesInv, TypeOK, Table
<1>2. CASE (AllocateTables \/ AllocateFewer) /\ pc' = "opaque"
  <2>1. StartDrawing
    BY <1>2, TablesStart
  <2>2. \A k \in TableKeys : tables'[k].remaining = tables'[k].allocations
    BY <1>2, TablesStart
  <2>3. \A k \in TableKeys : tables'[k].allocations \in Nat
    <3>1. tables' \in [TableKeys -> Table]
      BY <1>2, TablesStart
    <3> QED BY <3>1 DEF Table
  <2> QED BY <2>1, <2>2, <2>3, StartAllocations
<1>3. CASE RenderOpaque \/ RenderBlend
  <2>1. /\ scene' = scene /\ Drawing
        /\ \/ UNCHANGED <<tables, recorded, offset>>
           \/ \E d \in Waiting : /\ pc \in {"opaque", "blend"}
                                 /\ ~OutOfResources(d) /\ Draw(d)
                                 /\ intact' = intact
                                 /\ Waiting' = Waiting \ {d}
    BY <1>3, DrawStep
  <2>2. CASE UNCHANGED <<tables, recorded, offset>>
    <3>1. \A e : TableFor(e)' = TableFor(e)
      BY <2>1 DEF TableFor, MaskOf
    <3> QED BY <2>1, <2>2, <3>1 DEF AllocationsInv
  <2>3. ASSUME NEW d \in Waiting, pc \in {"opaque", "blend"}, ~OutOfResources(d),
               Draw(d), intact' = intact, Waiting' = Waiting \ {d}
        PROVE  AllocationsInv'
    BY <2>1, <2>3, DrawAllocations
  <2> QED BY <2>1, <2>2, <2>3
<1>4. CASE Drawing /\ tables' = WillRenderAgain /\ StartDrawing
  <2>1. \A k \in TableKeys : /\ tables[k].remaining <= tables[k].allocations
                             /\ tables[k].allocations \in Nat
    BY <1>1, <1>4 DEF AllocationsInv, Table
  <2>2. \A k \in TableKeys :
          /\ tables'[k].allocations = tables[k].allocations
          /\ \/ tables'[k].remaining = tables[k].allocations
             \/ tables'[k].remaining = tables[k].remaining
    BY <1>1, <1>4, AgainRight
  <2>3. \A k \in TableKeys : tables'[k].remaining <= tables'[k].allocations
    BY <2>1, <2>2
  <2> QED BY <1>4, <2>3, StartAllocations
<1>5. CASE Drawing /\ UNCHANGED <<scene, tables, recorded, offset, unifBuffer>>
  <2>1. \A e : TableFor(e)' = TableFor(e)
    BY <1>5 DEF TableFor, MaskOf
  <2> QED BY <1>5, <2>1 DEF AllocationsInv
<1> QED BY <1>2, <1>3, <1>4, <1>5, DrawingStep

(* No two drawables of a pass get the same allocation, and each gets one   *)
(* that its table has, whatever was allocated, thrown or drawn before      *)
(* (NewRenderer::renderDrawable, willRenderAgain).                         *)
THEOREM AllocationsStayDistinct == Spec => []AllocationsDistinct
<1>1. Init => AllocationsInv
  BY DEF Init, AllocationsInv, Drawing
<1>2. CachesInv /\ AllocationsInv => AllocationsDistinct
  <2> SUFFICES ASSUME CachesInv, AllocationsInv, Drawing PROVE AllocationsDistinct
    BY DEF AllocationsDistinct
  <2>1. TypeOK /\ QueuesInv
    BY DEF CachesInv, Drawing, Live, Busy
  <2>2. recorded \in Seq(Record)
    BY <2>1 DEF TypeOK, Record
  <2>3. DOMAIN recorded = 1..Len(recorded)
    BY <2>2, LenProperties
  <2>4. ASSUME NEW i \in 1..Len(recorded)
        PROVE  recorded[i].allocation \in
                 0..(tables[TableFor(recorded[i].drawable)].allocations - 1)
    <3>1. recorded[i] \in Record /\ recorded[i].drawable \in 1..Len(scene)
      BY <2>2, <2>4, ElementOfSeq DEF AllocationsInv
    <3>2. TableFor(recorded[i].drawable) \in TableKeys
      BY <2>1, <3>1, WaitingRight
    <3>3. tables[TableFor(recorded[i].drawable)].allocations \in Nat
      BY <2>1, <3>2 DEF TypeOK
    <3>4. /\ recorded[i].allocation \in Nat
          /\ recorded[i].allocation < tables[TableFor(recorded[i].drawable)].allocations
      BY <3>1 DEF AllocationsInv, Record
    <3> QED BY <3>3, <3>4
  <2>5. \A i, j \in 1..Len(recorded) :
          /\ TableFor(recorded[i].drawable) = TableFor(recorded[j].drawable)
          /\ recorded[i].allocation = recorded[j].allocation
          => i = j
    BY DEF AllocationsInv
  <2> QED BY <2>3, <2>4, <2>5 DEF AllocationsDistinct
<1> QED BY <1>1, <1>2, InitCaches, NextCaches, NextAllocations, PTL DEF Spec

-----------------------------------------------------------------------------
(* Room in the uniform buffer.                                             *)

NoSkins == \A d \in DOMAIN scene : MaskOf(d) \notin Skinned

LeftCount == Cardinality(Entries(Made, Remaining(tables)))
GivenCount == Cardinality(Entries(Made, Allocations(tables)))

(* The buffer has room for what is left, and, from its beginning, for all  *)
(* that is allocated: for the passes that renderAgain adds.                *)
BufferInv ==
  Drawing /\ NoSkins =>
    /\ offset + InstanceSize * LeftCount <= unifBuffer
    /\ MainUnifSize + InstanceSize * GivenCount <= unifBuffer

(* What the tables have yet to give, and what they have, can be counted.   *)
LEMMA EntriesCounted ==
  ASSUME tables \in [TableKeys -> Table]
  PROVE  /\ LeftCount \in Nat /\ GivenCount \in Nat
         /\ IsFiniteSet(Entries(Made, Remaining(tables)))
         /\ IsFiniteSet(Entries(Made, Allocations(tables)))
<1>1. \A k \in Made : /\ Remaining(tables)[k] \in Nat
                      /\ Allocations(tables)[k] \in Nat
  BY DEF Made, Remaining, Allocations, Table
<1>2. IsFiniteSet(Made)
  BY TablesFinite
<1>3. PICK n : n = Remaining(tables)
  OBVIOUS
<1>4. IsFiniteSet(Entries(Made, n)) /\ Cardinality(Entries(Made, n)) \in Nat
  BY <1>1, <1>2, <1>3, EntriesFinite
<1>5. PICK a : a = Allocations(tables)
  OBVIOUS
<1>6. IsFiniteSet(Entries(Made, a)) /\ Cardinality(Entries(Made, a)) \in Nat
  BY <1>1, <1>2, <1>5, EntriesFinite
<1> QED BY <1>3, <1>4, <1>5, <1>6 DEF LeftCount, GivenCount

(* Multiples of the size.                                                  *)
LEMMA Multiples ==
  ASSUME NEW a \in Nat, NEW b \in Nat
  PROVE  /\ InstanceSize \in Nat \ {0}
         /\ InstanceSize * a \in Nat
         /\ a <= b => InstanceSize * a <= InstanceSize * b
         /\ a > 0 => /\ InstanceSize * a >= InstanceSize
                     /\ InstanceSize * (a - 1) = InstanceSize * a - InstanceSize
<1>1. PICK i \in Nat \ {0} : i = InstanceSize
  BY RendererAssumption
<1>2. a <= b => i * a <= i * b
  <2>1. CASE a <= b
    <3>1. PICK c \in Nat : b = a + c
      BY <2>1
    <3>2. i * b = i * a + i * c /\ i * c \in Nat /\ i * a \in Nat
      BY <3>1
    <3> QED BY <3>1, <3>2
  <2> QED BY <2>1
<1>3. ASSUME a > 0 PROVE i * a >= i /\ i * (a - 1) = i * a - i
  <2>1. PICK c \in Nat : a = c + 1
    BY <1>3
  <2>2. i * a = i * c + i /\ i * c \in Nat
    BY <2>1
  <2> QED BY <2>1, <2>2
<1>4. i * a \in Nat
  OBVIOUS
<1> QED BY <1>1, <1>2, <1>3, <1>4

(* A drawable takes the last entry that its table has left.                *)
LEMMA DrawEntries ==
  ASSUME CachesInv, pc \in {"opaque", "blend"}, NEW d \in Waiting,
         ~OutOfResources(d), Draw(d), scene' = scene, intact' = intact,
         Waiting' = Waiting \ {d}
  PROVE  LeftCount > 0 /\ LeftCount' = LeftCount - 1 /\ GivenCount' = GivenCount
<1>1. /\ TypeOK /\ QueuesInv /\ CountsInv /\ StatesInv /\ Busy
      /\ tables \in [TableKeys -> Table]
  BY DEF CachesInv, Live, Busy, TypeOK, Table
<1>2. PICK t \in TableKeys : t = TableFor(d)
  BY <1>1, WaitingInScene
<1>3. /\ \A k \in TableKeys :
           /\ tables'[k].made = tables[k].made
           /\ tables'[k].allocations = tables[k].allocations
           /\ k # t => tables'[k] = tables[k]
           /\ k = t => /\ tables[k].remaining > 0
                       /\ tables'[k].remaining = tables[k].remaining - 1
  BY <1>1, <1>2, DrawCounts
<1>4. PICK n \in Nat : n = tables[t].remaining
  BY <1>1 DEF Table
<1>5. t \in Made
  BY <1>1, <1>2 DEF StatesInv, Made
<1>6. Made' = Made /\ Allocations(tables)' = Allocations(tables)
  BY <1>3 DEF Made, Allocations
<1>7. PICK E : E = Entries(Made, Remaining(tables))
  OBVIOUS
<1>8. \A e : e \in E <=> \E k \in Made : e \in {k} \X (1..tables[k].remaining)
  BY <1>7 DEF Entries, Remaining, Made
<1>9. PICK G : G = Entries(Made, Remaining(tables'))
  OBVIOUS
<1>10. \A e : e \in G <=> \E k \in Made : e \in {k} \X (1..tables'[k].remaining)
  BY <1>9 DEF Entries, Remaining, Made
<1>11. <<t, n>> \in E
  BY <1>3, <1>4, <1>5, <1>8
<1>12. G = E \ {<<t, n>>}
  <2>1. \A k \in Made : k \in TableKeys /\ tables[k].remaining \in Nat
    BY <1>1 DEF Made, Table
  <2>2. ASSUME NEW e \in G PROVE e \in E \ {<<t, n>>}
    <3>1. PICK k \in Made : e \in {k} \X (1..tables'[k].remaining)
      BY <1>10, <2>2
    <3>2. PICK i \in 1..tables'[k].remaining : e = <<k, i>>
      BY <3>1
    <3>3. i \in 1..tables[k].remaining /\ (k = t => i # n)
      BY <1>3, <1>4, <2>1, <3>2
    <3> QED BY <1>8, <3>2, <3>3
  <2>3. ASSUME NEW e \in E, e # <<t, n>> PROVE e \in G
    <3>1. PICK k \in Made : e \in {k} \X (1..tables[k].remaining)
      BY <1>8, <2>3
    <3>2. PICK i \in 1..tables[k].remaining : e = <<k, i>>
      BY <3>1
    <3>3. i \in 1..tables'[k].remaining
      BY <1>3, <1>4, <2>1, <2>3, <3>2
    <3> QED BY <1>10, <3>2, <3>3
  <2> QED BY <2>2, <2>3
<1>13. IsFiniteSet(E) /\ Cardinality(E) \in Nat
  BY <1>1, <1>7, EntriesCounted DEF LeftCount
<1>14. Cardinality(G) = Cardinality(E) - 1 /\ Cardinality(E) # 0
  BY <1>11, <1>12, <1>13, FS_RemoveElement, FS_EmptySet
<1>15. LeftCount = Cardinality(E) /\ LeftCount' = Cardinality(G)
  BY <1>6, <1>7, <1>9 DEF LeftCount, Remaining
<1> QED BY <1>6, <1>13, <1>14, <1>15 DEF GivenCount, Allocations

(* Every step keeps the uniform buffer large enough for what the tables    *)
(* give.                                                                   *)
LEMMA NextBuffer ==
  CachesInv /\ AllocationsInv /\ BufferInv /\ [Next]_vars => BufferInv'
<1> SUFFICES ASSUME CachesInv, AllocationsInv, BufferInv, [Next]_vars,
                    Drawing', NoSkins'
             PROVE  /\ offset' + InstanceSize * LeftCount' <= unifBuffer'
                    /\ MainUnifSize + InstanceSize * GivenCount' <= unifBuffer'
  BY DEF BufferInv
<1>1. /\ TypeOK /\ tables \in [TableKeys -> Table] /\ offset \in Nat
      /\ unifBuffer \in Nat /\ LeftCount \in Nat /\ GivenCount \in Nat
      /\ MainUnifSize \in Nat
  <2>1. TypeOK /\ tables \in [TableKeys -> Table]
    BY DEF CachesInv, TypeOK, Table
  <2> QED BY <2>1, EntriesCounted, RendererAssumption DEF TypeOK
<1>2. CASE (AllocateTables \/ AllocateFewer) /\ pc' = "opaque"
  <2>1. /\ StartDrawing /\ Made' = Made
        /\ \A k \in TableKeys : tables'[k].remaining = tables'[k].allocations
        /\ tables' \in [TableKeys -> Table]
        /\ unifBuffer' \in Nat /\ unifBuffer' >= RequiredSize(tables')
    BY <1>2, TablesStart
  <2>2. Remaining(tables') = Allocations(tables')
    BY <2>1 DEF Remaining, Allocations
  <2>3. LeftCount' = GivenCount' /\
        LeftCount' = Cardinality(Entries(Made, Remaining(tables')))
    BY <2>1, <2>2 DEF LeftCount, GivenCount, Remaining, Allocations
  <2>4. RequiredSize(tables') = MainUnifSize + InstanceSize * LeftCount'
    BY <2>1, <2>3, SizeRequired
  <2>5. offset' = MainUnifSize
    BY <2>1 DEF StartDrawing
  <2>6. PICK l : l = InstanceSize * LeftCount'
    OBVIOUS
  <2>7. MainUnifSize + l <= unifBuffer'
    BY <2>1, <2>4, <2>6
  <2> QED BY <2>3, <2>5, <2>6, <2>7
<1>3. CASE RenderOpaque \/ RenderBlend
  <2>1. /\ scene' = scene /\ Drawing /\ unifBuffer' = unifBuffer
        /\ \/ UNCHANGED <<tables, recorded, offset>>
           \/ \E d \in Waiting : /\ pc \in {"opaque", "blend"}
                                 /\ ~OutOfResources(d) /\ Draw(d)
                                 /\ intact' = intact
                                 /\ Waiting' = Waiting \ {d}
    BY <1>3, DrawStep
  <2>2. NoSkins
    BY <2>1 DEF NoSkins, MaskOf
  <2>3. /\ offset + InstanceSize * LeftCount <= unifBuffer
        /\ MainUnifSize + InstanceSize * GivenCount <= unifBuffer
    BY <2>1, <2>2 DEF BufferInv
  <2>4. CASE UNCHANGED <<tables, recorded, offset>>
    <3>1. LeftCount' = LeftCount /\ GivenCount' = GivenCount
      BY <2>4 DEF LeftCount, GivenCount, Remaining, Allocations, Made
    <3> QED BY <2>1, <2>3, <2>4, <3>1
  <2>5. ASSUME NEW d \in Waiting, pc \in {"opaque", "blend"}, ~OutOfResources(d),
               Draw(d), intact' = intact, Waiting' = Waiting \ {d}
        PROVE  /\ offset' + InstanceSize * LeftCount' <= unifBuffer'
               /\ MainUnifSize + InstanceSize * GivenCount' <= unifBuffer'
    <3>1. LeftCount > 0 /\ LeftCount' = LeftCount - 1 /\ GivenCount' = GivenCount
      BY <2>1, <2>5, DrawEntries
    <3>2. MaskOf(d) \notin Skinned
      <4>1. Busy
        BY <2>5 DEF Busy
      <4>2. d \in 1..Len(scene) /\ scene \in Seq(Masks)
        BY <1>1, <4>1, <2>5, WaitingInScene DEF TypeOK
      <4> QED BY <2>2, <4>2 DEF NoSkins
    <3>3. offset' = offset + InstanceSize
      BY <2>5, <3>2 DEF Draw, WrittenSize
    <3>4. PICK i \in Nat : i = InstanceSize
      BY <1>1, Multiples
    <3>5. /\ InstanceSize * LeftCount \in Nat
          /\ InstanceSize * (LeftCount - 1) = InstanceSize * LeftCount - InstanceSize
      BY <1>1, <3>1, Multiples
    <3>6. PICK l \in Nat : l = InstanceSize * LeftCount
      BY <3>5
    <3>7. InstanceSize * LeftCount' = l - i
      BY <3>1, <3>4, <3>5, <3>6
    <3>8. offset' + InstanceSize * LeftCount' = offset + l
      BY <1>1, <3>3, <3>4, <3>7
    <3> QED BY <2>1, <2>3, <3>1, <3>6, <3>8
  <2> QED BY <2>1, <2>4, <2>5
<1>4. CASE /\ Drawing /\ tables' = WillRenderAgain /\ StartDrawing
           /\ UNCHANGED <<scene, unifBuffer>>
  <2>1. /\ \A k \in TableKeys :
             /\ tables'[k].made = tables[k].made
             /\ tables'[k].allocations = tables[k].allocations
             /\ \/ tables'[k].remaining = tables[k].allocations
                \/ tables'[k].remaining = tables[k].remaining
        /\ tables' \in [TableKeys -> Table]
    BY <1>1, <1>4, AgainRight
  <2>2. Made' = Made /\ Allocations(tables') = Allocations(tables)
    BY <2>1 DEF Made, Allocations
  <2>3. MainUnifSize + InstanceSize * GivenCount <= unifBuffer
    BY <1>4 DEF BufferInv, NoSkins, MaskOf
  <2>4. GivenCount' = GivenCount
    BY <2>2 DEF GivenCount
  <2>5. \A k \in TableKeys : /\ tables'[k].remaining <= tables[k].allocations
                             /\ tables'[k].remaining \in Nat
                             /\ tables[k].allocations \in Nat
    <3>1. \A k \in TableKeys : tables[k] \in Table /\ tables'[k] \in Table
      BY <1>1, <2>1
    <3>2. \A k \in TableKeys : tables[k].remaining <= tables[k].allocations
      BY <1>4 DEF AllocationsInv
    <3>3. \A r \in Table : r.remaining \in Nat /\ r.allocations \in Nat
      BY DEF Table
    <3> QED BY <2>1, <3>1, <3>2, <3>3
  <2>6. PICK E : E = Entries(Made, Allocations(tables))
    OBVIOUS
  <2>7. PICK G : G = Entries(Made, Remaining(tables'))
    OBVIOUS
  <2>8. G \subseteq E
    <3>1. \A k \in Made : 1..tables'[k].remaining \subseteq 1..tables[k].allocations
      BY <2>5 DEF Made
    <3>2. \A e : e \in G <=> \E k \in Made : e \in {k} \X (1..tables'[k].remaining)
      BY <2>7 DEF Entries, Remaining, Made
    <3>3. \A e : e \in E <=> \E k \in Made : e \in {k} \X (1..tables[k].allocations)
      BY <2>6 DEF Entries, Allocations, Made
    <3> QED BY <3>1, <3>2, <3>3
  <2>9. IsFiniteSet(E) /\ Cardinality(E) = GivenCount
    BY <1>1, <2>6, EntriesCounted DEF GivenCount
  <2>10. /\ Cardinality(G) \in Nat /\ Cardinality(G) <= GivenCount
    BY <2>8, <2>9, FS_Subset, FS_CardinalityType
  <2>11. PICK c \in Nat : c = Cardinality(G)
    BY <2>10
  <2>12. InstanceSize * c <= InstanceSize * GivenCount
    BY <1>1, <2>10, <2>11, Multiples
  <2>13. LeftCount' = c
    BY <2>2, <2>7, <2>11 DEF LeftCount
  <2>14. InstanceSize * c \in Nat /\ InstanceSize * GivenCount \in Nat
    BY <1>1, Multiples
  <2>15. offset' = MainUnifSize /\ unifBuffer' = unifBuffer
    BY <1>4 DEF StartDrawing
  <2>16. PICK x \in Nat : x = InstanceSize * c
    BY <2>14
  <2>17. PICK y \in Nat : y = InstanceSize * GivenCount
    BY <2>14
  <2>18. MainUnifSize + x <= unifBuffer /\ MainUnifSize + y <= unifBuffer
    BY <1>1, <2>3, <2>12, <2>16, <2>17
  <2> QED BY <2>4, <2>13, <2>15, <2>16, <2>17, <2>18
<1>5. CASE Drawing /\ UNCHANGED <<scene, tables, recorded, offset, unifBuffer>>
  <2>1. LeftCount' = LeftCount /\ GivenCount' = GivenCount
    BY <1>5 DEF LeftCount, GivenCount, Remaining, Allocations, Made
  <2>2. NoSkins
    BY <1>5 DEF NoSkins, MaskOf
  <2> QED BY <1>5, <2>1, <2>2 DEF BufferInv
<1> QED BY <1>2, <1>3, <1>4, <1>5, DrawingStep

(* Without skins, no drawable that has an allocation lacks room for its    *)
(* uniforms, in any pass (checkUnifBuffer, willRenderAgain).               *)
THEOREM UniformsHaveRoom == Spec => []UniformsFit
<1>1. Init => AllocationsInv /\ BufferInv
  BY DEF Init, AllocationsInv, BufferInv, Drawing
<1>2. CachesInv /\ BufferInv => UniformsFit
  <2> SUFFICES ASSUME CachesInv, BufferInv, Drawing, NoSkins, NEW d \in Waiting,
                      ~OutOfResources(d)
               PROVE  offset + InstanceSize <= unifBuffer
    BY DEF UniformsFit, NoSkins, Waiting
  <2>1. /\ TypeOK /\ StatesInv /\ Busy /\ tables \in [TableKeys -> Table]
        /\ offset \in Nat /\ unifBuffer \in Nat
    BY DEF CachesInv, Drawing, Live, Busy, TypeOK, Table
  <2>2. PICK t \in TableKeys : t = TableFor(d)
    BY <2>1, WaitingInScene
  <2>3. t \in Made /\ tables[t].remaining \in Nat \ {0}
    BY <2>1, <2>2 DEF StatesInv, Made, OutOfResources, Table
  <2>4. <<t, 1>> \in Entries(Made, Remaining(tables))
    BY <2>3 DEF Entries, Remaining
  <2>5. LeftCount \in Nat /\ LeftCount > 0
    <3>1. PICK E : E = Entries(Made, Remaining(tables))
      OBVIOUS
    <3>2. IsFiniteSet(E) /\ Cardinality(E) = LeftCount /\ LeftCount \in Nat
      BY <2>1, <3>1, EntriesCounted DEF LeftCount
    <3>3. Cardinality(E) # 0
      BY <2>4, <3>1, <3>2, FS_EmptySet
    <3> QED BY <3>2, <3>3
  <2>6. /\ InstanceSize * LeftCount >= InstanceSize
        /\ InstanceSize * LeftCount \in Nat /\ InstanceSize \in Nat
    BY <2>5, Multiples
  <2>7. offset + InstanceSize * LeftCount <= unifBuffer
    BY DEF BufferInv
  <2>8. PICK x \in Nat : x = InstanceSize * LeftCount
    BY <2>6
  <2> QED BY <2>1, <2>6, <2>7, <2>8
<1> QED BY <1>1, <1>2, InitCaches, NextCaches, NextAllocations, NextBuffer,
           PTL DEF Spec

-----------------------------------------------------------------------------
(* What is promised of a scene (RenderPromise).                             *)

(* A list whose numbers grow.                                              *)
Increasing(s) == \A i, j \in 1..Len(s) : i < j => s[i] < s[j]

(* As many first elements of a list as are looked at, if all are different.*)
LEMMA FirstCounted ==
  ASSUME NEW s \in Seq(Nat), Distinct(s), NEW n \in 0..Len(s)
  PROVE  /\ IsFiniteSet({s[j] : j \in 1..n})
         /\ Cardinality({s[j] : j \in 1..n}) = n
<1>1. PICK T : T = {s[j] : j \in 1..n}
  OBVIOUS
<1>2. /\ n \in Nat /\ Len(s) \in Nat
      /\ \A j \in 1..n : j \in 1..Len(s) /\ s[j] \in T
  BY <1>1, LenProperties
<1>3. PICK f : f = [j \in 1..n |-> s[j]]
  OBVIOUS
<1>4. f \in [1..n -> T] /\ \A t \in T : \E j \in 1..n : f[j] = t
  BY <1>1, <1>2, <1>3
<1>5. \A i, j \in 1..n : f[i] = f[j] => i = j
  BY <1>2, <1>3 DEF Distinct
<1>6. f \in Bijection(1..n, T)
  BY <1>4, <1>5, Fun_IsBij
<1>7. ExistsBijection(1..n, T)
  BY <1>6 DEF ExistsBijection
<1>8. IsFiniteSet(1..n) /\ Cardinality(1..n) = n
  BY <1>2, FS_Interval
<1> QED BY <1>1, <1>7, <1>8, FS_Bijection

(* What a list holds.                                                      *)
LEMMA ListIds ==
  ASSUME NEW s \in Seq(Nat)
  PROVE  /\ Len(s) \in Nat
         /\ Ids(s) = {s[j] : j \in 1..Len(s)}
         /\ Ids(s) \subseteq Nat
         /\ \A i \in 1..Len(s) : s[i] \in Nat
<1>1. Len(s) \in Nat /\ DOMAIN s = 1..Len(s) /\ \A i \in 1..Len(s) : s[i] \in Nat
  BY LenProperties, ElementOfSeq
<1> QED BY <1>1 DEF Ids

(* A list that grows is the order of what it holds.                        *)
LEMMA IncreasingInOrder ==
  ASSUME NEW s \in Seq(Nat), Increasing(s)
  PROVE  /\ InOrder(Ids(s)) = s
         /\ Cardinality(Ids(s)) = Len(s) /\ Distinct(s)
<1>1. PICK n \in Nat : n = Len(s)
  BY ListIds
<1>2. PICK D : D = Ids(s)
  OBVIOUS
<1>3. D = {s[j] : j \in 1..n} /\ D \subseteq Nat /\ \A i \in 1..n : s[i] \in Nat
  BY <1>1, <1>2, ListIds
<1>4. \A i, j \in 1..n : s[i] <= s[j] <=> i <= j
  BY <1>1, <1>3 DEF Increasing
<1>5. Distinct(s)
  BY <1>1, <1>3, <1>4 DEF Distinct
<1>6. Cardinality(D) = n
  <2>1. n \in 0..Len(s)
    BY <1>1
  <2>2. Cardinality({s[j] : j \in 1..n}) = n
    BY <2>1, <1>5, FirstCounted
  <2> QED BY <2>2, <1>3
<1>7. ASSUME NEW i \in 1..n PROVE Rank(D, s[i]) = i
  <2>1. {e \in D : e <= s[i]} = {s[j] : j \in 1..i}
    BY <1>3, <1>4
  <2>2. i \in 0..Len(s)
    BY <1>1
  <2> QED BY <1>5, <2>1, <2>2, FirstCounted DEF Rank
<1>8. ASSUME NEW i \in 1..n PROVE (CHOOSE d \in D : Rank(D, d) = i) = s[i]
  <2>1. s[i] \in D /\ Rank(D, s[i]) = i
    BY <1>3, <1>7
  <2>2. PICK c : c = CHOOSE d \in D : Rank(D, d) = i
    OBVIOUS
  <2>3. c \in D /\ Rank(D, c) = i
    BY <2>1, <2>2
  <2>4. PICK j \in 1..n : c = s[j]
    BY <1>3, <2>3
  <2> QED BY <1>7, <2>2, <2>3, <2>4
<1>9. InOrder(D) = [i \in 1..n |-> s[i]]
  BY <1>6, <1>8 DEF InOrder
<1>10. s = [i \in 1..n |-> s[i]]
  BY <1>1, LenProperties
<1> QED BY <1>1, <1>2, <1>5, <1>6, <1>9, <1>10

(* Any finite set of numbers has an order, each of them in one place.      *)
LEMMA InOrderRight ==
  ASSUME NEW D \in SUBSET Nat, IsFiniteSet(D)
  PROVE  /\ Ids(InOrder(D)) = D
         /\ InOrder(D) \in Seq(Nat)
         /\ Len(InOrder(D)) = Cardinality(D)
<1>1. PICK n \in Nat : n = Cardinality(D)
  BY FS_CardinalityType
<1>2. ASSUME NEW d \in D
      PROVE  /\ IsFiniteSet({e \in D : e <= d})
             /\ Rank(D, d) \in 1..n
  <2>1. {e \in D : e <= d} \in SUBSET D /\ d \in {e \in D : e <= d}
    OBVIOUS
  <2>2. PICK U \in SUBSET D : U = {e \in D : e <= d}
    BY <2>1
  <2>3. IsFiniteSet(U) /\ Cardinality(U) <= n /\ Cardinality(U) \in Nat
    BY <1>1, FS_Subset, FS_CardinalityType
  <2>4. Cardinality(U) # 0
    BY <2>1, <2>2, <2>3, FS_EmptySet
  <2> QED BY <2>2, <2>3, <2>4 DEF Rank
<1>3. ASSUME NEW d \in D, NEW c \in D, Rank(D, d) = Rank(D, c), d <= c
      PROVE  d = c
  <2>1. PICK U : U = {e \in D : e <= d}
    OBVIOUS
  <2>2. PICK V : V = {e \in D : e <= c}
    OBVIOUS
  <2>3. U \in SUBSET V
    <3>1. \A e, x, y \in Nat : e <= x /\ x <= y => e <= y
      OBVIOUS
    <3>2. \A e \in U : e \in V
      BY <1>3, <2>1, <2>2, <3>1
    <3> QED BY <3>2
  <2>4. IsFiniteSet(V) /\ Cardinality(U) = Cardinality(V)
    BY <1>2, <1>3, <2>1, <2>2 DEF Rank
  <2>5. U = V
    BY <2>3, <2>4, FS_Subset
  <2>6. c \in U
    BY <2>2, <2>5
  <2> QED BY <1>3, <2>1, <2>6
<1>4. PICK r : r = [d \in D |-> Rank(D, d)]
  OBVIOUS
<1>5. r \in Injection(D, 1..n)
  <2>1. r \in [D -> 1..n]
    BY <1>2, <1>4
  <2>2. \A d, c \in D : r[d] = r[c] => d = c
    BY <1>3, <1>4
  <2> QED BY <2>1, <2>2, Fun_IsInj
<1>6. IsFiniteSet(1..n) /\ Cardinality(1..n) = n
  BY FS_Interval
<1>7. r \in Surjection(D, 1..n)
  BY <1>1, <1>5, <1>6, FS_Injection
<1>8. \A i \in 1..n : \E d \in D : Rank(D, d) = i
  <2>1. \A i \in 1..n : \E d \in D : r[d] = i
    BY <1>7, Fun_SurjectionProperties
  <2> QED BY <1>4, <2>1
<1>9. PICK s : s = InOrder(D)
  OBVIOUS
<1>10. ASSUME NEW i \in 1..n PROVE s[i] \in D /\ Rank(D, s[i]) = i
  <2>1. s[i] = CHOOSE d \in D : Rank(D, d) = i
    BY <1>1, <1>9 DEF InOrder
  <2> QED BY <1>8, <2>1
<1>11. s = [i \in 1..n |-> s[i]]
  BY <1>1, <1>9 DEF InOrder
<1>12. s \in [1..n -> Nat]
  BY <1>10, <1>11
<1>13. s \in Seq(Nat) /\ Len(s) = n /\ DOMAIN s = 1..n
  BY <1>12, SeqDef
<1>14. ASSUME NEW d \in D PROVE d \in Ids(s)
  <2>1. PICK i \in 1..n : i = Rank(D, d)
    BY <1>2
  <2>2. s[i] \in D /\ Rank(D, s[i]) = Rank(D, d)
    BY <1>10, <2>1
  <2>3. s[i] <= d \/ d <= s[i]
    <3>1. \A x, y \in Nat : x <= y \/ y <= x
      OBVIOUS
    <3> QED BY <2>2, <3>1
  <2>4. s[i] = d
    BY <1>3, <2>2, <2>3
  <2> QED BY <1>13, <2>4 DEF Ids
<1>15. Ids(s) = D
  BY <1>10, <1>13, <1>14 DEF Ids
<1> QED BY <1>1, <1>9, <1>13, <1>15

(* The drawables that the current encoder has recorded.                    *)
Batch == [i \in 1..Len(recorded) |-> recorded[i].drawable]

(* Each drawable that was pushed was submitted, is recorded or waits.      *)
Parted ==
  /\ (Ids(drawn) \cup Ids(Batch)) \cap Waiting = {}
  /\ Ids(drawn) \cap Ids(Batch) = {}
  /\ Ids(drawn) \cup Ids(Batch) \cup Waiting = 1..pushed

(* What follows a blended drawable that is recorded.                       *)
BatchOrdered ==
  \A i \in 1..Len(Batch) : IsBlended(Batch[i]) =>
    /\ opaque = <<>>
    /\ \A j \in 1..Len(Batch) : i < j => IsBlended(Batch[j]) /\ Batch[i] < Batch[j]
    /\ \A d \in Ids(blend) : Batch[i] < d

Sorted ==
  /\ \A d \in Ids(opaque) : ~IsBlended(d)
  /\ \A d \in Ids(blend) : IsBlended(d)
  /\ Increasing(blend)
  /\ Distinct(Batch)
  /\ BatchOrdered

ListsInv ==
  /\ ~Drawing => recorded = <<>>
  /\ Busy => /\ Parted /\ Sorted
             /\ pc # "graph" => pushed = Len(scene)
             /\ ~Drawing => drawn = <<>>
             /\ pc = "blend" => opaque = <<>>

(* A list that grows does so without its first, which is the least.        *)
LEMMA IncreasingTail ==
  ASSUME NEW s \in Seq(Nat), s # <<>>, Increasing(s)
  PROVE  /\ Increasing(Tail(s))
         /\ \A e \in Ids(Tail(s)) : Head(s) < e
<1>1. /\ Tail(s) \in Seq(Nat)
      /\ Len(Tail(s)) = Len(s) - 1
      /\ \A i \in 1..Len(Tail(s)) : Tail(s)[i] = s[i + 1]
      /\ Len(s) \in Nat \ {0}
  BY HeadTailProperties, EmptySeq
<1>2. PICK t \in Seq(Nat) : t = Tail(s)
  BY <1>1
<1>3. PICK n \in Nat \ {0} : n = Len(s)
  BY <1>1
<1>4. Len(t) = n - 1 /\ Ids(t) = {t[j] : j \in 1..(n - 1)}
  <2>1. Len(t) = n - 1
    BY <1>1, <1>2, <1>3
  <2> QED BY <2>1, ListIds
<1>5. \A i \in 1..(n - 1) : i + 1 \in 1..n /\ t[i] = s[i + 1]
  BY <1>1, <1>2, <1>3
<1>6. \A i, j \in 1..n : i < j => s[i] < s[j]
  BY <1>3 DEF Increasing
<1>7. Head(s) = s[1] /\ 1 \in 1..n
  BY <1>3
<1>8. \A i, j \in 1..(n - 1) : i < j => t[i] < t[j]
  BY <1>5, <1>6
<1>9. \A i \in 1..(n - 1) : s[1] < t[i]
  BY <1>5, <1>6, <1>7
<1> QED BY <1>2, <1>4, <1>7, <1>8, <1>9 DEF Increasing

(* Nor does it stop to grow with a greater number at its end.              *)
LEMMA IncreasingAppend ==
  ASSUME NEW s \in Seq(Nat), NEW d \in Nat, Increasing(s), \A e \in Ids(s) : e < d
  PROVE  Increasing(Append(s, d))
<1>1. /\ Append(s, d) \in Seq(Nat)
      /\ Len(Append(s, d)) = Len(s) + 1
      /\ \A i \in 1..Len(s) : Append(s, d)[i] = s[i]
      /\ Append(s, d)[Len(s) + 1] = d
  BY AppendProperties
<1>2. PICK t : t = Append(s, d)
  OBVIOUS
<1>3. PICK n \in Nat : n = Len(s)
  BY ListIds
<1>4. /\ Len(t) = n + 1 /\ t[n + 1] = d /\ \A i \in 1..n : t[i] = s[i]
  BY <1>1, <1>2, <1>3
<1>5. \A i \in 1..n : s[i] < d
  BY <1>3, ListIds
<1>6. \A i \in 1..(n + 1) : i = n + 1 \/ i \in 1..n
  OBVIOUS
<1>7. ASSUME NEW i \in 1..(n + 1), NEW j \in 1..(n + 1), i < j PROVE t[i] < t[j]
  <2>1. i \in 1..n
    BY <1>7
  <2>2. CASE j = n + 1
    BY <2>1, <2>2, <1>4, <1>5
  <2>3. CASE j \in 1..n
    BY <2>1, <2>3, <1>3, <1>4, <1>7 DEF Increasing
  <2> QED BY <2>2, <2>3, <1>6
<1> QED BY <1>2, <1>4, <1>7 DEF Increasing

(* What is recorded.                                                       *)
LEMMA BatchType ==
  ASSUME recorded \in Seq(Record)
  PROVE  /\ Batch \in Seq(Nat) /\ Len(Batch) = Len(recorded)
         /\ Batch = [i \in DOMAIN recorded |-> recorded[i].drawable]
         /\ recorded = <<>> => Batch = <<>>
         /\ Batch = <<>> => recorded = <<>>
<1>1. PICK n \in Nat : n = Len(recorded)
  BY LenProperties
<1>2. /\ DOMAIN recorded = 1..n
      /\ \A i \in 1..n : recorded[i].drawable \in Nat
  <2>1. DOMAIN recorded = 1..n /\ \A i \in 1..n : recorded[i] \in Record
    BY <1>1, LenProperties, ElementOfSeq
  <2>2. \A r \in Record : r.drawable \in Nat
    BY DEF Record
  <2> QED BY <2>1, <2>2
<1>3. Batch \in [1..n -> Nat]
  BY <1>1, <1>2 DEF Batch
<1>4. PICK b \in [1..n -> Nat] : b = Batch
  BY <1>3
<1>5. b \in Seq(Nat) /\ Len(b) = n
  BY SeqDef
<1>6. n = 0 => b = <<>>
  BY <1>5, EmptySeq
<1>7. n = 0 => recorded = <<>>
  BY <1>1, EmptySeq
<1>8. recorded = <<>> => n = 0
  BY <1>1, EmptySeq
<1>9. b = <<>> => n = 0
  BY <1>5, EmptySeq
<1>10. Batch = [i \in DOMAIN recorded |-> recorded[i].drawable]
  BY <1>1, <1>2 DEF Batch
<1> QED BY <1>1, <1>4, <1>5, <1>6, <1>7, <1>8, <1>9, <1>10

(* One more is recorded.                                                   *)
LEMMA BatchMore ==
  ASSUME recorded \in Seq(Record), NEW d \in Nat, NEW a \in Nat,
         recorded' = Append(recorded, [drawable |-> d, allocation |-> a])
  PROVE  Batch' = Append(Batch, d)
<1>1. PICK r \in Record : r = [drawable |-> d, allocation |-> a]
  BY DEF Record
<1>2. r.drawable = d /\ recorded' = Append(recorded, r)
  BY <1>1
<1>3. PICK n \in Nat : n = Len(recorded)
  BY LenProperties
<1>4. /\ recorded' \in Seq(Record) /\ Len(recorded') = n + 1
      /\ \A i \in 1..n : recorded'[i] = recorded[i]
      /\ recorded'[n + 1] = r
  BY <1>2, <1>3, AppendProperties
<1>5. PICK b \in Seq(Nat) : b = Batch
  BY BatchType
<1>6. Len(b) = n /\ \A i \in 1..n : b[i] = recorded[i].drawable
  BY <1>3, <1>5, BatchType DEF Batch
<1>7. PICK c \in Seq(Nat) : c = Append(b, d)
  BY AppendProperties
<1>8. Len(c) = n + 1 /\ c[n + 1] = d /\ \A i \in 1..n : c[i] = b[i]
  BY <1>6, <1>7, AppendProperties
<1>9. Batch' = [i \in 1..(n + 1) |-> recorded'[i].drawable]
  BY <1>4 DEF Batch
<1>10. c = [i \in 1..(n + 1) |-> c[i]]
  BY <1>8, LenProperties
<1>11. \A i \in 1..(n + 1) : i = n + 1 \/ i \in 1..n
  OBVIOUS
<1>12. \A i \in 1..(n + 1) : c[i] = recorded'[i].drawable
  BY <1>2, <1>4, <1>6, <1>8, <1>11
<1> QED BY <1>5, <1>7, <1>9, <1>10, <1>12

(* Nothing of a scene is in two places, nor blended before it is opaque,   *)
(* while nothing is done to the lists.                                     *)
LEMMA ListsSteady ==
  ASSUME UNCHANGED <<scene, pushed, opaque, blend, drawn, recorded>>, Parted, Sorted
  PROVE  Parted' /\ Sorted'
<1>1. Batch' = Batch /\ Waiting' = Waiting
  BY DEF Batch, Waiting
<1>2. \A d : IsBlended(d)' = IsBlended(d)
  BY DEF IsBlended, MaskOf
<1> QED BY <1>1, <1>2 DEF Parted, Sorted, BatchOrdered

(* A drawable moves from the head of a list to what is recorded.           *)
LEMMA DrawLists ==
  ASSUME TypeOK, QueuesInv, Parted, Sorted, NEW d \in Nat, NEW a \in Nat,
         recorded' = Append(recorded, [drawable |-> d, allocation |-> a]),
         UNCHANGED <<scene, pushed, drawn>>,
         \/ /\ opaque # <<>> /\ d = Head(opaque)
            /\ opaque' = Tail(opaque) /\ blend' = blend
         \/ /\ blend # <<>> /\ d = Head(blend) /\ opaque = <<>>
            /\ blend' = Tail(blend) /\ opaque' = opaque
  PROVE  Parted' /\ Sorted'
<1>1. /\ recorded \in Seq(Record) /\ opaque \in Seq(Nat) /\ blend \in Seq(Nat)
  BY DEF TypeOK, Record
<1>2. PICK b \in Seq(Nat) : b = Batch
  BY <1>1, BatchType
<1>3. Batch' = Append(b, d)
  BY <1>1, <1>2, BatchMore
<1>4. /\ Ids(opaque) \cap Ids(blend) = {}
      /\ d \in Waiting /\ Waiting' = Waiting \ {d}
      /\ Ids(opaque') \subseteq Ids(opaque) /\ Ids(blend') \subseteq Ids(blend)
  <2>1. CASE /\ opaque # <<>> /\ d = Head(opaque)
             /\ opaque' = Tail(opaque) /\ blend' = blend
    <3>1. /\ d \in Ids(opaque) /\ Ids(opaque) = Ids(opaque') \cup {d}
          /\ d \notin Ids(opaque')
      BY <1>1, <2>1, Removed DEF QueuesInv
    <3> QED BY <2>1, <3>1 DEF Waiting, QueuesInv
  <2>2. CASE /\ blend # <<>> /\ d = Head(blend) /\ opaque = <<>>
             /\ blend' = Tail(blend) /\ opaque' = opaque
    <3>1. /\ d \in Ids(blend) /\ Ids(blend) = Ids(blend') \cup {d}
          /\ d \notin Ids(blend')
      BY <1>1, <2>2, Removed DEF QueuesInv
    <3> QED BY <2>2, <3>1 DEF Waiting, QueuesInv
  <2> QED BY <2>1, <2>2
<1>5. d \notin Ids(b) /\ d \notin Ids(drawn)
  BY <1>2, <1>4 DEF Parted
<1>6. PICK c \in Seq(Nat) : c = Append(b, d)
  BY <1>2, Appended
<1>7. /\ Ids(c) = Ids(b) \cup {d} /\ Distinct(c) /\ Len(c) = Len(b) + 1
      /\ c[Len(b) + 1] = d /\ \A i \in 1..Len(b) : c[i] = b[i]
  <2>1. Distinct(b)
    BY <1>2 DEF Sorted
  <2> QED BY <2>1, <1>5, <1>6, Appended, AppendProperties
<1>8. Parted'
  BY <1>2, <1>3, <1>4, <1>5, <1>6, <1>7 DEF Parted
<1>9. \A e : IsBlended(e)' = IsBlended(e)
  BY DEF IsBlended, MaskOf
<1>10. Increasing(blend')
  BY <1>1, IncreasingTail DEF Sorted
<1>11. PICK n \in Nat : n = Len(b)
  BY ListIds
<1>12. \A i \in 1..(n + 1) : i = n + 1 \/ i \in 1..n
  OBVIOUS
<1>13. BatchOrdered'
  <2>1. CASE opaque # <<>> /\ d = Head(opaque)
    <3>1. d \in Ids(opaque) /\ ~IsBlended(d)
      BY <1>1, <2>1, Removed DEF Sorted
    <3>2. \A i \in 1..n : ~IsBlended(b[i])
      BY <1>2, <1>11, <2>1 DEF Sorted, BatchOrdered
    <3>3. \A i \in 1..(n + 1) : ~IsBlended(c[i])
      BY <3>1, <3>2, <1>7, <1>11, <1>12
    <3> QED BY <3>3, <1>3, <1>6, <1>7, <1>9, <1>11 DEF BatchOrdered
  <2>2. CASE /\ blend # <<>> /\ d = Head(blend) /\ opaque = <<>>
             /\ blend' = Tail(blend) /\ opaque' = opaque
    <3>1. /\ d \in Ids(blend) /\ IsBlended(d)
          /\ \A e \in Ids(blend') : d < e
      BY <1>1, <2>2, Removed, IncreasingTail DEF Sorted
    <3>2. \A i \in 1..n : IsBlended(b[i]) =>
            /\ \A j \in 1..n : i < j => IsBlended(b[j]) /\ b[i] < b[j]
            /\ \A e \in Ids(blend) : b[i] < e
      BY <1>2, <1>11 DEF Sorted, BatchOrdered
    <3>3. ASSUME NEW i \in 1..(n + 1), IsBlended(c[i]), NEW j \in 1..(n + 1), i < j
          PROVE  IsBlended(c[j]) /\ c[i] < c[j]
      <4>1. i \in 1..n /\ c[i] = b[i]
        BY <3>3, <1>7, <1>11
      <4>2. CASE j \in 1..n
        BY <4>1, <4>2, <3>2, <3>3, <1>7, <1>11
      <4>3. CASE j = n + 1
        BY <4>1, <4>3, <3>1, <3>2, <3>3, <1>7, <1>11
      <4> QED BY <4>2, <4>3, <1>12
    <3>4. ASSUME NEW i \in 1..(n + 1), IsBlended(c[i]), NEW e \in Ids(blend')
          PROVE  c[i] < e
      <4>1. CASE i \in 1..n
        BY <4>1, <3>2, <3>4, <1>4, <1>7, <1>11
      <4>2. CASE i = n + 1
        BY <4>2, <3>1, <1>7, <1>11
      <4> QED BY <4>1, <4>2, <1>12
    <3>5. Batch' = c /\ Len(c) = n + 1 /\ opaque' = <<>>
      BY <2>2, <1>3, <1>6, <1>7, <1>11
    <3> QED BY <3>3, <3>4, <3>5, <1>9 DEF BatchOrdered
  <2> QED BY <2>1, <2>2
<1>14. Sorted'
  BY <1>3, <1>4, <1>6, <1>7, <1>9, <1>10, <1>13 DEF Sorted
<1> QED BY <1>8, <1>14

(* An opaque drawable goes to the end of its list.                         *)
LEMMA SkipLists ==
  ASSUME TypeOK, Parted, Sorted, opaque # <<>>, PutBack(Head(opaque)),
         UNCHANGED <<scene, pushed, drawn, blend, recorded>>
  PROVE  Parted' /\ Sorted'
<1>1. opaque \in Seq(Nat)
  BY DEF TypeOK
<1>2. /\ Head(opaque) \in Nat /\ Tail(opaque) \in Seq(Nat)
      /\ Ids(opaque) = Ids(Tail(opaque)) \cup {Head(opaque)}
  BY <1>1, Removed
<1>3. Ids(opaque') = Ids(opaque)
  BY <1>2, Appended DEF PutBack
<1>4. Batch' = Batch /\ Waiting' = Waiting
  BY <1>3 DEF Batch, Waiting
<1>5. \A e : IsBlended(e)' = IsBlended(e)
  BY DEF IsBlended, MaskOf
<1>6. BatchOrdered'
  <2>1. \A i \in 1..Len(Batch) : ~IsBlended(Batch[i])
    BY DEF Sorted, BatchOrdered
  <2> QED BY <2>1, <1>4, <1>5 DEF BatchOrdered
<1> QED BY <1>3, <1>4, <1>5, <1>6 DEF Parted, Sorted

(* A drawable of the scene enters a list.                                  *)
LEMMA PushLists ==
  ASSUME TypeOK, Parted, Sorted, Enlist(pushed + 1), recorded = <<>>, drawn = <<>>,
         UNCHANGED <<scene, drawn, recorded>>
  PROVE  Parted' /\ Sorted'
<1>1. PICK d \in Nat : d = pushed + 1 /\ pushed \in Nat
  BY LenProperties DEF TypeOK
<1>2. opaque \in Seq(Nat) /\ blend \in Seq(Nat)
  BY DEF TypeOK
<1>3. Batch = <<>> /\ Batch' = <<>>
  <2>1. recorded \in Seq(Record) /\ recorded' = recorded
    BY DEF TypeOK, Record
  <2> QED BY <2>1, BatchType DEF Batch
<1>4. Ids(drawn) = {} /\ Ids(Batch) = {}
  BY <1>3, EmptyList
<1>5. Waiting = 1..pushed /\ \A e \in Waiting : e < d
  <2>1. Waiting = 1..pushed
    BY <1>4 DEF Parted
  <2> QED BY <2>1, <1>1
<1>6. \A e : IsBlended(e)' = IsBlended(e)
  BY DEF IsBlended, MaskOf
<1>7. pushed' = d
  BY <1>1 DEF Enlist
<1>8. Waiting' = Waiting \cup {d}
  <2>1. /\ Ids(Append(opaque, d)) = Ids(opaque) \cup {d}
        /\ Ids(Append(blend, d)) = Ids(blend) \cup {d}
    BY <1>2, Appended
  <2>2. \/ opaque' = Append(opaque, d) /\ blend' = blend
        \/ opaque' = opaque /\ blend' = Append(blend, d)
    BY <1>1 DEF Enlist
  <2> QED BY <2>1, <2>2 DEF Waiting
<1>9. 1..d = 1..pushed \cup {d}
  BY <1>1
<1>10. Parted'
  BY <1>3, <1>4, <1>5, <1>7, <1>8, <1>9 DEF Parted
<1>11. BatchOrdered' /\ Distinct(Batch')
  <2>1. 1..Len(Batch') = {}
    BY <1>3
  <2> QED BY <2>1 DEF BatchOrdered, Distinct
<1>12. CASE IsBlended(d)
  <2>1. blend' = Append(blend, d) /\ opaque' = opaque
    BY <1>1, <1>12 DEF Enlist
  <2>2. Increasing(blend') /\ Ids(blend') = Ids(blend) \cup {d}
    BY <1>2, <1>5, <2>1, IncreasingAppend, Appended DEF Sorted, Waiting
  <2> QED BY <1>6, <1>10, <1>11, <1>12, <2>1, <2>2 DEF Sorted
<1>13. CASE ~IsBlended(d)
  <2>1. opaque' = Append(opaque, d) /\ blend' = blend
    BY <1>1, <1>13 DEF Enlist
  <2>2. Ids(opaque') = Ids(opaque) \cup {d}
    BY <1>2, <2>1, Appended
  <2> QED BY <1>6, <1>10, <1>11, <1>13, <2>1, <2>2 DEF Sorted
<1> QED BY <1>12, <1>13

(* What the two parts of a list are.                                       *)
LEMMA ConcatParts ==
  ASSUME NEW s \in Seq(Nat), NEW t \in Seq(Nat)
  PROVE  /\ s \o t \in Seq(Nat) /\ Len(s \o t) = Len(s) + Len(t)
         /\ Ids(s \o t) = Ids(s) \cup Ids(t)
         /\ SubSeq(s \o t, 1, Len(s)) = s
         /\ SubSeq(s \o t, Len(s) + 1, Len(s \o t)) = t
<1>1. PICK m \in Nat : m = Len(s)
  BY ListIds
<1>2. PICK n \in Nat : n = Len(t)
  BY ListIds
<1>3. PICK u \in Seq(Nat) : u = s \o t
  BY ConcatProperties
<1>4. Len(u) = m + n
  BY <1>1, <1>2, <1>3, ConcatProperties
<1>5. \A i \in 1..(m + n) : u[i] = IF i <= m THEN s[i] ELSE t[i - m]
  BY <1>1, <1>2, <1>3, ConcatProperties
<1>6. \A i \in 1..m : i \in 1..(m + n) /\ u[i] = s[i] /\ s[i] \in Nat
  BY <1>1, <1>5, ListIds
<1>7. \A i \in 1..n : i + m \in 1..(m + n) /\ u[i + m] = t[i] /\ t[i] \in Nat
  <2>1. \A i \in 1..n : i + m \in 1..(m + n) /\ ~(i + m <= m) /\ (i + m) - m = i
    OBVIOUS
  <2> QED BY <2>1, <1>2, <1>5, ListIds
<1>8. \A i \in 1..(m + n) : \/ i \in 1..m /\ u[i] = s[i]
                            \/ i - m \in 1..n /\ u[i] = t[i - m]
  BY <1>5
<1>9. Ids(u) = Ids(s) \cup Ids(t)
  <2>1. /\ Ids(u) = {u[i] : i \in 1..(m + n)}
        /\ Ids(s) = {s[i] : i \in 1..m}
        /\ Ids(t) = {t[i] : i \in 1..n}
    BY <1>1, <1>2, <1>4, ListIds
  <2> QED BY <2>1, <1>6, <1>7, <1>8
<1>10. SubSeq(u, 1, m) = s
  <2>1. /\ SubSeq(u, 1, m) \in Seq(Nat)
        /\ Len(SubSeq(u, 1, m)) = IF 1 <= m THEN m - 1 + 1 ELSE 0
        /\ \A i \in 1..(m - 1 + 1) : SubSeq(u, 1, m)[i] = u[1 + i - 1]
    <3>1. PICK a \in Int : a = 1
      OBVIOUS
    <3>2. \A i \in a..m : u[i] \in Nat
      BY <1>6, <3>1
    <3>3. /\ SubSeq(u, a, m) \in Seq(Nat)
          /\ Len(SubSeq(u, a, m)) = IF a <= m THEN m - a + 1 ELSE 0
          /\ \A i \in 1..(m - a + 1) : SubSeq(u, a, m)[i] = u[a + i - 1]
      BY <3>2, SubSeqProperties
    <3> QED BY <3>1, <3>3
  <2>2. PICK v \in Seq(Nat) : v = SubSeq(u, 1, m)
    BY <2>1
  <2>3. Len(v) = m /\ \A i \in 1..m : v[i] = s[i]
    BY <1>6, <2>1, <2>2
  <2> QED BY <1>1, <2>2, <2>3, SeqEqual
<1>11. SubSeq(u, m + 1, m + n) = t
  <2>1. /\ SubSeq(u, m + 1, m + n) \in Seq(Nat)
        /\ Len(SubSeq(u, m + 1, m + n)) = IF m + 1 <= m + n
                                            THEN m + n - (m + 1) + 1 ELSE 0
        /\ \A i \in 1..(m + n - (m + 1) + 1) :
             SubSeq(u, m + 1, m + n)[i] = u[m + 1 + i - 1]
    <3>1. \A i \in (m + 1)..(m + n) : u[i] \in Nat
      <4>1. \A i \in (m + 1)..(m + n) : i - m \in 1..n /\ (i - m) + m = i
        OBVIOUS
      <4> QED BY <4>1, <1>7
    <3> QED BY <3>1, SubSeqProperties
  <2>2. PICK v \in Seq(Nat) : v = SubSeq(u, m + 1, m + n)
    BY <2>1
  <2>3. Len(v) = n /\ \A i \in 1..n : v[i] = u[i + m]
    <3>1. \A i \in 1..n : m + 1 + i - 1 = i + m /\ i \in 1..(m + n - (m + 1) + 1)
      OBVIOUS
    <3>2. \A i \in 1..n : v[i] = u[m + 1 + i - 1]
      BY <2>1, <2>2, <3>1
    <3>3. \A i \in 1..n : v[i] = u[i + m]
      BY <3>1, <3>2
    <3>4. Len(v) = n
      BY <2>1, <2>2
    <3> QED BY <3>3, <3>4
  <2>4. \A i \in 1..n : v[i] = t[i]
    BY <1>7, <2>3
  <2> QED BY <1>2, <2>2, <2>3, <2>4, SeqEqual
<1> QED BY <1>1, <1>2, <1>3, <1>4, <1>9, <1>10, <1>11

(* What was recorded is submitted.                                         *)
LEMMA SubmitLists ==
  ASSUME TypeOK, Parted, Sorted, drawn' = drawn \o Batch, recorded' = <<>>,
         UNCHANGED <<scene, pushed, opaque, blend>>
  PROVE  /\ Parted' /\ Sorted'
         /\ Ids(drawn') = Ids(drawn) \cup Ids(Batch)
<1>1. recorded \in Seq(Record) /\ drawn \in Seq(Nat)
  BY DEF TypeOK, Record
<1>2. PICK b \in Seq(Nat) : b = Batch
  BY <1>1, BatchType
<1>3. Batch' = <<>> /\ Len(Batch') = 0
  <2>1. Len(recorded') = 0
    BY EmptySeq
  <2>2. Batch' = [i \in 1..0 |-> recorded'[i].drawable]
    BY <2>1 DEF Batch
  <2> QED BY <2>2
<1>4. PICK s \in Seq(Nat) : s = drawn \o b
  BY <1>1, <1>2, ConcatProperties
<1>5. Ids(s) = Ids(drawn) \cup Ids(b)
  BY <1>1, <1>2, <1>4, ConcatParts
<1>6. Waiting' = Waiting /\ drawn' = s /\ Ids(Batch') = {}
  BY <1>2, <1>3, <1>4, EmptyList DEF Waiting
<1>7. Parted'
  BY <1>2, <1>5, <1>6 DEF Parted
<1>8. \A e : IsBlended(e)' = IsBlended(e)
  BY DEF IsBlended, MaskOf
<1>9. BatchOrdered' /\ Distinct(Batch')
  <2>1. 1..Len(Batch') = {}
    BY <1>3
  <2> QED BY <2>1 DEF BatchOrdered, Distinct
<1> QED BY <1>2, <1>5, <1>6, <1>7, <1>8, <1>9 DEF Sorted

(* What the steps before the first pass leave as it is.                    *)
LEMMA AllocatingStep ==
  ASSUME GraphDone \/ AllocateTables \/ BeginSubset \/ AllocateFewer
  PROVE  /\ UNCHANGED <<scene, pushed, opaque, blend, drawn>>
         /\ recorded' = recorded \/ recorded' = <<>>
         /\ pc' \in {"allocate", "subset", "fewer", "opaque", "undefined", "idle"}
         /\ Busy /\ ~Drawing
         /\ pc = "graph" => pushed = Len(scene)
<1>1. CASE GraphDone
  BY <1>1 DEF GraphDone, graphVars, passVars, historyVars, Busy, Drawing
<1>2. CASE AllocateTables
  BY <1>2 DEF AllocateTables, NullBuffer, StartDrawing, graphVars, passVars,
              historyVars, Busy, Drawing
<1>3. CASE BeginSubset
  BY <1>3 DEF BeginSubset, graphVars, passVars, historyVars, Busy, Drawing
<1>4. CASE AllocateFewer
  <2>1. /\ pc = "fewer" /\ UNCHANGED <<scene, pushed, opaque, blend>>
    BY <1>4 DEF AllocateFewer, graphVars
  <2>2. \/ \E after : TryFewer(after) /\ UNCHANGED passVars
        \/ StartDrawing /\ UNCHANGED historyVars
        \/ NullBuffer /\ UNCHANGED historyVars
    BY <1>4 DEF AllocateFewer
  <2>3. \A after : TryFewer(after) => drawn' = drawn /\ pc' \in {"idle", pc}
    BY DEF TryFewer, Throw, historyVars
  <2>4. CASE \E after : TryFewer(after) /\ UNCHANGED passVars
    BY <2>1, <2>3, <2>4 DEF passVars, Busy, Drawing
  <2>5. CASE StartDrawing /\ UNCHANGED historyVars
    BY <2>1, <2>5 DEF StartDrawing, historyVars, Busy, Drawing
  <2>6. CASE NullBuffer /\ UNCHANGED historyVars
    BY <2>1, <2>6 DEF NullBuffer, historyVars, passVars, Busy, Drawing
  <2> QED BY <2>2, <2>4, <2>5, <2>6
<1> QED BY <1>1, <1>2, <1>3, <1>4

(* What a look at the first opaque drawable does.                          *)
LEMMA OpaqueStep ==
  ASSUME CachesInv, RenderOpaque
  PROVE  /\ pc = "opaque" /\ turns > 0 /\ opaque # <<>>
         /\ Head(opaque) \in Nat /\ Head(opaque) \in Waiting
         /\ UNCHANGED <<scene, pushed, blend>>
         /\ \/ /\ OutOfResources(Head(opaque)) /\ PutBack(Head(opaque))
               /\ turns' = turns - 1
               /\ UNCHANGED <<pc, recorded, tables, drawn>>
            \/ /\ ~OutOfResources(Head(opaque)) /\ Draw(Head(opaque))
               /\ opaque' = Tail(opaque)
               /\ UNCHANGED <<pc, drawn, intact>>
            \/ Throw /\ LeaveDrawing
<1>1. /\ TypeOK /\ opaque \in Seq(Nat) /\ pc = "opaque" /\ turns > 0
      /\ UNCHANGED <<scene, pushed, blend>>
  BY DEF CachesInv, RenderOpaque, TypeOK, graphVars
<1>2. opaque # <<>>
  <2>1. turns <= Len(opaque) /\ turns \in Nat
    BY <1>1 DEF CachesInv, TypeOK
  <2> QED BY <1>1, <2>1, EmptySeq
<1>3. Head(opaque) \in Nat /\ Head(opaque) \in Waiting
  BY <1>1, <1>2, Removed DEF Waiting
<1> QED BY <1>1, <1>2, <1>3 DEF RenderOpaque, DrawThrows, historyVars

(* What a look at the first blended drawable does.                         *)
LEMMA BlendStep ==
  ASSUME CachesInv, RenderBlend
  PROVE  /\ pc = "blend" /\ blend # <<>>
         /\ Head(blend) \in Nat /\ Head(blend) \in Waiting
         /\ UNCHANGED <<scene, pushed, opaque>>
         /\ \/ /\ ~OutOfResources(Head(blend)) /\ Draw(Head(blend))
               /\ blend' = Tail(blend)
               /\ UNCHANGED <<pc, drawn, intact>>
            \/ Throw /\ LeaveDrawing
<1>1. /\ TypeOK /\ blend \in Seq(Nat) /\ pc = "blend" /\ blend # <<>>
      /\ UNCHANGED <<scene, pushed, opaque>>
  BY DEF CachesInv, RenderBlend, TypeOK, graphVars
<1>2. Head(blend) \in Nat /\ Head(blend) \in Waiting
  BY <1>1, Removed DEF Waiting
<1> QED BY <1>1, <1>2 DEF RenderBlend, DrawThrows, historyVars

(* The allocation that a drawable takes is a number.                       *)
LEMMA DrawRecords ==
  ASSUME CachesInv, Busy, NEW d \in Waiting, ~OutOfResources(d), Draw(d)
  PROVE  /\ AllocationFor(d) \in Nat
         /\ recorded' = Append(recorded, [drawable |-> d,
                                          allocation |-> AllocationFor(d)])
<1>1. tables[TableFor(d)] \in Table
  BY WaitingInScene
<1>2. AllocationFor(d) \in Nat
  BY <1>1 DEF AllocationFor, OutOfResources, Table
<1> QED BY <1>2 DEF Draw

(* Every step keeps the drawables of the scene in one place each, and what *)
(* is recorded in the order that the scene asks for.                       *)
LEMMA NextLists == CachesInv /\ ListsInv /\ [Next]_vars => ListsInv'
<1> SUFFICES ASSUME CachesInv, ListsInv, [Next]_vars PROVE ListsInv'
  OBVIOUS
<1>1. TypeOK /\ opaque \in Seq(Nat) /\ blend \in Seq(Nat) /\ recorded \in Seq(Record)
  BY DEF CachesInv, TypeOK, Record
<1>2. Busy => Parted /\ Sorted /\ QueuesInv
  BY DEF ListsInv, CachesInv, Live
<1>3. ASSUME Throw, (recorded' = recorded /\ ~Drawing) \/ recorded' = <<>>
      PROVE  ListsInv'
  <2>1. ~Busy' /\ recorded' = <<>>
    BY <1>3 DEF Throw, Busy, ListsInv
  <2> QED BY <2>1 DEF ListsInv
<1>4. ASSUME NEW s \in Scenes, NEW p \in Passes, Render(s, p) PROVE ListsInv'
  <2>1. /\ pc' = "graph" /\ scene' = s /\ pushed' = 0 /\ opaque' = <<>>
        /\ blend' = <<>> /\ drawn' = <<>> /\ recorded' = <<>>
    BY <1>4 DEF Render, passVars, ListsInv, Drawing
  <2>2. /\ Ids(opaque') = {} /\ Ids(blend') = {} /\ Ids(drawn') = {}
        /\ 1..Len(blend') = {}
    BY <2>1, EmptyList
  <2>3. Batch' = <<>>
    <3>1. Len(recorded') = 0
      BY <2>1, EmptySeq
    <3>2. Batch' = [i \in 1..0 |-> recorded'[i].drawable]
      BY <3>1 DEF Batch
    <3> QED BY <3>2
  <2>4. Ids(Batch') = {} /\ 1..Len(Batch') = {} /\ 1..pushed' = {}
    BY <2>1, <2>3, EmptyList
  <2>5. Parted'
    BY <2>2, <2>4 DEF Parted, Waiting
  <2>6. Sorted'
    BY <2>2, <2>4 DEF Sorted, BatchOrdered, Increasing, Distinct
  <2>7. ~Drawing' /\ pc' # "blend"
    BY <2>1 DEF Drawing
  <2> QED BY <2>1, <2>5, <2>6, <2>7 DEF ListsInv
<1>5. CASE RejectPrimitive
  <2>1. Throw /\ recorded' = recorded /\ ~Drawing
    BY <1>5 DEF RejectPrimitive, passVars, Drawing
  <2> QED BY <1>3, <2>1
<1>6. CASE PushDrawable
  <2>1. /\ pc = "graph" /\ Busy /\ ~Drawing /\ Enlist(pushed + 1)
        /\ scene' = scene /\ recorded' = recorded
        /\ UNCHANGED <<pc, drawn>> \/ Throw
    BY <1>6 DEF PushDrawable, passVars, historyVars, Busy, Drawing
  <2>2. recorded = <<>> /\ drawn = <<>>
    BY <2>1 DEF ListsInv
  <2>3. CASE UNCHANGED <<pc, drawn>>
    <3>1. Parted' /\ Sorted'
      BY <1>1, <1>2, <2>1, <2>2, <2>3, PushLists
    <3> QED BY <2>1, <2>2, <2>3, <3>1 DEF ListsInv, Drawing
  <2> QED BY <1>3, <2>1, <2>3
<1>7. CASE GraphDone \/ AllocateTables \/ BeginSubset \/ AllocateFewer
  <2>1. /\ UNCHANGED <<scene, pushed, opaque, blend, drawn>>
        /\ recorded' = recorded \/ recorded' = <<>>
        /\ pc' \in {"allocate", "subset", "fewer", "opaque", "undefined", "idle"}
        /\ Busy /\ ~Drawing
        /\ pc = "graph" => pushed = Len(scene)
    BY <1>7, AllocatingStep
  <2>2. recorded = <<>> /\ recorded' = recorded /\ drawn = <<>>
    BY <2>1 DEF ListsInv
  <2>3. Parted' /\ Sorted'
    BY <1>2, <2>1, <2>2, ListsSteady
  <2> QED BY <2>1, <2>2, <2>3 DEF ListsInv
<1>8. CASE RenderOpaque
  <2> DEFINE d == Head(opaque)
  <2>1. /\ pc = "opaque" /\ opaque # <<>> /\ d \in Nat /\ d \in Waiting /\ Busy
        /\ Drawing /\ UNCHANGED <<scene, pushed, blend>>
    BY <1>8, OpaqueStep DEF Busy, Drawing
  <2>2. CASE OutOfResources(d) /\ PutBack(d) /\ UNCHANGED <<pc, recorded, drawn>>
    <3>1. Parted' /\ Sorted'
      BY <1>1, <1>2, <2>1, <2>2, SkipLists
    <3> QED BY <2>1, <2>2, <3>1 DEF ListsInv, Drawing
  <2>3. CASE /\ ~OutOfResources(d) /\ Draw(d) /\ opaque' = Tail(opaque)
             /\ UNCHANGED <<pc, drawn>>
    <3>1. /\ AllocationFor(d) \in Nat
          /\ recorded' = Append(recorded, [drawable |-> d,
                                           allocation |-> AllocationFor(d)])
      BY <2>1, <2>3, DrawRecords
    <3>2. Parted' /\ Sorted'
      BY <1>1, <1>2, <2>1, <2>3, <3>1, DrawLists
    <3> QED BY <2>1, <2>3, <3>2 DEF ListsInv, Drawing
  <2>4. CASE Throw /\ LeaveDrawing
    BY <1>3, <2>4 DEF LeaveDrawing
  <2> QED BY <1>8, <2>2, <2>3, <2>4, OpaqueStep
<1>9. CASE OpaqueDone \/ BlendDone
  <2>1. /\ UNCHANGED <<scene, pushed, opaque, blend, drawn, recorded>>
        /\ pc \in {"opaque", "blend"} /\ pc' \in {"blend", "submit"}
        /\ pc' = "blend" => opaque = <<>>
    BY <1>9 DEF OpaqueDone, BlendDone, graphVars, passVars, historyVars
  <2>2. Busy /\ Drawing /\ Drawing'
    BY <2>1 DEF Busy, Drawing
  <2>3. Parted' /\ Sorted'
    BY <1>2, <2>1, <2>2, ListsSteady
  <2> QED BY <2>1, <2>2, <2>3 DEF ListsInv
<1>10. CASE RenderBlend
  <2> DEFINE d == Head(blend)
  <2>1. /\ pc = "blend" /\ blend # <<>> /\ d \in Nat /\ d \in Waiting /\ Busy
        /\ Drawing /\ UNCHANGED <<scene, pushed, opaque>> /\ opaque = <<>>
    BY <1>10, BlendStep DEF Busy, Drawing, ListsInv
  <2>2. CASE /\ ~OutOfResources(d) /\ Draw(d) /\ blend' = Tail(blend)
             /\ UNCHANGED <<pc, drawn>>
    <3>1. /\ AllocationFor(d) \in Nat
          /\ recorded' = Append(recorded, [drawable |-> d,
                                           allocation |-> AllocationFor(d)])
      BY <2>1, <2>2, DrawRecords
    <3>2. Parted' /\ Sorted'
      BY <1>1, <1>2, <2>1, <2>2, <3>1, DrawLists
    <3> QED BY <2>1, <2>2, <3>2 DEF ListsInv, Drawing
  <2>3. CASE Throw /\ LeaveDrawing
    BY <1>3, <2>3 DEF LeaveDrawing
  <2> QED BY <1>10, <2>2, <2>3, BlendStep
<1>11. CASE Submit
  <2>1. /\ pc = "submit" /\ Busy /\ Drawing
        /\ UNCHANGED <<scene, pushed, opaque, blend>>
        /\ \/ /\ drawn' = drawn \o Batch /\ recorded' = <<>>
              /\ pc' = "idle" \/ pc' = "opaque"
           \/ Throw /\ recorded' = <<>>
    BY <1>1, <1>11, BatchType
       DEF Submit, StartDrawing, LeaveDrawing, graphVars, Busy, Drawing
  <2>2. CASE Throw /\ recorded' = <<>>
    BY <1>3, <2>2
  <2>3. CASE /\ drawn' = drawn \o Batch /\ recorded' = <<>>
             /\ pc' = "idle" \/ pc' = "opaque"
    <3>1. Parted' /\ Sorted'
      BY <1>1, <1>2, <2>1, <2>3, SubmitLists
    <3> QED BY <2>1, <2>3, <3>1 DEF ListsInv, Drawing, Busy
  <2> QED BY <2>1, <2>2, <2>3
<1>12. CASE UNCHANGED vars
  <2>1. UNCHANGED <<pc, scene, pushed, opaque, blend, drawn, recorded>>
    BY <1>12 DEF vars, graphVars, passVars, historyVars
  <2>2. Busy => Parted' /\ Sorted'
    BY <1>2, <2>1, ListsSteady
  <2> QED BY <2>1, <2>2 DEF ListsInv, Busy, Drawing
<1> QED BY <1>4, <1>5, <1>6, <1>7, <1>8, <1>9, <1>10, <1>11, <1>12
        DEF Next, Step, Rest

(* Every table that a drawable needs has an entry to give.                 *)
Given(T) == \A k \in TableKeys : T[k].count > 0 => T[k].remaining > 0

(* A pass draws something, if there is anything left.                      *)
ProgressInv ==
  /\ pc = "fewer" => Given(tables)
  /\ Drawing => \A k \in TableKeys : tables[k].count > 0 =>
                                       tables[k].allocations > 0
  /\ pc \in {"opaque", "blend"} /\ recorded = <<>> => Given(tables)
  /\ pc = "opaque" /\ recorded = <<>> => turns = Len(opaque)
  /\ pc = "submit" /\ recorded = <<>> => opaque = <<>> /\ blend = <<>>

(* Each table that a drawable waits for is counted, so it can be drawn.    *)
LEMMA WaitingGiven ==
  ASSUME CachesInv, Busy, Given(tables), NEW d \in Waiting
  PROVE  ~OutOfResources(d)
<1>1. TypeOK /\ QueuesInv /\ CountsInv
  BY DEF CachesInv, Live
<1>2. PICK t \in TableKeys : t = TableFor(d) /\ TableUse[d] = t
  BY <1>1, WaitingRight
<1>3. IsFiniteSet(Waiting) /\ tables[t] \in Table
  BY <1>1, <1>2, WaitingRight, WaitingInScene
<1>4. PICK c \in Nat : c = tables[t].count
  BY <1>3 DEF Table
<1>5. Cover(intact, c, Users(TableUse, Waiting, t))
  BY <1>1, <1>4 DEF CountsInv
<1>6. c > 0
  BY <1>2, <1>3, <1>4, <1>5, CoverLess
<1>7. tables[t].remaining > 0
  BY <1>4, <1>6 DEF Given
<1> QED BY <1>2, <1>7 DEF OutOfResources

(* What an attempt and the halving after it leave to ask for.              *)
LEMMA FewerGiven ==
  ASSUME tables \in [TableKeys -> Table], Given(tables), NEW F
  PROVE  Given(Attempted(F)) /\ Given(Halved(Attempted(F)))
<1>1. PICK A : A = Attempted(F)
  OBVIOUS
<1>2. \A k \in TableKeys : /\ A[k] \in Table
                           /\ A[k].count = tables[k].count
                           /\ A[k].remaining = tables[k].remaining
  BY <1>1, AttemptedRight DEF Retried
<1>3. \A k \in TableKeys : Halved(A)[k].count = tables[k].count
  BY <1>1, AttemptedRight DEF Retried
<1>4. ASSUME NEW k \in TableKeys, A[k].remaining > 0
      PROVE  Halved(A)[k].remaining > 0
  <2>1. PICK r \in Table : r = A[k]
    BY <1>2
  <2>2. Halved(A)[k] = IF r.remaining > 1
                         THEN [r EXCEPT !.remaining = @ \div 2] ELSE r
    BY <2>1 DEF Halved
  <2>3. r.remaining \in Nat /\ r.remaining > 0
    BY <1>4, <2>1 DEF Table
  <2>4. CASE r.remaining > 1
    <3>1. Halved(A)[k].remaining = r.remaining \div 2
      BY <2>2, <2>4 DEF Table
    <3> QED BY <2>3, <2>4, <3>1
  <2>5. CASE ~(r.remaining > 1)
    BY <2>2, <2>3, <2>5
  <2> QED BY <2>4, <2>5
<1>5. Given(A)
  BY <1>2 DEF Given
<1>6. Given(Halved(A))
  BY <1>2, <1>3, <1>4 DEF Given
<1> QED BY <1>1, <1>5, <1>6

(* The tables when drawing begins, or when fewer allocations are tried.    *)
LEMMA StartGiven ==
  ASSUME CachesInv, ProgressInv, AllocateTables \/ BeginSubset \/ AllocateFewer,
         pc' \in {"opaque", "fewer"}
  PROVE  Given(tables')
<1>1. /\ TypeOK /\ TablesInv /\ tables \in [TableKeys -> Table]
  BY DEF CachesInv, TypeOK, Table
<1>2. CASE AllocateTables
  <2>1. tables' = [k \in TableKeys |->
                     IF k \in Made
                       THEN [tables[k] EXCEPT !.allocations = tables[k].count,
                                              !.remaining = tables[k].count]
                       ELSE tables[k]]
    BY <1>2 DEF AllocateTables, NullBuffer
  <2>2. ASSUME NEW k \in TableKeys, tables'[k].count > 0
        PROVE  tables'[k].remaining > 0
    <3>1. PICK r \in Table : r = tables[k]
      BY <1>1
    <3>2. CASE k \in Made
      <4>1. tables'[k] = [made |-> r.made, count |-> r.count,
                          allocations |-> r.count, remaining |-> r.count]
        BY <2>1, <3>1, <3>2 DEF Table
      <4> QED BY <2>2, <4>1
    <3>3. CASE k \notin Made
      <4>1. tables'[k] = r /\ r.count = 0
        BY <1>1, <2>1, <3>1, <3>3 DEF Made, TablesInv
      <4> QED BY <2>2, <4>1
    <3> QED BY <3>2, <3>3
  <2> QED BY <2>2 DEF Given
<1>3. CASE BeginSubset
  <2>1. tables' = [k \in TableKeys |->
                    [tables[k] EXCEPT
                       !.remaining = tables[k].count,
                       !.allocations = IF tables[k].count = 0 THEN 0 ELSE @]]
    BY <1>3 DEF BeginSubset
  <2>2. ASSUME NEW k \in TableKeys PROVE tables'[k].count = tables'[k].remaining
    <3>1. PICK r \in Table : r = tables[k]
      BY <1>1
    <3>2. tables'[k] = [made |-> r.made, count |-> r.count,
                        allocations |-> IF r.count = 0 THEN 0 ELSE r.allocations,
                        remaining |-> r.count]
      BY <2>1, <3>1 DEF Table
    <3> QED BY <3>2
  <2> QED BY <2>2 DEF Given
<1>4. CASE AllocateFewer
  <2>1. pc = "fewer" /\ Given(tables)
    BY <1>4 DEF AllocateFewer, ProgressInv
  <2>2. \E F : tables' = Attempted(F) \/ tables' = Halved(Attempted(F))
    BY <1>4 DEF AllocateFewer, TryFewer
  <2> QED BY <1>1, <2>1, <2>2, FewerGiven
<1> QED BY <1>2, <1>3, <1>4

(* What drawing leaves to the tables, if something is left to draw.        *)
LEMMA DrawProgress ==
  ASSUME CachesInv, ProgressInv, pc \in {"opaque", "blend"}, NEW d \in Waiting,
         ~OutOfResources(d), Draw(d), pc' = pc
  PROVE  ProgressInv'
<1>1. /\ TypeOK /\ QueuesInv /\ CountsInv /\ Busy /\ Drawing
      /\ tables \in [TableKeys -> Table]
  BY DEF CachesInv, Live, Busy, Drawing, TypeOK, Table
<1>2. /\ AllocationFor(d) \in Nat /\ d \in Nat
      /\ recorded' = Append(recorded, [drawable |-> d,
                                       allocation |-> AllocationFor(d)])
  BY <1>1, DrawRecords, WaitingInScene
<1>3. recorded' # <<>>
  <2>1. PICK r \in Record : r = [drawable |-> d, allocation |-> AllocationFor(d)]
    BY <1>2 DEF Record
  <2>2. recorded \in Seq(Record) /\ recorded' = Append(recorded, r)
    BY <1>1, <1>2, <2>1 DEF TypeOK, Record
  <2>3. Len(recorded') = Len(recorded) + 1 /\ Len(recorded) \in Nat
    BY <2>2, AppendProperties, LenProperties
  <2> QED BY <2>3, EmptySeq
<1>4. PICK t \in TableKeys : t = TableFor(d) /\ TableOf[MaskOf(d)] = t
  BY <1>1, WaitingRight
<1>5. tables' = [tables EXCEPT ![t].remaining = @ - 1, ![t].count = @ - 1]
  BY <1>4 DEF Draw
<1>6. ASSUME NEW k \in TableKeys, tables'[k].count > 0
      PROVE  tables'[k].allocations > 0
  <2>1. \A j \in TableKeys : tables[j].count > 0 => tables[j].allocations > 0
    BY <1>1 DEF ProgressInv
  <2>2. PICK r \in Table : r = tables[k]
    BY <1>1
  <2>3. r.count \in Nat /\ (r.count > 0 => r.allocations > 0)
    BY <2>1, <2>2 DEF Table
  <2>4. CASE k = t
    <3>1. tables'[k] = [r EXCEPT !.remaining = @ - 1, !.count = @ - 1]
      BY <1>1, <1>5, <2>2, <2>4
    <3>2. tables'[k].count = r.count - 1 /\ tables'[k].allocations = r.allocations
      BY <3>1 DEF Table
    <3> QED BY <1>6, <2>3, <3>2
  <2>5. CASE k # t
    BY <1>1, <1>5, <1>6, <2>2, <2>3, <2>5
  <2> QED BY <2>4, <2>5
<1> QED BY <1>3, <1>6 DEF ProgressInv

(* Every step keeps something to draw in each pass.                        *)
LEMMA NextProgress ==
  CachesInv /\ ListsInv /\ ProgressInv /\ [Next]_vars => ProgressInv'
<1> SUFFICES ASSUME CachesInv, ListsInv, ProgressInv, [Next]_vars
             PROVE  ProgressInv'
  OBVIOUS
<1>1. /\ TypeOK /\ opaque \in Seq(Nat) /\ recorded \in Seq(Record)
      /\ tables \in [TableKeys -> Table]
  BY DEF CachesInv, TypeOK, Record, Table
<1>2. ASSUME pc' \notin {"fewer", "opaque", "blend", "submit"} PROVE ProgressInv'
  BY <1>2 DEF ProgressInv, Drawing
<1>3. ASSUME NEW s \in Scenes, NEW p \in Passes, Render(s, p) PROVE ProgressInv'
  BY <1>2, <1>3 DEF Render
<1>4. CASE RejectPrimitive
  BY <1>2, <1>4 DEF RejectPrimitive, Throw
<1>5. CASE PushDrawable
  BY <1>2, <1>5 DEF PushDrawable, Throw
<1>6. CASE GraphDone
  BY <1>2, <1>6 DEF GraphDone
<1>7. CASE AllocateTables \/ BeginSubset \/ AllocateFewer
  <2>1. pc' \in {"allocate", "subset", "fewer", "opaque", "undefined", "idle"}
    BY <1>7, AllocatingStep
  <2>2. CASE pc' = "fewer"
    <3>1. Given(tables')
      BY <1>7, <2>2, StartGiven
    <3> QED BY <2>2, <3>1 DEF ProgressInv, Drawing
  <2>3. CASE pc' = "opaque"
    <3>1. Given(tables')
      BY <1>7, <2>3, StartGiven
    <3>2. AllocateTables \/ AllocateFewer
      BY <1>7, <2>3 DEF BeginSubset
    <3>3. /\ StartDrawing
          /\ \A k \in TableKeys : tables'[k].remaining = tables'[k].allocations
      BY <2>3, <3>2, TablesStart
    <3>4. opaque' = opaque
      BY <1>7, AllocatingStep
    <3>5. turns' = Len(opaque')
      BY <3>3, <3>4 DEF StartDrawing
    <3> QED BY <2>3, <3>1, <3>3, <3>5 DEF ProgressInv, Given
  <2> QED BY <1>2, <2>1, <2>2, <2>3
<1>8. CASE RenderOpaque
  <2> DEFINE d == Head(opaque)
  <2>1. pc = "opaque" /\ d \in Waiting /\ Busy /\ Drawing
    BY <1>8, OpaqueStep DEF Busy, Drawing
  <2>2. CASE /\ OutOfResources(d)
             /\ UNCHANGED <<pc, recorded, tables>>
    <3>1. recorded # <<>>
      BY <2>1, <2>2, WaitingGiven DEF ProgressInv
    <3> QED BY <2>1, <2>2, <3>1 DEF ProgressInv
  <2>3. CASE ~OutOfResources(d) /\ Draw(d) /\ pc' = pc
    BY <2>1, <2>3, DrawProgress
  <2>4. CASE Throw
    BY <1>2, <2>4 DEF Throw
  <2> QED BY <1>8, <2>2, <2>3, <2>4, OpaqueStep
<1>9. CASE OpaqueDone
  <2>1. /\ pc = "opaque" /\ turns = 0 /\ Drawing
        /\ UNCHANGED <<recorded, tables, opaque>>
        /\ pc' = IF opaque = <<>> THEN "blend" ELSE "submit"
    BY <1>9 DEF OpaqueDone, passVars, Drawing
  <2>2. recorded = <<>> => opaque = <<>>
    BY <1>1, <2>1, EmptySeq DEF ProgressInv
  <2> QED BY <2>1, <2>2 DEF ProgressInv, Drawing, Given
<1>10. CASE RenderBlend
  <2> DEFINE d == Head(blend)
  <2>1. pc = "blend" /\ d \in Waiting
    BY <1>10, BlendStep
  <2>2. CASE ~OutOfResources(d) /\ Draw(d) /\ pc' = pc
    BY <2>1, <2>2, DrawProgress
  <2>3. CASE Throw
    BY <1>2, <2>3 DEF Throw
  <2> QED BY <1>10, <2>2, <2>3, BlendStep
<1>11. CASE BlendDone
  <2>1. /\ pc = "blend" /\ Drawing /\ Busy /\ pc' = "submit"
        /\ UNCHANGED <<recorded, tables, opaque, blend>> /\ opaque = <<>>
        /\ blend # <<>> => OutOfResources(Head(blend))
    BY <1>11 DEF BlendDone, passVars, Drawing, Busy, ListsInv
  <2>2. blend # <<>> => Head(blend) \in Waiting
    BY <1>1, Removed DEF TypeOK, Waiting
  <2>3. recorded = <<>> => blend = <<>>
    BY <2>1, <2>2, WaitingGiven DEF ProgressInv
  <2> QED BY <2>1, <2>3 DEF ProgressInv, Drawing
<1>12. CASE Submit
  <2>1. /\ pc = "submit" /\ Drawing /\ opaque' = opaque
        /\ \/ pc' = "idle"
           \/ tables' = WillRenderAgain /\ StartDrawing
    BY <1>12 DEF Submit, Drawing, Throw
  <2>2. CASE tables' = WillRenderAgain /\ StartDrawing
    <3>1. pc' = "opaque" /\ recorded' = <<>> /\ turns' = Len(opaque')
      BY <2>1, <2>2 DEF StartDrawing
    <3>2. ASSUME NEW k \in TableKeys, tables'[k].count > 0
          PROVE  tables'[k].allocations > 0 /\ tables'[k].remaining > 0
      <4>1. /\ tables'[k].count = tables[k].count
            /\ tables'[k].allocations = tables[k].allocations
            /\ tables'[k].remaining = IF k \in Counted THEN tables[k].allocations
                                                       ELSE tables[k].remaining
        BY <1>1, <2>2, AgainRight
      <4>2. k \in Counted
        BY <3>2, <4>1 DEF CachesInv, TablesInv, Counted, Made
      <4>3. tables[k].allocations > 0
        BY <2>1, <3>2, <4>1 DEF ProgressInv
      <4> QED BY <4>1, <4>2, <4>3
    <3> QED BY <3>1, <3>2 DEF ProgressInv, Given
  <2> QED BY <1>2, <2>1, <2>2
<1>13. CASE UNCHANGED vars
  BY <1>13 DEF vars, passVars, ProgressInv, Drawing, Given
<1> QED BY <1>3, <1>4, <1>5, <1>6, <1>7, <1>8, <1>9, <1>10, <1>11, <1>12, <1>13
        DEF Next, Step, Rest

(* Any list can be cut in two.                                             *)
LEMMA Cut ==
  ASSUME NEW s \in Seq(Nat), NEW c \in 0..Len(s)
  PROVE  \E t, u \in Seq(Nat) :
           /\ s = t \o u /\ Len(t) = c /\ Len(u) = Len(s) - c
           /\ \A i \in 1..c : t[i] = s[i]
           /\ \A i \in 1..(Len(s) - c) : u[i] = s[i + c]
<1>1. PICK n \in Nat : n = Len(s) /\ c \in 0..n
  BY ListIds
<1>2. \A i \in 1..n : s[i] \in Nat
  BY <1>1, ListIds
<1>3. PICK t : t = [i \in 1..c |-> s[i]]
  OBVIOUS
<1>4. PICK u : u = [i \in 1..(n - c) |-> s[i + c]]
  OBVIOUS
<1>5. t \in [1..c -> Nat] /\ u \in [1..(n - c) -> Nat] /\ c \in Nat /\ n - c \in Nat
  <2>1. \A i \in 1..c : i \in 1..n
    BY <1>1
  <2>2. \A i \in 1..(n - c) : i + c \in 1..n
    BY <1>1
  <2> QED BY <1>1, <1>2, <1>3, <1>4, <2>1, <2>2
<1>6. t \in Seq(Nat) /\ Len(t) = c /\ u \in Seq(Nat) /\ Len(u) = n - c
  <2>1. t \in Seq(Nat) /\ Len(t) = c
    BY <1>5, SeqDef
  <2>2. PICK d \in Nat : d = n - c
    BY <1>5
  <2>3. u \in [1..d -> Nat]
    BY <1>5, <2>2
  <2>4. u \in Seq(Nat) /\ Len(u) = d
    BY <2>3, SeqDef
  <2> QED BY <2>1, <2>2, <2>4
<1>7. PICK v \in Seq(Nat) : v = t \o u
  BY <1>6, ConcatProperties
<1>8. Len(v) = n /\ \A i \in 1..n : v[i] = IF i <= c THEN t[i] ELSE u[i - c]
  <2>1. /\ Len(v) = Len(t) + Len(u)
        /\ \A i \in 1..Len(t) + Len(u) : v[i] = IF i <= Len(t) THEN t[i]
                                                ELSE u[i - Len(t)]
    BY <1>6, <1>7, ConcatProperties
  <2>2. Len(t) + Len(u) = n
    BY <1>1, <1>6
  <2> QED BY <1>6, <2>1, <2>2
<1>9. \A i \in 1..n : v[i] = s[i]
  <2>1. \A i \in 1..n : IF i <= c THEN i \in 1..c
                                  ELSE i - c \in 1..(n - c) /\ (i - c) + c = i
    BY <1>1
  <2> QED BY <1>3, <1>4, <1>8, <2>1
<1>10. v = s
  BY <1>1, <1>8, <1>9, SeqEqual
<1>11. /\ \A i \in 1..c : t[i] = s[i]
       /\ \A i \in 1..(n - c) : u[i] = s[i + c]
  BY <1>3, <1>4
<1>12. /\ t \in Seq(Nat) /\ u \in Seq(Nat) /\ s = t \o u
       /\ Len(t) = c /\ Len(u) = Len(s) - c
       /\ \A i \in 1..(Len(s) - c) : u[i] = s[i + c]
  BY <1>1, <1>6, <1>7, <1>10, <1>11
<1> QED BY <1>11, <1>12, Zenon

(* Two lists that grow, one below the other, grow together.                *)
LEMMA IncreasingConcat ==
  ASSUME NEW s \in Seq(Nat), NEW t \in Seq(Nat), Increasing(s), Increasing(t),
         \A i \in 1..Len(s) : \A e \in Ids(t) : s[i] < e
  PROVE  Increasing(s \o t)
<1>1. PICK m \in Nat : m = Len(s)
  BY ListIds
<1>2. PICK n \in Nat : n = Len(t)
  BY ListIds
<1>3. PICK u \in Seq(Nat) : u = s \o t
  BY ConcatProperties
<1>4. Len(u) = m + n
  BY <1>1, <1>2, <1>3, ConcatProperties
<1>5. \A i \in 1..(m + n) : u[i] = IF i <= m THEN s[i] ELSE t[i - m]
  BY <1>1, <1>2, <1>3, ConcatProperties
<1>6. \A i \in 1..m : \A j \in 1..n : s[i] < t[j]
  BY <1>1, <1>2, ListIds
<1>7. /\ \A i, j \in 1..m : i < j => s[i] < s[j]
      /\ \A i, j \in 1..n : i < j => t[i] < t[j]
  BY <1>1, <1>2 DEF Increasing
<1>8. ASSUME NEW i \in 1..(m + n), NEW j \in 1..(m + n), i < j PROVE u[i] < u[j]
  <2>1. CASE i <= m /\ j <= m
    <3>1. i \in 1..m /\ j \in 1..m /\ u[i] = s[i] /\ u[j] = s[j]
      BY <2>1, <1>5
    <3> QED BY <3>1, <1>7, <1>8
  <2>2. CASE i <= m /\ ~(j <= m)
    <3>1. i \in 1..m /\ j - m \in 1..n /\ u[i] = s[i] /\ u[j] = t[j - m]
      BY <2>2, <1>5
    <3> QED BY <3>1, <1>6
  <2>3. CASE ~(i <= m)
    <3>1. i - m \in 1..n /\ j - m \in 1..n /\ u[i] = t[i - m] /\ u[j] = t[j - m]
      BY <2>3, <1>5, <1>8
    <3>2. i - m < j - m
      BY <1>8
    <3> QED BY <3>1, <3>2, <1>7
  <2> QED BY <2>1, <2>2, <2>3
<1> QED BY <1>3, <1>4, <1>8 DEF Increasing

(* What is recorded are opaque drawables, then blended ones.               *)
LEMMA OpaqueFirst ==
  ASSUME NEW b \in Seq(Nat), b = Batch, BatchOrdered
  PROVE  \E c \in 0..Len(b) :
           /\ \A i \in 1..c : ~IsBlended(b[i])
           /\ \A i \in 1..Len(b) : c < i => IsBlended(b[i])
<1>1. PICK n \in Nat : n = Len(b)
  BY ListIds
<1>2. PICK S : S = {i \in 1..n : IsBlended(b[i])}
  OBVIOUS
<1>3. CASE S = {}
  <2>1. /\ n \in 0..n /\ \A i \in 1..n : ~IsBlended(b[i])
        /\ \A i \in 1..n : ~(n < i)
    BY <1>2, <1>3
  <2> QED BY <1>1, <2>1
<1>4. CASE S # {}
  <2>1. PICK m \in S : \A i \in S : m <= i
    <3>1. S \in SUBSET Nat
      BY <1>2
    <3> QED BY <3>1, <1>4, LeastNumber
  <2>2. m \in 1..n /\ IsBlended(b[m]) /\ m - 1 \in 0..n
    BY <1>2, <2>1
  <2>3. \A i \in 1..(m - 1) : ~IsBlended(b[i])
    BY <1>2, <2>1, <2>2
  <2>4. \A i \in 1..n : m < i => IsBlended(b[i])
    BY <1>1, <2>2 DEF BatchOrdered
  <2>5. \A i \in 1..n : m - 1 < i => i = m \/ m < i
    BY <2>2
  <2> QED BY <1>1, <2>2, <2>3, <2>4, <2>5
<1> QED BY <1>3, <1>4

(* No drawables are in order.                                              *)
LEMMA NoneInOrder == InOrder({}) = <<>>
<1>1. Ids(<<>>) = {} /\ <<>> \in Seq(Nat) /\ 1..Len(<<>>) = {}
  BY EmptyList, EmptySeq
<1>2. PICK s \in Seq(Nat) : s = <<>>
  BY <1>1
<1>3. Increasing(s) /\ Ids(s) = {}
  BY <1>1, <1>2 DEF Increasing
<1>4. InOrder(Ids(s)) = s
  BY <1>3, IncreasingInOrder
<1> QED BY <1>2, <1>3, <1>4

(* The promise counts as FiniteSets does.                                  *)
LEMMA PromiseCardinality ==
  ASSUME NEW S
  PROVE  Promise!Cardinality(S) = Cardinality(S)
BY DEF Promise!Cardinality, Cardinality, Promise!IsFiniteSet, IsFiniteSet

(* What is left while a scene is rendered.                                 *)
LEMMA LeftRight ==
  ASSUME TypeOK, Busy, Parted, pushed = Len(scene)
  PROVE  Left = Ids(Batch) \cup Waiting
<1>1. DOMAIN scene = 1..pushed
  BY LenProperties DEF TypeOK
<1> QED BY <1>1 DEF Left, Parted

(* A pass that is submitted is one that the promise allows.                *)
LEMMA SubmitPasses ==
  ASSUME TypeOK, QueuesInv, Busy, Parted, Sorted, pushed = Len(scene),
         recorded = <<>> => opaque = <<>> /\ blend = <<>>,
         drawn' = drawn \o Batch, recorded' = <<>>,
         UNCHANGED <<scene, pushed, opaque, blend>>,
         Busy' <=> opaque # <<>> \/ blend # <<>>
  PROVE  Promise!Next
<1>1. /\ opaque \in Seq(Nat) /\ blend \in Seq(Nat) /\ drawn \in Seq(Nat)
      /\ recorded \in Seq(Record)
  BY DEF TypeOK, Record
<1>2. PICK b \in Seq(Nat) : b = Batch
  BY <1>1, BatchType
<1>3. PICK n \in Nat : n = Len(b)
  BY ListIds
<1>4. Distinct(b) /\ BatchOrdered
  BY <1>2 DEF Sorted
<1>5. PICK c \in 0..n : /\ \A i \in 1..c : ~IsBlended(b[i])
                        /\ \A i \in 1..n : c < i => IsBlended(b[i])
  BY <1>2, <1>3, <1>4, OpaqueFirst
<1>6. \E s, t \in Seq(Nat) :
        /\ b = s \o t /\ Len(s) = c /\ Len(t) = n - c
        /\ \A i \in 1..c : s[i] = b[i]
        /\ \A i \in 1..(n - c) : t[i] = b[i + c]
  BY <1>3, Cut
<1>7. PICK s, t \in Seq(Nat) :
        /\ b = s \o t /\ Len(s) = c /\ Len(t) = n - c
        /\ \A i \in 1..c : s[i] = b[i]
        /\ \A i \in 1..(n - c) : t[i] = b[i + c]
  BY <1>6
<1>8. PICK k \in Nat : k = n - c /\ n = c + k /\ c \in Nat /\ Len(t) = k
  <2>1. c \in Nat /\ n - c \in Nat /\ n = c + (n - c)
    OBVIOUS
  <2> QED BY <2>1, <1>7
<1>9. /\ Ids(s) = {b[i] : i \in 1..c} /\ \A d \in Ids(s) : ~IsBlended(d)
  <2>1. Ids(s) = {s[i] : i \in 1..c}
    BY <1>7, ListIds
  <2>2. Ids(s) = {b[i] : i \in 1..c}
    BY <1>7, <2>1
  <2> QED BY <1>5, <2>2
<1>10. \A d \in Ids(t) : IsBlended(d)
  <2>1. Ids(t) = {t[i] : i \in 1..k}
    BY <1>7, <1>8, ListIds
  <2>2. \A i \in 1..k : i + c \in 1..n /\ c < i + c
    BY <1>8
  <2>3. \A i \in 1..k : IsBlended(t[i])
    BY <1>5, <1>7, <1>8, <2>2
  <2> QED BY <2>1, <2>3
<1>11. /\ Increasing(t) /\ \A i \in 1..k : \A e \in Ids(blend) : t[i] < e
       /\ k > 0 => opaque = <<>>
  <2>1. \A i \in 1..k : i + c \in 1..n /\ c < i + c
    BY <1>8
  <2>2. \A i \in 1..k : t[i] = b[i + c] /\ IsBlended(b[i + c])
    BY <1>5, <1>7, <1>8, <2>1
  <2>3. \A i \in 1..n : IsBlended(b[i]) =>
          /\ opaque = <<>>
          /\ \A j \in 1..n : i < j => b[i] < b[j]
          /\ \A d \in Ids(blend) : b[i] < d
    BY <1>2, <1>3, <1>4 DEF BatchOrdered
  <2>4. ASSUME NEW i \in 1..k, NEW j \in 1..k, i < j PROVE t[i] < t[j]
    <3>1. i + c < j + c
      BY <1>8, <2>4
    <3> QED BY <2>1, <2>2, <2>3, <3>1
  <2>5. Increasing(t)
    BY <1>7, <1>8, <2>4 DEF Increasing
  <2>6. \A i \in 1..k : \A e \in Ids(blend) : t[i] < e
    BY <2>1, <2>2, <2>3
  <2>7. k > 0 => 1 \in 1..k
    OBVIOUS
  <2> QED BY <2>1, <2>2, <2>3, <2>5, <2>6, <2>7
<1>12. Ids(b) = Ids(s) \cup Ids(t)
  BY <1>7, ConcatParts
<1>13. /\ Left = Ids(s) \cup Ids(t) \cup Ids(opaque) \cup Ids(blend)
  BY <1>2, <1>12, LeftRight DEF Waiting
<1>14. /\ \A d \in Ids(opaque) : ~IsBlended(d)
       /\ \A d \in Ids(blend) : IsBlended(d)
       /\ Increasing(blend)
  BY DEF Sorted
<1>15. LeftOpaque = Ids(s) \cup Ids(opaque)
  BY <1>9, <1>10, <1>13, <1>14 DEF LeftOpaque
<1>16. LeftBlended = Ids(t) \cup Ids(blend)
  BY <1>9, <1>10, <1>13, <1>14 DEF LeftBlended
<1>17. PICK u \in Seq(Nat) : u = t \o blend
  BY <1>1, <1>7, ConcatProperties
<1>18. InOrder(LeftBlended) = u
  <2>1. Increasing(u)
    BY <1>1, <1>7, <1>8, <1>11, <1>14, <1>17, IncreasingConcat
  <2>2. Ids(u) = LeftBlended
    BY <1>1, <1>7, <1>16, <1>17, ConcatParts
  <2> QED BY <2>1, <2>2, IncreasingInOrder
<1>19. Left' = Ids(opaque) \cup Ids(blend)
  <2>1. Parted' /\ Ids(drawn') = Ids(drawn) \cup Ids(Batch)
    BY SubmitLists
  <2>2. DOMAIN scene' = 1..pushed
    BY LenProperties DEF TypeOK
  <2>3. CASE Busy'
    <3>1. Left' = (1..pushed) \ (Ids(drawn) \cup Ids(Batch))
      BY <2>1, <2>2, <2>3 DEF Left
    <3> QED BY <3>1 DEF Parted, Waiting
  <2>4. CASE ~Busy'
    <3>1. opaque = <<>> /\ blend = <<>> /\ Left' = {}
      BY <2>4 DEF Left
    <3> QED BY <3>1, EmptyList
  <2> QED BY <2>3, <2>4
<1>20. \A d : IsBlended(d)' = IsBlended(d)
  BY DEF IsBlended, MaskOf
<1>21. LeftOpaque' = Ids(opaque)
  BY <1>14, <1>19, <1>20 DEF LeftOpaque
<1>22. LeftBlended' = Ids(blend)
  BY <1>14, <1>19, <1>20 DEF LeftBlended
<1>23. InOrder(LeftBlended') = blend
  BY <1>1, <1>14, <1>22, IncreasingInOrder
<1>24. InOrder(LeftBlended)' = blend
  BY <1>23
<1>25. Cardinality(Ids(s)) = c
  <2>1. c \in 0..Len(b)
    BY <1>3
  <2>2. Cardinality({b[j] : j \in 1..c}) = c
    BY <2>1, <1>4, FirstCounted
  <2> QED BY <2>2, <1>9
<1>26. PICK m \in Nat : m = Len(drawn)
  BY <1>1, ListIds
<1>27. /\ SubSeq(drawn', 1, m) = drawn
       /\ SubSeq(drawn', m + 1, Len(drawn')) = b
  BY <1>1, <1>2, <1>26, ConcatParts
<1>28. /\ SubSeq(b, 1, c) = s /\ SubSeq(b, c + 1, c + k) = t
       /\ Len(b) = c + k
  BY <1>3, <1>7, <1>8, ConcatParts
<1>29. /\ SubSeq(u, 1, k) = t /\ SubSeq(u, k + 1, Len(u)) = blend
       /\ Len(u) = k + Len(blend) /\ Len(blend) \in Nat
  <2>1. /\ SubSeq(u, 1, Len(t)) = t /\ SubSeq(u, Len(t) + 1, Len(u)) = blend
        /\ Len(u) = Len(t) + Len(blend)
    BY <1>1, <1>7, <1>17, ConcatParts
  <2>2. Len(t) = k /\ Len(blend) \in Nat
    BY <1>1, <1>8, ListIds
  <2> QED BY <2>1, <2>2
<1>30. Ids(s) \cap Ids(opaque) = {}
  BY <1>2, <1>12 DEF Parted, Waiting
<1>31. Promise!Elements(s) = Ids(s)
  BY DEF Promise!Elements, Ids
<1>32. k > 0 => Ids(s) = LeftOpaque
  BY <1>11, <1>15, EmptyList
<1>33. Ids(s) = {} /\ k = 0 => LeftOpaque = {} /\ u = <<>>
  <2> SUFFICES ASSUME Ids(s) = {}, k = 0 PROVE LeftOpaque = {} /\ u = <<>>
    OBVIOUS
  <2>1. c = 0
    BY <1>25, FS_EmptySet
  <2>2. b = <<>>
    BY <1>3, <1>8, <2>1, EmptySeq
  <2>3. recorded = <<>>
    BY <1>1, <1>2, <2>2, BatchType
  <2>4. opaque = <<>> /\ blend = <<>>
    BY <2>3
  <2>5. u = <<>>
    <3>1. Len(u) = 0
      BY <1>29, <2>4, EmptySeq
    <3> QED BY <3>1, EmptySeq
  <2> QED BY <1>15, <2>4, <2>5, EmptyList
<1>34. LeftOpaque' = LeftOpaque \ Ids(s)
  BY <1>15, <1>21, <1>30
<1>35. Busy' <=> LeftOpaque' # {} \/ InOrder(LeftBlended)' # <<>>
  <2>1. opaque = <<>> <=> Ids(opaque) = {}
    BY <1>1, Removed, EmptyList
  <2> QED BY <2>1, <1>21, <1>24
<1>36. Promise!Pass(Ids(s), k)
  <2>1. Busy
    OBVIOUS
  <2>2. /\ k > 0 => Ids(s) = LeftOpaque
        /\ Ids(s) = {} /\ k = 0 => LeftOpaque = {} /\ InOrder(LeftBlended) = <<>>
    BY <1>18, <1>32, <1>33
  <2>3. SubSeq(drawn', 1, Len(drawn)) = drawn
    BY <1>26, <1>27
  <2>4. SubSeq(drawn', Len(drawn) + 1, Len(drawn')) = b
    BY <1>26, <1>27
  <2>5. Len(b) = Cardinality(Ids(s)) + k
    BY <1>25, <1>28
  <2>6. Promise!Elements(SubSeq(b, 1, Cardinality(Ids(s)))) = Ids(s)
    BY <1>25, <1>28, <1>31
  <2>7. SubSeq(b, Cardinality(Ids(s)) + 1, Cardinality(Ids(s)) + k) =
          SubSeq(InOrder(LeftBlended), 1, k)
    BY <1>18, <1>25, <1>28, <1>29
  <2>8. InOrder(LeftBlended)' =
          SubSeq(InOrder(LeftBlended), k + 1, Len(InOrder(LeftBlended)))
    BY <1>18, <1>24, <1>29
  <2> QED BY <2>1, <2>2, <2>3, <2>4, <2>5, <2>6, <2>7, <2>8, <1>34, <1>35,
          PromiseCardinality DEF Promise!Pass
<1>37. Ids(s) \in SUBSET LeftOpaque /\ k \in 0..Len(InOrder(LeftBlended))
  BY <1>8, <1>15, <1>18, <1>29
<1> QED BY <1>36, <1>37 DEF Promise!Next

(* A scene begins with all its drawables left.                             *)
LEMMA RenderBegins ==
  ASSUME NEW s \in Scenes, NEW p \in Passes, Render(s, p)
  PROVE  Promise!Begin
<1>1. /\ ~Busy /\ Busy' /\ scene' = s /\ drawn' = <<>> /\ s \in Seq(Masks)
  BY RendererAssumption DEF Render, Busy
<1>2. PICK n \in Nat : n = Len(s) /\ DOMAIN s = 1..n
  BY <1>1, LenProperties
<1>3. PICK D : D = LeftBlended'
  OBVIOUS
<1>4. D \in SUBSET (1..n) /\ LeftOpaque' \cap D = {}
  BY <1>1, <1>2, <1>3 DEF LeftBlended, LeftOpaque, Left
<1>5. D \in SUBSET Nat /\ IsFiniteSet(D)
  <2>1. IsFiniteSet(1..n)
    BY FS_Interval
  <2>2. IsFiniteSet(D)
    BY <2>1, <1>4, FS_Subset
  <2>3. 1..n \subseteq Nat
    OBVIOUS
  <2> QED BY <2>2, <2>3, <1>4
<1>6. Ids(InOrder(D)) = D /\ Len(InOrder(D)) = Cardinality(D)
  BY <1>5, InOrderRight
<1>7. InOrder(LeftBlended)' = InOrder(D)
  BY <1>3
<1>8. Promise!Elements(InOrder(D)) = D
  BY <1>6 DEF Promise!Elements, Ids
<1> QED BY <1>1, <1>4, <1>6, <1>7, <1>8, PromiseCardinality DEF Promise!Begin

(* The steps that submit nothing stutter, or end the call by an exception. *)
LEMMA SubmitsNothing ==
  ASSUME Busy, UNCHANGED <<scene, drawn>>
  PROVE  [Promise!Next]_<<Busy, LeftOpaque, InOrder(LeftBlended), drawn>>
<1>1. CASE Busy'
  <2>1. Left' = Left /\ \A d : IsBlended(d)' = IsBlended(d)
    BY <1>1 DEF Left, IsBlended, MaskOf
  <2>2. LeftOpaque' = LeftOpaque /\ LeftBlended' = LeftBlended
    BY <2>1 DEF LeftOpaque, LeftBlended
  <2>3. InOrder(LeftBlended)' = InOrder(LeftBlended)
    BY <2>2
  <2>4. Busy' = Busy
    BY <1>1 DEF Busy
  <2> QED BY <2>2, <2>3, <2>4
<1>2. CASE ~Busy'
  <2>1. LeftOpaque' = {} /\ LeftBlended' = {}
    BY <1>2 DEF LeftOpaque, LeftBlended, Left
  <2>2. InOrder(LeftBlended)' = <<>>
    BY <2>1, NoneInOrder
  <2>3. Promise!Fail
    BY <1>2, <2>1, <2>2 DEF Promise!Fail
  <2> QED BY <2>3 DEF Promise!Next
<1> QED BY <1>1, <1>2

(* Every step of the renderer is one that the promise allows.              *)
LEMMA PromiseStep ==
  CachesInv /\ ListsInv /\ ProgressInv /\ [Next]_vars =>
    [Promise!Next]_<<Busy, LeftOpaque, InOrder(LeftBlended), drawn>>
<1> SUFFICES ASSUME CachesInv, ListsInv, ProgressInv, [Next]_vars
             PROVE  [Promise!Next]_<<Busy, LeftOpaque, InOrder(LeftBlended), drawn>>
  OBVIOUS
<1>1. ASSUME NEW s \in Scenes, NEW p \in Passes, Render(s, p)
      PROVE  Promise!Next
  BY <1>1, RenderBegins DEF Promise!Next
<1>2. CASE RejectPrimitive
  <2>1. Busy /\ UNCHANGED <<scene, drawn>>
    BY <1>2 DEF RejectPrimitive, Busy, Throw, graphVars
  <2> QED BY <2>1, SubmitsNothing
<1>3. CASE PushDrawable
  <2>1. Busy /\ UNCHANGED <<scene, drawn>>
    BY <1>3 DEF PushDrawable, Busy, Throw, historyVars
  <2> QED BY <2>1, SubmitsNothing
<1>4. CASE GraphDone \/ AllocateTables \/ BeginSubset \/ AllocateFewer
  BY <1>4, AllocatingStep, SubmitsNothing
<1>5. CASE RenderOpaque
  <2>1. Busy /\ UNCHANGED <<scene, drawn>>
    BY <1>5, OpaqueStep DEF Busy, Throw
  <2> QED BY <2>1, SubmitsNothing
<1>6. CASE OpaqueDone \/ BlendDone
  <2>1. Busy /\ UNCHANGED <<scene, drawn>>
    BY <1>6 DEF OpaqueDone, BlendDone, Busy, graphVars, historyVars
  <2> QED BY <2>1, SubmitsNothing
<1>7. CASE RenderBlend
  <2>1. Busy /\ UNCHANGED <<scene, drawn>>
    BY <1>7, BlendStep DEF Busy, Throw
  <2> QED BY <2>1, SubmitsNothing
<1>8. CASE Submit
  <2>1. /\ pc = "submit" /\ Busy /\ TypeOK /\ QueuesInv /\ Parted /\ Sorted
        /\ pushed = Len(scene) /\ opaque \in Seq(Nat) /\ recorded \in Seq(Record)
        /\ recorded = <<>> => opaque = <<>> /\ blend = <<>>
        /\ UNCHANGED <<scene, pushed, opaque, blend>>
    BY <1>8 DEF Submit, CachesInv, ListsInv, ProgressInv, Live, Busy, TypeOK,
                Record, graphVars
  <2>2. CASE Throw
    BY <2>1, <2>2, SubmitsNothing DEF Throw
  <2>3. CASE ~Throw
    <3>1. /\ drawn' = drawn \o Batch /\ recorded' = <<>>
          /\ pc' = IF opaque = <<>> /\ blend = <<>> THEN "idle" ELSE "opaque"
      BY <1>8, <2>1, <2>3, BatchType DEF Submit, StartDrawing, LeaveDrawing
    <3>2. Busy' <=> opaque # <<>> \/ blend # <<>>
      BY <3>1 DEF Busy
    <3>3. Promise!Next
      BY <2>1, <3>1, <3>2, SubmitPasses
    <3> QED BY <3>3
  <2> QED BY <2>2, <2>3
<1>9. CASE UNCHANGED vars
  <2>1. UNCHANGED <<pc, scene, drawn>>
    BY <1>9 DEF vars, graphVars, historyVars
  <2>2. Busy' = Busy /\ Left' = Left /\ \A d : IsBlended(d)' = IsBlended(d)
    BY <2>1 DEF Busy, Left, IsBlended, MaskOf
  <2>3. LeftOpaque' = LeftOpaque /\ LeftBlended' = LeftBlended
    BY <2>2 DEF LeftOpaque, LeftBlended
  <2>4. InOrder(LeftBlended)' = InOrder(LeftBlended)
    BY <2>3
  <2> QED BY <2>1, <2>2, <2>3, <2>4
<1> QED BY <1>1, <1>2, <1>3, <1>4, <1>5, <1>6, <1>7, <1>8, <1>9
        DEF Next, Step, Rest

(* Every drawable of a scene is submitted exactly once, opaque ones before *)
(* blended ones and these in the order of the scene, over as many passes   *)
(* as the allocations take and none of them empty, or the call throws      *)
(* (NewRenderer::render, renderAgain).                                     *)
THEOREM RenderPromiseKept == Spec => KeepsRenderPromise
<1>1. Init => ListsInv /\ ProgressInv
  BY DEF Init, ListsInv, ProgressInv, Drawing, Busy
<1>2. Init => Promise!Init
  <2> SUFFICES ASSUME Init PROVE Promise!Init
    OBVIOUS
  <2>1. ~Busy /\ drawn = <<>>
    BY DEF Init, Busy
  <2>2. LeftOpaque = {} /\ LeftBlended = {}
    BY <2>1 DEF LeftOpaque, LeftBlended, Left
  <2> QED BY <2>1, <2>2, NoneInOrder DEF Promise!Init
<1> QED BY <1>1, <1>2, InitCaches, NextCaches, NextLists, NextProgress, PromiseStep,
           PTL DEF Spec, KeepsRenderPromise, Promise!Spec
=============================================================================
