------------------------ MODULE TextureTable_proofs ------------------------
(***************************************************************************)
(* Proofs about TextureLayers and TextureTable, for every set of textures, *)
(* keys, contents and addresses and every bound.                           *)
(***************************************************************************)
EXTENDS TextureTable, Numbers_proofs, FiniteSetTheorems, TLAPS

(***************************************************************************)
(* The inductive invariant.  LayersCounted says which counts are right; to *)
(* stay right they need that nothing is left of a resource that is gone,   *)
(* so that the next one with its key starts from nothing, and that the     *)
(* constructors that threw took layers which exist.                        *)
(***************************************************************************)
Users(k, l) == {t \in Textures : tex[t] = [key |-> k, layer |-> l]}

NothingLeft ==
  \A k \in Keys : ~Has(k) => stray[k] = {} /\ unyielded[k] = 0

StraysExist ==
  \A k \in Keys : Has(k) => stray[k] \subseteq DOMAIN resources[k].refCounts

UsersFinite ==
  \A k \in Keys, l \in 0..(MaxLayers - 1) : IsFiniteSet(Users(k, l))

LayersInv ==
  /\ LayersCounted /\ NothingLeft /\ StraysExist /\ UsersFinite
  /\ DOMAIN resources = Keys

(* What the invariant says of the resource r with key k.                   *)
Counted(r, n, k, lost) ==
  /\ r \in Resource(n) /\ lost \subseteq 0..(n - 1)
  /\ \A l \in 0..(n - 1) :
       r.refCounts[l] = Cardinality(Users(k, l)) + (IF l \in lost THEN 1 ELSE 0)

Balanced(r, freed) == r.remaining + freed = Cardinality(Unused(r))

NoneGone(r, freed) == Unused(r) = DOMAIN r.refCounts => freed > 0

ResourceRight(r, k, lost, freed) ==
  /\ \E n \in 1..MaxLayers : Counted(r, n, k, lost)
  /\ Balanced(r, freed) /\ NoneGone(r, freed)

KeyRight(k) ==
  IF Has(k) THEN ResourceRight(resources[k], k, stray[k], unyielded[k])
            ELSE stray[k] = {} /\ unyielded[k] = 0

TexturesRight ==
  /\ tex \in [Textures -> Uses \cup {None}]
  /\ \A t \in Textures :
       Alive(t) => Has(tex[t].key) /\ LayerOf(t) \in DOMAIN ResourceOf(t).refCounts
  /\ UsersFinite

CountersRight ==
  /\ images \in 0..MaxImages
  /\ stray \in [Keys -> SUBSET (0..(MaxLayers - 1))]
  /\ unyielded \in [Keys -> Nat]
  /\ DOMAIN resources = Keys

(* The invariant, key by key.                                              *)
LEMMA LayersInvByKey ==
  LayersInv <=> TexturesRight /\ CountersRight /\ \A k \in Keys : KeyRight(k)
<1>1. ASSUME LayersInv
      PROVE  TexturesRight /\ CountersRight /\ \A k \in Keys : KeyRight(k)
  <2> USE <1>1 DEF LayersInv, LayersCounted
  <2>1. TexturesRight /\ CountersRight
    BY DEF LayersTypeOK, ReferencesRight, TexturesRight, CountersRight
  <2>2. ASSUME NEW k \in Keys, Has(k) PROVE KeyRight(k)
    <3>1. PICK n \in 1..MaxLayers : resources[k] \in Resource(n)
      BY <2>2 DEF LayersTypeOK, Resource
    <3>2. DOMAIN resources[k].refCounts = 0..(n - 1)
      BY <3>1 DEF Resource
    <3>3. \A l \in DOMAIN resources[k].refCounts : resources[k].refCounts[l] =
            Cardinality(Users(k, l)) + (IF l \in stray[k] THEN 1 ELSE 0)
      BY <2>2 DEF ReferencesRight, Users
    <3>4. stray[k] \subseteq 0..(n - 1)
      BY <2>2, <3>2 DEF StraysExist
    <3>5. Counted(resources[k], n, k, stray[k])
      BY <3>1, <3>2, <3>3, <3>4 DEF Counted
    <3>6. Balanced(resources[k], unyielded[k]) /\ NoneGone(resources[k], unyielded[k])
      BY <2>2 DEF RemainingRight, Balanced, NoneGone
    <3> QED BY <2>2, <3>5, <3>6 DEF KeyRight, ResourceRight
  <2>3. ASSUME NEW k \in Keys, ~Has(k) PROVE KeyRight(k)
    BY <2>3 DEF NothingLeft, KeyRight
  <2> QED BY <2>1, <2>2, <2>3
<1>2. ASSUME TexturesRight, CountersRight, \A k \in Keys : KeyRight(k)
      PROVE  LayersInv
  <2>1. NothingLeft
    BY <1>2 DEF KeyRight, NothingLeft
  <2>2. ASSUME NEW k \in Keys, Has(k)
        PROVE  /\ \E n \in 1..MaxLayers : Counted(resources[k], n, k, stray[k])
               /\ Balanced(resources[k], unyielded[k])
               /\ NoneGone(resources[k], unyielded[k])
    BY <1>2, <2>2 DEF KeyRight, ResourceRight
  <2>3. ASSUME NEW k \in Keys, Has(k)
        PROVE  /\ \E n \in 1..MaxLayers : resources[k] \in Resource(n)
               /\ stray[k] \subseteq DOMAIN resources[k].refCounts
               /\ \A l \in DOMAIN resources[k].refCounts :
                    resources[k].refCounts[l] =
                      Cardinality(Users(k, l)) + (IF l \in stray[k] THEN 1 ELSE 0)
    <3>1. PICK n \in 1..MaxLayers : Counted(resources[k], n, k, stray[k])
      BY <2>2, <2>3
    <3>2. DOMAIN resources[k].refCounts = 0..(n - 1)
      BY <3>1 DEF Counted, Resource
    <3> QED BY <3>1, <3>2 DEF Counted
  <2>4. LayersTypeOK
    BY <1>2, <2>3 DEF LayersTypeOK, Resource, TexturesRight, CountersRight
  <2>5. StraysExist
    BY <2>3 DEF StraysExist
  <2>6. ReferencesRight
    BY <1>2, <2>3 DEF ReferencesRight, TexturesRight, Users
  <2>7. RemainingRight
    BY <2>2 DEF RemainingRight, Balanced, NoneGone
  <2> QED BY <1>2, <2>1, <2>4, <2>5, <2>6, <2>7
          DEF LayersInv, LayersCounted, TexturesRight, CountersRight
<1> QED BY <1>1, <1>2

-----------------------------------------------------------------------------
(* Lemmas about resources.                                                 *)

(* The size of a resource and of what is unused of it.                     *)
LEMMA Sizes ==
  ASSUME NEW n \in 1..MaxLayers, NEW r \in Resource(n)
  PROVE  /\ Size(r) = n /\ n \in Nat \ {0}
         /\ DOMAIN r.refCounts = 0..(n - 1) /\ DOMAIN r.data = 0..(n - 1)
         /\ Unused(r) \in SUBSET (0..(n - 1))
         /\ IsFiniteSet(Unused(r)) /\ Cardinality(Unused(r)) \in 0..n
<1>1. DOMAIN r.refCounts = 0..(n - 1) /\ DOMAIN r.data = 0..(n - 1)
  BY DEF Resource
<1>2. n \in Nat \ {0}
  BY LayersAssumption
<1>3. IsFiniteSet(0..(n - 1)) /\ Cardinality(0..(n - 1)) = n
  BY <1>2, FS_Interval
<1>4. Unused(r) \in SUBSET (0..(n - 1))
  BY <1>1 DEF Unused
<1>5. IsFiniteSet(Unused(r)) /\ Cardinality(Unused(r)) <= n
  BY <1>3, <1>4, FS_Subset
<1>6. Cardinality(Unused(r)) \in Nat
  BY <1>5, FS_CardinalityType
<1> QED BY <1>1, <1>2, <1>3, <1>4, <1>5, <1>6 DEF Size

(* The search for a layer ends at an unused one if there is any.           *)
LEMMA FirstFreeRight ==
  ASSUME NEW n \in 1..MaxLayers, NEW r \in Resource(n), Unused(r) # {}
  PROVE  FirstFree(r) \in Unused(r)
<1> DEFINE At(d) == (r.current + d) % Size(r)
           Free == {d \in 0..(n - 1) : r.refCounts[At(d)] = 0}
           IsFirst(d) == /\ r.refCounts[At(d)] = 0
                         /\ \A e \in 0..(d - 1) : r.refCounts[At(e)] > 0
<1>1. Size(r) = n /\ n \in Nat \ {0} /\ DOMAIN r.refCounts = 0..(n - 1)
  BY Sizes
<1>2. r.current \in 0..(n - 1) /\ \A l \in 0..(n - 1) : r.refCounts[l] \in Nat
  BY DEF Resource
<1>3. \A d \in Nat : At(d) \in 0..(n - 1)
  BY <1>1, <1>2
<1>4. PICK l \in 0..(n - 1) : r.refCounts[l] = 0
  BY <1>1 DEF Unused
<1>5. PICK d \in 0..(n - 1) : At(d) = l
  BY <1>1, <1>2, Around
<1>6. PICK f \in Free : \A e \in Free : f <= e
  <2>1. d \in Free /\ Free \in SUBSET Nat
    BY <1>1, <1>4, <1>5
  <2> HIDE DEF Free
  <2> QED BY <2>1, LeastNumber
<1>7. \A e \in 0..(f - 1) : r.refCounts[At(e)] > 0
  <2> TAKE e \in 0..(f - 1)
  <2>1. e \in 0..(n - 1) /\ e \notin Free
    BY <1>1, <1>6
  <2>2. r.refCounts[At(e)] \in Nat
    BY <1>2, <1>3
  <2> QED BY <2>1, <2>2
<1>8. f \in 0..(n - 1) /\ IsFirst(f)
  BY <1>6, <1>7
<1>9. \E g \in 0..(Size(r) - 1) : IsFirst(g)
  BY <1>1, <1>8
<1>10. FirstFree(r) = At(CHOOSE g \in 0..(Size(r) - 1) : IsFirst(g))
  BY DEF FirstFree
<1> DEFINE chosen == CHOOSE g \in 0..(Size(r) - 1) : IsFirst(g)
<1>11. chosen \in 0..(Size(r) - 1) /\ IsFirst(chosen)
  BY <1>9
<1>12. At(chosen) \in 0..(n - 1) /\ r.refCounts[At(chosen)] = 0
  <2> HIDE DEF At, chosen
  <2> QED BY <1>1, <1>3, <1>11
<1> HIDE DEF At, chosen
<1> QED BY <1>1, <1>10, <1>12 DEF Unused, chosen

(* A layer is taken.                                                       *)
LEMMA TakenRight ==
  ASSUME NEW n \in 1..MaxLayers, NEW r \in Resource(n), NEW l \in Unused(r),
         r.remaining > 0, NEW freed \in Nat, Balanced(r, freed)
  PROVE  /\ Taken(r, l) \in Resource(n)
         /\ Taken(r, l).refCounts = [r.refCounts EXCEPT ![l] = 1]
         /\ Taken(r, l).data = r.data /\ Taken(r, l).image = r.image
         /\ Balanced(Taken(r, l), freed) /\ NoneGone(Taken(r, l), freed)
<1> DEFINE s == Taken(r, l)
<1>1. /\ Size(r) = n /\ n \in Nat \ {0} /\ DOMAIN r.refCounts = 0..(n - 1)
      /\ IsFiniteSet(Unused(r)) /\ Cardinality(Unused(r)) \in Nat
  BY Sizes
<1>2. l \in 0..(n - 1) /\ r.refCounts[l] = 0
  BY <1>1 DEF Unused
<1>3. /\ s.refCounts = [r.refCounts EXCEPT ![l] = 1]
      /\ s.data = r.data /\ s.image = r.image
      /\ s.remaining = r.remaining - 1
  BY <1>2 DEF Taken, Resource
<1>4. s \in Resource(n)
  <2>1. (l + 1) % Size(r) \in 0..(n - 1)
    BY <1>1, <1>2
  <2>2. r.remaining - 1 \in 0..n
    BY DEF Resource
  <2>3. [r.refCounts EXCEPT ![l] = @ + 1] \in [0..(n - 1) -> Nat]
    BY <1>2 DEF Resource
  <2> QED BY <2>1, <2>2, <2>3 DEF Taken, Resource
<1> HIDE DEF s
<1>5. Unused(s) = Unused(r) \ {l}
  <2>1. s.refCounts = [r.refCounts EXCEPT ![l] = 1]
    BY <1>3
  <2>2. DOMAIN s.refCounts = 0..(n - 1)
    BY <1>1, <2>1
  <2> QED BY <1>1, <2>1, <2>2 DEF Unused
<1>6. Cardinality(Unused(s)) = Cardinality(Unused(r)) - 1
  BY <1>1, <1>5, FS_RemoveElement
<1>7. Balanced(s, freed)
  BY <1>1, <1>3, <1>6 DEF Balanced, Resource
<1>8. l \in DOMAIN s.refCounts /\ l \notin Unused(s)
  BY <1>1, <1>2, <1>3, <1>5
<1>9. NoneGone(s, freed)
  BY <1>8 DEF NoneGone
<1> QED BY <1>3, <1>4, <1>7, <1>9 DEF s

(* Data are written to a layer.                                            *)
LEMMA WrittenRight ==
  ASSUME NEW n \in 1..MaxLayers, NEW r \in Resource(n), NEW l \in 0..(n - 1),
         NEW c \in Contents
  PROVE  LET s == [r EXCEPT !.data[l] = c]
         IN  /\ s \in Resource(n) /\ s.refCounts = r.refCounts
             /\ s.remaining = r.remaining /\ s.image = r.image
             /\ s.data = [r.data EXCEPT ![l] = c]
BY DEF Resource

Use(k, l) == [key |-> k, layer |-> l]
Here(v, k, l) == IF v = Use(k, l) THEN 1 ELSE 0

(* One texture changes: how many use a layer afterwards.                   *)
LEMMA UsersChange ==
  ASSUME UsersFinite, DOMAIN tex = Textures,
         NEW t \in Textures, NEW v, tex' = [tex EXCEPT ![t] = v]
  PROVE  \A k \in Keys, l \in 0..(MaxLayers - 1) :
           /\ IsFiniteSet(Users(k, l)') /\ Cardinality(Users(k, l)) \in Nat
           /\ Cardinality(Users(k, l)') =
                Cardinality(Users(k, l)) - Here(tex[t], k, l) + Here(v, k, l)
           /\ Here(tex[t], k, l) \in {0, 1} /\ Here(v, k, l) \in {0, 1}
<1> TAKE k \in Keys, l \in 0..(MaxLayers - 1)
<1> DEFINE less == Users(k, l) \ {t}
<1>1. IsFiniteSet(Users(k, l)) /\ Cardinality(Users(k, l)) \in Nat
  BY FS_CardinalityType DEF UsersFinite
<1>2. /\ IsFiniteSet(less)
      /\ Cardinality(less) = Cardinality(Users(k, l)) - Here(tex[t], k, l)
  <2>1. t \in Users(k, l) <=> Here(tex[t], k, l) = 1
    BY DEF Users, Here, Use
  <2>2. Here(tex[t], k, l) \in {0, 1}
    BY DEF Here
  <2> QED BY <1>1, <2>1, <2>2, FS_RemoveElement
<1>3. Users(k, l)' = IF v = Use(k, l) THEN less \cup {t} ELSE less
  BY DEF Users, Use
<1>4. Here(tex[t], k, l) \in {0, 1} /\ Here(v, k, l) \in {0, 1}
  BY DEF Here
<1>5. CASE v = Use(k, l)
  <2>1. t \notin less
    OBVIOUS
  <2>2. /\ IsFiniteSet(less \cup {t})
        /\ Cardinality(less \cup {t}) = Cardinality(less) + 1
    BY <1>2, <2>1, FS_AddElement
  <2> QED BY <1>1, <1>2, <1>3, <1>5, <1>4, <2>2 DEF Here
<1>6. CASE v # Use(k, l)
  <2>1. Users(k, l)' = less /\ Here(v, k, l) = 0
    BY <1>3, <1>6 DEF Here
  <2>2. Cardinality(less) \in Nat
    BY <1>2, FS_CardinalityType
  <2> QED BY <1>1, <1>2, <1>4, <2>1, <2>2
<1> QED BY <1>5, <1>6

(* What the constructor finds: a resource with the references of the       *)
(* textures that exist, an unused layer, and the data that were there.     *)
Usable(r, k) ==
  \E n \in 1..MaxLayers :
    /\ Counted(r, n, k, stray[k])
    /\ r.remaining > 0 /\ Balanced(r, unyielded[k])
    /\ Has(k) => /\ DOMAIN resources[k].data \subseteq 0..(n - 1)
                 /\ \A l \in DOMAIN resources[k].data : r.data[l] = resources[k].data[l]

(* A new resource has layers to give; nobody uses them yet.                *)
LEMMA NewUsable ==
  ASSUME LayersInv, images < MaxImages, NEW k \in Keys, ~Has(k), NEW i \in NewImages
  PROVE  Usable(NewResource(i), k)
<1> DEFINE r == NewResource(i)
<1>1. Layers \in 1..MaxLayers /\ Layers \in Nat \ {0}
  BY LayersAssumption
<1>2. i \in [address : Addresses, serial : 1..MaxImages]
  <2>1. images \in 0..MaxImages
    BY DEF LayersInv, LayersCounted, LayersTypeOK
  <2>2. images + 1 \in 1..MaxImages
    BY <2>1, LayersAssumption
  <2> QED BY <2>2 DEF NewImages
<1>3. r \in Resource(Layers)
  BY <1>1, <1>2 DEF NewResource, Resource
<1>4. stray[k] = {} /\ unyielded[k] = 0
  BY DEF LayersInv, NothingLeft
<1>5. \A l \in 0..(Layers - 1) : Users(k, l) = {}
  BY LayersAssumption DEF LayersInv, LayersCounted, ReferencesRight, Users, Alive, Uses
<1>6. Counted(r, Layers, k, stray[k])
  <2>1. Cardinality({}) = 0
    BY FS_EmptySet
  <2>2. \A l \in 0..(Layers - 1) : r.refCounts[l] = 0
    BY DEF NewResource
  <2> HIDE DEF r
  <2>3. \A l \in 0..(Layers - 1) : Cardinality(Users(k, l)) = 0
    BY <1>5, <2>1
  <2>4. \A l : (IF l \in stray[k] THEN 1 ELSE 0) = 0
    BY <1>4
  <2>5. stray[k] \subseteq 0..(Layers - 1)
    BY <1>4
  <2>6. \A l \in 0..(Layers - 1) :
          r.refCounts[l] = Cardinality(Users(k, l)) + (IF l \in stray[k] THEN 1 ELSE 0)
    BY <2>2, <2>3, <2>4
  <2> QED BY <1>3, <2>5, <2>6 DEF Counted
<1>7. r.remaining = Layers /\ Unused(r) = 0..(Layers - 1)
  BY DEF NewResource, Unused
<1>8. Balanced(r, unyielded[k])
  BY <1>1, <1>4, <1>7, FS_Interval DEF Balanced
<1> QED BY <1>1, <1>6, <1>7, <1>8 DEF Usable

(* So has one that grew; the layers it had are as they were.               *)
LEMMA GrownUsable ==
  ASSUME LayersInv, images < MaxImages, NEW k \in Keys, Has(k), NEW i \in NewImages,
         resources[k].remaining = 0,
         NEW m \in 1..MaxLayers, m > Size(resources[k])
  PROVE  Usable(Grown(resources[k], m, i), k)
<1> DEFINE r == resources[k]
           s == Grown(r, m, i)
<1>1. KeyRight(k) /\ images \in 0..MaxImages /\ unyielded[k] \in Nat
  BY LayersInvByKey DEF CountersRight
<1>2. PICK n \in 1..MaxLayers : Counted(r, n, k, stray[k])
  BY <1>1 DEF KeyRight, ResourceRight
<1>3. /\ r \in Resource(n) /\ Size(r) = n /\ n \in Nat \ {0} /\ m \in Nat \ {0}
      /\ DOMAIN r.refCounts = 0..(n - 1) /\ DOMAIN r.data = 0..(n - 1)
      /\ IsFiniteSet(Unused(r)) /\ Cardinality(Unused(r)) \in Nat
      /\ Unused(r) \subseteq 0..(n - 1) /\ n < m
  BY <1>2, Sizes, LayersAssumption DEF Counted
<1>4. Balanced(r, unyielded[k])
  BY <1>1 DEF KeyRight, ResourceRight
<1>5. /\ s.refCounts = [l \in 0..(m - 1) |-> IF l < n THEN r.refCounts[l] ELSE 0]
      /\ s.data = [l \in 0..(m - 1) |-> IF l < n THEN r.data[l] ELSE None]
      /\ s.remaining = r.remaining + (m - n) /\ s.image = i
  BY <1>3 DEF Grown, Resource
<1>6. s \in Resource(m)
  <2>1. i \in [address : Addresses, serial : 1..MaxImages]
    <3>1. images + 1 \in 1..MaxImages
      BY <1>1, LayersAssumption
    <3> QED BY <3>1 DEF NewImages
  <2>2. [l \in 0..(m - 1) |-> IF l < Size(r) THEN r.refCounts[l] ELSE 0]
          \in [0..(m - 1) -> Nat]
    BY <1>3 DEF Resource
  <2>3. [l \in 0..(m - 1) |-> IF l < Size(r) THEN r.data[l] ELSE None]
          \in [0..(m - 1) -> Contents \cup {None}]
    BY <1>3 DEF Resource
  <2>4. r.remaining + (m - Size(r)) \in 0..m /\ r.current \in 0..(m - 1)
    BY <1>3 DEF Resource
  <2> QED BY <1>3, <2>1, <2>2, <2>3, <2>4 DEF Grown, Resource
<1> HIDE DEF s
<1>7. Counted(s, m, k, stray[k])
  <2>1. stray[k] \subseteq 0..(n - 1) /\ stray[k] \subseteq 0..(m - 1)
    BY <1>2, <1>3 DEF Counted
  <2>2. ASSUME NEW l \in 0..(n - 1)
        PROVE  s.refCounts[l] =
                 Cardinality(Users(k, l)) + (IF l \in stray[k] THEN 1 ELSE 0)
    BY <1>2, <1>3, <1>5 DEF Counted
  <2>3. ASSUME NEW l \in n..(m - 1)
        PROVE  s.refCounts[l] =
                 Cardinality(Users(k, l)) + (IF l \in stray[k] THEN 1 ELSE 0)
    <3>1. l \notin stray[k] /\ s.refCounts[l] = 0
      BY <1>3, <1>5, <2>1
    <3>2. Users(k, l) = {}
      <4>1. \A t \in Textures : tex[t] # None =>
              Has(tex[t].key) /\ tex[t].layer \in DOMAIN resources[tex[t].key].refCounts
        BY DEF LayersInv, LayersCounted, ReferencesRight, Alive, LayerOf, ResourceOf
      <4>2. [key |-> k, layer |-> l] # None
        BY <1>3, LayersAssumption DEF Uses
      <4> QED BY <1>3, <4>1, <4>2 DEF Users
    <3> QED BY <3>1, <3>2, FS_EmptySet
  <2>4. \A l \in 0..(m - 1) : l \in 0..(n - 1) \/ l \in n..(m - 1)
    BY <1>3
  <2> QED BY <1>6, <2>1, <2>2, <2>3, <2>4 DEF Counted
<1>8. Balanced(s, unyielded[k])
  <2>1. Unused(s) = Unused(r) \cup n..(m - 1)
    BY <1>3, <1>5 DEF Unused
  <2>2. Unused(r) \cap n..(m - 1) = {}
    BY <1>3
  <2>3. IsFiniteSet(n..(m - 1)) /\ Cardinality(n..(m - 1)) = m - n
    <3>1. n \in Int /\ m - 1 \in Int /\ ~(n > m - 1) /\ (m - 1) - n + 1 = m - n
      BY <1>3
    <3> QED BY <3>1, FS_Interval
  <2>4. Cardinality(Unused(s)) = Cardinality(Unused(r)) + (m - n)
    <3>1. Cardinality(Unused(r) \cup n..(m - 1)) =
            Cardinality(Unused(r)) + Cardinality(n..(m - 1)) - Cardinality({})
      BY <1>3, <2>2, <2>3, FS_Union
    <3> QED BY <1>3, <2>1, <2>3, <3>1, FS_EmptySet
  <2> QED BY <1>1, <1>3, <1>4, <1>5, <2>4 DEF Balanced, Resource
<1>9. s.remaining > 0
  BY <1>3, <1>5
<1>10. /\ DOMAIN r.data \subseteq 0..(m - 1)
       /\ \A l \in DOMAIN r.data : s.data[l] = r.data[l]
  BY <1>3, <1>5
<1> QED BY <1>7, <1>8, <1>9, <1>10 DEF Usable, s

(* Whatever a constructor finds or makes, it can take a layer from it.     *)
LEMMA PreparedUsable ==
  ASSUME LayersInv, NEW k \in Keys, NEW r \in Prepared(k),
         IsNew(r, k) => images < MaxImages
  PROVE  Usable(r, k)
<1>1. CASE ~Has(k)
  BY <1>1, NewUsable DEF Prepared, IsNew
<1>2. CASE Has(k) /\ resources[k].remaining = 0
  <2>1. PICK n \in 1..MaxLayers : resources[k] \in Resource(n)
    BY <1>2 DEF LayersInv, LayersCounted, LayersTypeOK
  <2>2. Size(resources[k]) = n /\ n \in Nat \ {0}
    BY <2>1, Sizes
  <2>3. PICK m \in {2 * n, n + 1} \cap 1..MaxLayers, i \in NewImages :
          r = Grown(resources[k], m, i)
    BY <1>2, <2>2 DEF Prepared
  <2>4. m \in 1..MaxLayers /\ m > Size(resources[k])
    BY <2>2, <2>3
  <2>5. r.image = i
    BY <2>1, <2>3 DEF Grown, Resource
  <2>6. i # resources[k].image
    BY <1>2 DEF NewImages
  <2> QED BY <1>2, <2>3, <2>4, <2>5, <2>6, GrownUsable DEF IsNew
<1>3. CASE Has(k) /\ resources[k].remaining # 0
  <2>1. r = resources[k] /\ KeyRight(k)
    BY <1>3, LayersInvByKey DEF Prepared
  <2>2. PICK n \in 1..MaxLayers : Counted(r, n, k, stray[k])
    BY <1>3, <2>1 DEF KeyRight, ResourceRight
  <2>3. r.remaining > 0 /\ DOMAIN r.data = 0..(n - 1)
    BY <1>3, <2>1, <2>2 DEF Counted, Resource
  <2> QED BY <1>3, <2>1, <2>2, <2>3 DEF KeyRight, ResourceRight, Usable
<1> QED BY <1>1, <1>2, <1>3

(* The layer that it takes is unused.                                      *)
LEMMA UsableUnused ==
  ASSUME NEW k, NEW n \in 1..MaxLayers, NEW r \in Resource(n), r.remaining > 0,
         NEW freed \in Nat, Balanced(r, freed)
  PROVE  FirstFree(r) \in Unused(r)
<1>1. Cardinality(Unused(r)) > 0
  BY DEF Balanced, Resource
<1>2. Unused(r) # {}
  BY <1>1, FS_EmptySet
<1> QED BY <1>2, FirstFreeRight

-----------------------------------------------------------------------------
(* The operations preserve the invariant.                                  *)

(* What nobody touches stays right.                                        *)
LEMMA KeyUntouched ==
  ASSUME LayersInv, NEW k \in Keys, resources'[k] = resources[k],
         stray'[k] = stray[k], unyielded'[k] = unyielded[k],
         \A l \in 0..(MaxLayers - 1) : Users(k, l)' = Users(k, l)
  PROVE  KeyRight(k)'
<1>1. KeyRight(k)
  BY LayersInvByKey
<1>2. CASE ~Has(k)
  BY <1>1, <1>2 DEF KeyRight, Has
<1>3. CASE Has(k)
  <2>1. PICK n \in 1..MaxLayers : Counted(resources[k], n, k, stray[k])
    BY <1>1, <1>3 DEF KeyRight, ResourceRight
  <2>2. 0..(n - 1) \subseteq 0..(MaxLayers - 1)
    BY LayersAssumption
  <2>3. Counted(resources[k], n, k, stray[k])'
    BY <2>1, <2>2 DEF Counted
  <2>4. (Balanced(resources[k], unyielded[k]) /\ NoneGone(resources[k], unyielded[k]))'
    BY <1>1, <1>3 DEF KeyRight, ResourceRight, Balanced, NoneGone
  <2> QED BY <1>3, <2>3, <2>4 DEF KeyRight, ResourceRight, Has
<1> QED BY <1>2, <1>3

(* LayersInvByKey, in the next state.                                      *)
LEMMA LayersInvNext ==
  ASSUME (TexturesRight /\ CountersRight /\ \A k \in Keys : KeyRight(k))'
  PROVE  LayersInv'
BY LayersInvByKey, PTL

(* A texture made from data has the only reference to its layer.           *)
LEMMA CreateKeeps ==
  ASSUME LayersInv, NEW t \in Textures, NEW k \in Keys, NEW c \in Contents,
         Create(t, k, c)
  PROVE  LayersInv'
<1>1. TexturesRight /\ CountersRight /\ \A j \in Keys : KeyRight(j)
  BY LayersInvByKey
<1>2. PICK r \in Prepared(k) :
        /\ IsNew(r, k) => images < MaxImages
        /\ images' = IF IsNew(r, k) THEN images + 1 ELSE images
        /\ \/ /\ resources' = [resources EXCEPT ![k] =
                                 [Taken(r, FirstFree(r)) EXCEPT !.data[FirstFree(r)] = c]]
              /\ tex' = [tex EXCEPT ![t] = [key |-> k, layer |-> FirstFree(r)]]
              /\ stray' = stray
           \/ /\ resources' = [resources EXCEPT ![k] = Taken(r, FirstFree(r))]
              /\ stray' = [stray EXCEPT ![k] = @ \cup {FirstFree(r)}]
              /\ tex' = tex
  BY DEF Create
<1>3. PICK n \in 1..MaxLayers :
        /\ Counted(r, n, k, stray[k])
        /\ r.remaining > 0 /\ Balanced(r, unyielded[k])
        /\ Has(k) => DOMAIN resources[k].data \subseteq 0..(n - 1)
  BY <1>2, PreparedUsable DEF Usable
<1> DEFINE l == FirstFree(r)
           s == Taken(r, l)
<1>4. /\ unyielded[k] \in Nat /\ tex[t] = None /\ unyielded' = unyielded
      /\ tex \in [Textures -> Uses \cup {None}] /\ None \notin Uses
      /\ DOMAIN resources = Keys
  BY <1>1, LayersAssumption DEF CountersRight, TexturesRight, Create, Alive
<1>5. /\ r \in Resource(n) /\ l \in Unused(r) /\ DOMAIN r.refCounts = 0..(n - 1)
      /\ l \in 0..(n - 1) /\ r.refCounts[l] = 0 /\ n \in Nat \ {0}
      /\ 0..(n - 1) \subseteq 0..(MaxLayers - 1)
  <2>1. r \in Resource(n)
    BY <1>3 DEF Counted
  <2>2. l \in Unused(r)
    BY <1>3, <1>4, <2>1, UsableUnused
  <2>3. DOMAIN r.refCounts = 0..(n - 1) /\ n \in Nat \ {0}
    BY <2>1, Sizes
  <2> QED BY <2>1, <2>2, <2>3, LayersAssumption DEF Unused
<1>6. /\ s \in Resource(n) /\ s.refCounts = [r.refCounts EXCEPT ![l] = 1]
      /\ Balanced(s, unyielded[k]) /\ NoneGone(s, unyielded[k])
  BY <1>3, <1>4, <1>5, TakenRight
<1> HIDE DEF l, s
<1>7. [key |-> k, layer |-> l] \in Uses
  BY <1>5 DEF Uses
<1>8. /\ Has(k)' /\ resources'[k] \in Resource(n)
      /\ resources'[k].refCounts = [r.refCounts EXCEPT ![l] = 1]
      /\ Balanced(resources[k], unyielded[k])'
      /\ NoneGone(resources[k], unyielded[k])'
      /\ \A j \in Keys \ {k} : resources'[j] = resources[j]
      /\ DOMAIN resources' = Keys
  <2>1. CASE resources' = [resources EXCEPT ![k] = s]
    BY <1>4, <1>6, <2>1, LayersAssumption DEF Has, Balanced, NoneGone
  <2>2. CASE resources' = [resources EXCEPT ![k] = [s EXCEPT !.data[l] = c]]
    <3>1. /\ resources'[k] \in Resource(n)
          /\ resources'[k].refCounts = s.refCounts
          /\ resources'[k].remaining = s.remaining
      BY <1>4, <1>5, <1>6, <2>2, WrittenRight
    <3>2. Unused(resources'[k]) = Unused(s)
      BY <3>1 DEF Unused
    <3> QED BY <1>4, <1>6, <2>2, <3>1, <3>2, LayersAssumption
            DEF Has, Balanced, NoneGone, Unused
  <2> QED BY <1>2, <2>1, <2>2 DEF l, s
<1>9. ASSUME NEW u \in Textures, Alive(u)
      PROVE  /\ resources'[tex[u].key] # None
             /\ tex[u].layer \in DOMAIN resources'[tex[u].key].refCounts
  <2>1. Has(tex[u].key) /\ tex[u].layer \in DOMAIN resources[tex[u].key].refCounts
        /\ tex[u].key \in Keys
    BY <1>1, <1>4, <1>9 DEF TexturesRight, Alive, LayerOf, ResourceOf, Uses
  <2>2. CASE tex[u].key # k
    BY <1>8, <2>1, <2>2 DEF Has
  <2>3. CASE tex[u].key = k
    <3>1. PICK m \in 1..MaxLayers : resources[k] \in Resource(m)
      BY <2>1, <2>3 DEF LayersInv, LayersCounted, LayersTypeOK
    <3>2. DOMAIN resources[k].refCounts = DOMAIN resources[k].data
      BY <3>1, Sizes
    <3>3. tex[u].layer \in 0..(n - 1) /\ resources'[k] # None
      BY <1>3, <1>8, <2>1, <2>3, <3>2 DEF Has
    <3>4. DOMAIN resources'[k].refCounts = 0..(n - 1)
      BY <1>5, <1>8
    <3> QED BY <2>3, <3>3, <3>4
  <2> QED BY <2>2, <2>3
<1>10. CASE stray' = stray /\ tex' = [tex EXCEPT ![t] = [key |-> k, layer |-> l]]
  <2>1. \A j \in Keys, m \in 0..(MaxLayers - 1) :
          /\ IsFiniteSet(Users(j, m)') /\ Cardinality(Users(j, m)) \in Nat
          /\ Cardinality(Users(j, m)') =
               Cardinality(Users(j, m)) + (IF j = k /\ m = l THEN 1 ELSE 0)
    <3> TAKE j \in Keys, m \in 0..(MaxLayers - 1)
    <3>1. /\ IsFiniteSet(Users(j, m)') /\ Cardinality(Users(j, m)) \in Nat
          /\ Cardinality(Users(j, m)') = Cardinality(Users(j, m))
               - Here(tex[t], j, m) + Here(Use(k, l), j, m)
      <4>1. tex' = [tex EXCEPT ![t] = Use(k, l)]
        BY <1>10 DEF Use
      <4>2. UsersFinite /\ DOMAIN tex = Textures
        BY <1>1, <1>4 DEF TexturesRight
      <4> DEFINE v == Use(k, l)
      <4> HIDE DEF v
      <4>3. /\ IsFiniteSet(Users(j, m)') /\ Cardinality(Users(j, m)) \in Nat
            /\ Cardinality(Users(j, m)') =
                 Cardinality(Users(j, m)) - Here(tex[t], j, m) + Here(v, j, m)
        BY <4>1, <4>2, UsersChange DEF v
      <4> QED BY <4>3 DEF v
    <3>2. Here(tex[t], j, m) = 0
      BY <1>4, <1>5 DEF Here, Use, Uses
    <3>3. Here(Use(k, l), j, m) = IF j = k /\ m = l THEN 1 ELSE 0
      BY DEF Here, Use
    <3> QED BY <3>1, <3>2, <3>3
  <2>2. TexturesRight'
    <3>1. tex' \in [Textures -> Uses \cup {None}]
      BY <1>4, <1>7, <1>10
    <3>2. ASSUME NEW u \in Textures, Alive(u)'
          PROVE (Has(tex[u].key) /\ LayerOf(u) \in DOMAIN ResourceOf(u).refCounts)'
      <4>1. CASE u = t
        BY <1>4, <1>5, <1>8, <1>10, <4>1 DEF LayerOf, ResourceOf, Has
      <4>2. CASE u # t
        BY <1>4, <1>9, <1>10, <3>2, <4>2 DEF LayerOf, ResourceOf, Alive, Has
      <4> QED BY <4>1, <4>2
    <3> QED BY <2>1, <3>1, <3>2 DEF TexturesRight, UsersFinite
  <2>3. KeyRight(k)'
    <3>1. Counted(resources[k], n, k, stray[k])'
      BY <1>3, <1>5, <1>8, <1>10, <2>1 DEF Counted
    <3> QED BY <1>8, <3>1 DEF KeyRight, ResourceRight
  <2>4. \A j \in Keys \ {k} : KeyRight(j)'
    <3> TAKE j \in Keys \ {k}
    <3>1. \A m \in 0..(MaxLayers - 1) : Users(j, m)' = Users(j, m)
      BY <1>4, <1>10 DEF Users, Uses
    <3> QED BY <1>4, <1>8, <1>10, <3>1, KeyUntouched
  <2>5. CountersRight'
    BY <1>1, <1>2, <1>4, <1>8, <1>10, LayersAssumption DEF CountersRight
  <2> QED BY <2>2, <2>3, <2>4, <2>5, LayersInvNext
<1>11. CASE stray' = [stray EXCEPT ![k] = @ \cup {l}] /\ tex' = tex
  <2>1. \A j, m : Users(j, m)' = Users(j, m)
    BY <1>11 DEF Users
  <2>2. TexturesRight'
    BY <1>1, <1>9, <1>11, <2>1
       DEF TexturesRight, UsersFinite, LayerOf, ResourceOf, Alive, Has
  <2>3. KeyRight(k)'
    <3>1. stray' \in [Keys -> SUBSET (0..(MaxLayers - 1))]
          /\ stray'[k] = stray[k] \cup {l}
      BY <1>1, <1>5, <1>11 DEF CountersRight
    <3>2. \A m \in 0..(MaxLayers - 1) : Cardinality(Users(k, m)) \in Nat
      BY <1>1, FS_CardinalityType DEF TexturesRight, UsersFinite
    <3>3. Counted(resources[k], n, k, stray[k])'
      BY <1>3, <1>5, <1>8, <2>1, <3>1, <3>2 DEF Counted
    <3> QED BY <1>8, <3>3 DEF KeyRight, ResourceRight
  <2>4. \A j \in Keys \ {k} : KeyRight(j)'
    BY <1>1, <1>4, <1>8, <1>11, <2>1, KeyUntouched DEF CountersRight
  <2>5. CountersRight'
    BY <1>1, <1>2, <1>4, <1>5, <1>8, <1>11, LayersAssumption DEF CountersRight
  <2> QED BY <2>2, <2>3, <2>4, <2>5, LayersInvNext
<1> QED BY <1>2, <1>10, <1>11 DEF l

(* What a texture uses exists and has at least its reference.              *)
LEMMA UsedLayer ==
  ASSUME LayersInv, NEW t \in Textures, Alive(t)
  PROVE  \E n \in 1..MaxLayers :
           /\ tex[t] \in Uses /\ tex[t] # None /\ Has(tex[t].key) /\ tex[t].key \in Keys
           /\ tex[t] = [key |-> tex[t].key, layer |-> tex[t].layer]
           /\ tex[t].layer \in 0..(n - 1)
           /\ Counted(ResourceOf(t), n, tex[t].key, stray[tex[t].key])
           /\ ResourceOf(t).refCounts[tex[t].layer] > 0
<1> DEFINE k == tex[t].key  l == tex[t].layer  r == resources[k]
<1>1. TexturesRight /\ CountersRight /\ \A j \in Keys : KeyRight(j)
  BY LayersInvByKey
<1>2. tex[t] \in Uses /\ tex[t] # None /\ k \in Keys /\ l \in 0..(MaxLayers - 1)
      /\ tex[t] = [key |-> k, layer |-> l]
  BY <1>1 DEF TexturesRight, Alive, Uses
<1>3. Has(k) /\ l \in DOMAIN r.refCounts
  BY <1>1 DEF TexturesRight, LayerOf, ResourceOf
<1>4. PICK n \in 1..MaxLayers : Counted(r, n, k, stray[k])
  BY <1>1, <1>2, <1>3 DEF KeyRight, ResourceRight
<1>5. l \in 0..(n - 1)
  BY <1>3, <1>4 DEF Counted, Resource
<1>6. IsFiniteSet(Users(k, l)) /\ t \in Users(k, l)
  BY <1>1, <1>2 DEF TexturesRight, UsersFinite, Users
<1>7. Cardinality(Users(k, l)) \in Nat /\ Cardinality(Users(k, l)) # 0
  BY <1>6, FS_EmptySet, FS_CardinalityType
<1>8. r.refCounts[l] > 0
  BY <1>4, <1>5, <1>7 DEF Counted
<1> QED BY <1>2, <1>3, <1>4, <1>5, <1>8 DEF ResourceOf

(* A layer in use gains a reference.                                       *)
LEMMA ReferencedRight ==
  ASSUME NEW n \in 1..MaxLayers, NEW r \in Resource(n), NEW l \in 0..(n - 1),
         r.refCounts[l] > 0
  PROVE  LET s == Referenced(r, l)
         IN  /\ s \in Resource(n) /\ s.data = r.data /\ s.image = r.image
             /\ s.remaining = r.remaining
             /\ s.refCounts = [r.refCounts EXCEPT ![l] = @ + 1]
             /\ Unused(s) = Unused(r)
<1> DEFINE s == Referenced(r, l)
<1>1. [r.refCounts EXCEPT ![l] = @ + 1] \in [0..(n - 1) -> Nat]
  BY DEF Resource
<1>2. /\ s \in Resource(n) /\ s.data = r.data /\ s.image = r.image
      /\ s.remaining = r.remaining
      /\ s.refCounts = [r.refCounts EXCEPT ![l] = @ + 1]
  BY <1>1 DEF Referenced, Resource
<1> HIDE DEF s
<1>3. Unused(s) = Unused(r)
  BY <1>2 DEF Unused, Resource
<1> QED BY <1>2, <1>3 DEF s

(* A layer loses a reference, maybe its last.                              *)
LEMMA ReleasedRight ==
  ASSUME NEW n \in 1..MaxLayers, NEW r \in Resource(n), NEW l \in 0..(n - 1),
         r.refCounts[l] > 0
  PROVE  LET s == Released(r, l)
         IN  /\ s \in Resource(n) /\ s.data = r.data /\ s.image = r.image
             /\ s.remaining = r.remaining
             /\ s.refCounts = [r.refCounts EXCEPT ![l] = @ - 1]
             /\ s.refCounts[l] > 0 => Unused(s) = Unused(r)
             /\ s.refCounts[l] = 0 =>
                  /\ Unused(s) = Unused(r) \cup {l}
                  /\ Cardinality(Unused(s)) = Cardinality(Unused(r)) + 1
<1> DEFINE s == Released(r, l)
<1>1. [r.refCounts EXCEPT ![l] = @ - 1] \in [0..(n - 1) -> Nat]
  BY DEF Resource
<1>2. /\ s \in Resource(n) /\ s.data = r.data /\ s.image = r.image
      /\ s.remaining = r.remaining
      /\ s.refCounts = [r.refCounts EXCEPT ![l] = @ - 1]
  BY <1>1 DEF Released, Resource
<1> HIDE DEF s
<1>3. ASSUME s.refCounts[l] > 0 PROVE Unused(s) = Unused(r)
  BY <1>2, <1>3 DEF Unused, Resource
<1>4. ASSUME s.refCounts[l] = 0
      PROVE  /\ Unused(s) = Unused(r) \cup {l}
             /\ Cardinality(Unused(s)) = Cardinality(Unused(r)) + 1
  <2>1. Unused(s) = Unused(r) \cup {l} /\ l \notin Unused(r)
    BY <1>2, <1>4 DEF Unused, Resource
  <2>2. IsFiniteSet(Unused(r))
    BY Sizes
  <2> QED BY <2>1, <2>2, FS_AddElement
<1> QED BY <1>2, <1>3, <1>4 DEF s

(* A reference to what u uses.                                             *)
Gained(u) == [resources EXCEPT ![tex[u].key] = Referenced(@, tex[u].layer)]

(* It is the only thing that changes in the resources.                     *)
LEMMA GainedRight ==
  ASSUME LayersInv, NEW u \in Textures, Alive(u), NEW j \in Keys, Has(j),
         NEW n \in 1..MaxLayers, resources[j] \in Resource(n)
  PROVE  /\ Gained(u)[j] \in Resource(n) /\ Gained(u)[j].data = resources[j].data
         /\ Gained(u)[j].image = resources[j].image
         /\ Gained(u)[j].remaining = resources[j].remaining
         /\ \A m \in 0..(n - 1) : Gained(u)[j].refCounts[m] =
              resources[j].refCounts[m] + Here(tex[u], j, m)
         /\ Unused(Gained(u)[j]) = Unused(resources[j])
<1> DEFINE k == tex[u].key  l == tex[u].layer
<1>1. DOMAIN resources = Keys
  BY DEF LayersInv
<1>2. PICK p \in 1..MaxLayers :
        /\ tex[u] = [key |-> k, layer |-> l] /\ k \in Keys
        /\ l \in 0..(p - 1) /\ Counted(resources[k], p, k, stray[k])
        /\ resources[k].refCounts[l] > 0
  BY UsedLayer DEF ResourceOf
<1>3. \A m : Here(tex[u], j, m) = IF j = k /\ m = l THEN 1 ELSE 0
  BY <1>2 DEF Here, Use
<1>4. CASE j = k
  <2>1. p = n
    <3>1. DOMAIN resources[k].refCounts = 0..(n - 1)
          /\ DOMAIN resources[k].refCounts = 0..(p - 1)
      BY <1>2, <1>4 DEF Counted, Resource
    <3>2. p \in Nat \ {0} /\ n \in Nat \ {0}
      BY LayersAssumption
    <3>3. n - 1 \in 0..(p - 1) /\ p - 1 \in 0..(n - 1)
      BY <3>1, <3>2
    <3> QED BY <3>2, <3>3
  <2>2. Gained(u)[j] = Referenced(resources[j], l)
    BY <1>1, <1>4 DEF Gained
  <2>3. /\ Gained(u)[j] \in Resource(n) /\ Gained(u)[j].data = resources[j].data
        /\ Gained(u)[j].image = resources[j].image
        /\ Gained(u)[j].remaining = resources[j].remaining
        /\ Gained(u)[j].refCounts = [resources[j].refCounts EXCEPT ![l] = @ + 1]
        /\ Unused(Gained(u)[j]) = Unused(resources[j])
    <3>1. l \in 0..(n - 1) /\ resources[j].refCounts[l] > 0
      BY <1>2, <1>4, <2>1
    <3> HIDE DEF l
    <3> QED BY <2>2, <3>1, ReferencedRight
  <2>4. DOMAIN resources[j].refCounts = 0..(n - 1)
        /\ \A m \in 0..(n - 1) : resources[j].refCounts[m] \in Nat
    BY DEF Resource
  <2> QED BY <1>3, <1>4, <2>3, <2>4
<1>5. CASE j # k
  <2>1. Gained(u)[j] = resources[j]
    BY <1>1, <1>5 DEF Gained
  <2>2. \A m \in 0..(n - 1) : resources[j].refCounts[m] \in Nat
    BY DEF Resource
  <2> QED BY <1>3, <1>5, <2>1, <2>2
<1> QED BY <1>4, <1>5

(* The textures still use layers that exist.                               *)
LEMMA StillUsed ==
  ASSUME LayersInv, NEW t \in Textures, NEW v \in Uses \cup {None},
         tex' = [tex EXCEPT ![t] = v],
         v # None => /\ resources'[v.key] # None
                     /\ v.layer \in DOMAIN resources'[v.key].refCounts,
         \A u \in Textures \ {t} : Alive(u) =>
           /\ resources'[tex[u].key] # None
           /\ tex[u].layer \in DOMAIN resources'[tex[u].key].refCounts
  PROVE  TexturesRight'
<1>1. TexturesRight
  BY LayersInvByKey
<1>2. tex' \in [Textures -> Uses \cup {None}]
  BY <1>1 DEF TexturesRight
<1>3. ASSUME NEW u \in Textures, Alive(u)'
      PROVE  (Has(tex[u].key) /\ LayerOf(u) \in DOMAIN ResourceOf(u).refCounts)'
  <2>1. tex'[u] = IF u = t THEN v ELSE tex[u]
    BY <1>1 DEF TexturesRight
  <2> QED BY <1>3, <2>1 DEF Alive, Has, LayerOf, ResourceOf
<1>4. UsersFinite'
  <2>1. UsersFinite /\ DOMAIN tex = Textures
    BY <1>1 DEF TexturesRight
  <2> QED BY <2>1, UsersChange DEF UsersFinite
<1> QED BY <1>2, <1>3, <1>4 DEF TexturesRight

(* A copy is one more user of the layer.                                   *)
LEMMA CopyKeeps ==
  ASSUME LayersInv, NEW t \in Textures, NEW u \in Textures, Copy(t, u)
  PROVE  LayersInv'
<1> DEFINE v == tex[u]
<1>1. TexturesRight /\ CountersRight /\ \A j \in Keys : KeyRight(j)
  BY LayersInvByKey
<1>2. /\ tex[t] = None /\ Alive(u) /\ tex' = [tex EXCEPT ![t] = v]
      /\ resources' = Gained(u)
      /\ UNCHANGED <<images, stray, unyielded>>
  BY DEF Copy, Alive, Gained, LayerOf
<1>3. /\ v \in Uses /\ v # None /\ Has(v.key) /\ v.key \in Keys
      /\ v = Use(v.key, v.layer)
  BY <1>2, UsedLayer DEF Use
<1>4. \A j \in Keys : Has(j) <=> resources'[j] # None
  <2> TAKE j \in Keys
  <2>1. ASSUME Has(j) PROVE resources'[j] # None
    <3>1. PICK n \in 1..MaxLayers : resources[j] \in Resource(n)
      BY <2>1 DEF LayersInv, LayersCounted, LayersTypeOK
    <3> QED BY <1>2, <2>1, <3>1, GainedRight, LayersAssumption
  <2>2. ASSUME ~Has(j) PROVE resources'[j] = None
    <3>1. j # v.key
      BY <1>3, <2>2
    <3> QED BY <1>1, <1>2, <2>2, <3>1 DEF Gained, Has, CountersRight
  <2> QED BY <2>1, <2>2
<1>5. ASSUME NEW j \in Keys, Has(j), NEW n \in 1..MaxLayers,
             Counted(resources[j], n, j, stray[j])
      PROVE  /\ resources'[j] \in Resource(n)
             /\ Counted(resources[j], n, j, stray[j])'
             /\ resources'[j].remaining = resources[j].remaining
             /\ Unused(resources'[j]) = Unused(resources[j])
             /\ DOMAIN resources'[j].refCounts = DOMAIN resources[j].refCounts
  <2>1. resources[j] \in Resource(n)
    BY <1>5 DEF Counted
  <2>2. /\ resources'[j] \in Resource(n)
        /\ resources'[j].remaining = resources[j].remaining
        /\ Unused(resources'[j]) = Unused(resources[j])
        /\ \A m \in 0..(n - 1) : resources'[j].refCounts[m] =
              resources[j].refCounts[m] + Here(v, j, m)
    BY <1>2, <1>5, <2>1, GainedRight
  <2>3. \A m \in 0..(n - 1) :
          /\ Cardinality(Users(j, m)) \in Nat
          /\ Cardinality(Users(j, m)') = Cardinality(Users(j, m)) + Here(v, j, m)
          /\ Here(v, j, m) \in {0, 1}
    <3> TAKE m \in 0..(n - 1)
    <3>1. m \in 0..(MaxLayers - 1)
      BY LayersAssumption
    <3>2. UsersFinite /\ DOMAIN tex = Textures
      BY <1>1 DEF TexturesRight
    <3>3. Here(tex[t], j, m) = 0
      BY <1>2, <3>1, <1>5, LayersAssumption DEF Here, Use, Uses
    <3>4. /\ Cardinality(Users(j, m)) \in Nat
          /\ Cardinality(Users(j, m)') =
               Cardinality(Users(j, m)) - Here(tex[t], j, m) + Here(v, j, m)
          /\ Here(v, j, m) \in {0, 1}
      <4> HIDE DEF v
      <4> QED BY <1>2, <1>5, <3>1, <3>2, UsersChange
    <3> QED BY <3>3, <3>4
  <2>4. Counted(resources[j], n, j, stray[j])'
    BY <1>2, <1>5, <2>2, <2>3 DEF Counted
  <2>5. DOMAIN resources'[j].refCounts = DOMAIN resources[j].refCounts
    BY <2>1, <2>2 DEF Resource
  <2> QED BY <2>2, <2>4, <2>5
<1>6. \A j \in Keys : KeyRight(j)'
  <2> TAKE j \in Keys
  <2>1. CASE Has(j)
    <3>1. PICK n \in 1..MaxLayers : Counted(resources[j], n, j, stray[j])
      BY <1>1, <2>1 DEF KeyRight, ResourceRight
    <3>2. Balanced(resources[j], unyielded[j]) /\ NoneGone(resources[j], unyielded[j])
      BY <1>1, <2>1 DEF KeyRight, ResourceRight
    <3>3. (Balanced(resources[j], unyielded[j]) /\ NoneGone(resources[j], unyielded[j]))'
      BY <1>2, <1>5, <2>1, <3>1, <3>2 DEF Balanced, NoneGone
    <3> QED BY <1>4, <1>5, <2>1, <3>1, <3>3 DEF KeyRight, ResourceRight, Has
  <2>2. CASE ~Has(j)
    BY <1>1, <1>2, <1>4, <2>2 DEF KeyRight, Has
  <2> QED BY <2>1, <2>2
<1>7. \A j \in Keys : Has(j) =>
        DOMAIN resources'[j].refCounts = DOMAIN resources[j].refCounts
  BY <1>1, <1>5 DEF KeyRight, ResourceRight
<1>8. TexturesRight'
  <2>1. \A w \in Textures : Alive(w) =>
          /\ resources'[tex[w].key] # None
          /\ tex[w].layer \in DOMAIN resources'[tex[w].key].refCounts
    BY <1>1, <1>4, <1>7 DEF TexturesRight, LayerOf, ResourceOf, Alive, Uses
  <2> QED BY <1>2, <1>3, <2>1, StillUsed
<1>9. CountersRight'
  BY <1>1, <1>2 DEF CountersRight, Gained
<1> QED BY <1>6, <1>8, <1>9, LayersInvNext

(* A user moves from a layer to another, or stays where it is.             *)
LEMMA AssignKeeps ==
  ASSUME LayersInv, NEW t \in Textures, NEW u \in Textures, Assign(t, u)
  PROVE  LayersInv'
<1> DEFINE v == tex[u]
           w == tex[t]
           freed == resources'[w.key].refCounts[w.layer] = 0
<1>1. TexturesRight /\ CountersRight /\ \A j \in Keys : KeyRight(j)
  BY LayersInvByKey
<1>2. /\ Alive(t) /\ Alive(u) /\ tex' = [tex EXCEPT ![t] = v]
      /\ resources' = [Gained(u) EXCEPT ![w.key] = Released(@, w.layer)]
      /\ unyielded' = IF freed THEN [unyielded EXCEPT ![w.key] = @ + 1]
                               ELSE unyielded
      /\ UNCHANGED <<images, stray>>
  BY DEF Assign, Assigned, Gained, LayerOf
<1>3. /\ v \in Uses /\ v # None /\ Has(v.key) /\ v.key \in Keys
      /\ w \in Uses /\ w # None /\ Has(w.key) /\ w.key \in Keys
      /\ w = Use(w.key, w.layer)
  BY <1>2, UsedLayer DEF Use
<1>4. DOMAIN Gained(u) = Keys /\ DOMAIN resources' = Keys
  BY <1>1, <1>2 DEF Gained, CountersRight
<1>5. ASSUME NEW j \in Keys, Has(j), NEW n \in 1..MaxLayers,
             Counted(resources[j], n, j, stray[j])
      PROVE  /\ resources'[j] \in Resource(n)
             /\ resources'[j].remaining = resources[j].remaining
             /\ \A m \in 0..(n - 1) : resources'[j].refCounts[m] =
                  resources[j].refCounts[m] + Here(v, j, m) - Here(w, j, m)
             /\ IF j = w.key /\ freed
                  THEN Cardinality(Unused(resources'[j])) =
                         Cardinality(Unused(resources[j])) + 1
                  ELSE Unused(resources'[j]) = Unused(resources[j])
             /\ DOMAIN resources'[j].refCounts = DOMAIN resources[j].refCounts
  <2>1. resources[j] \in Resource(n) /\ DOMAIN resources[j].refCounts = 0..(n - 1)
    BY <1>5, Sizes DEF Counted
  <2> DEFINE g == Gained(u)[j]
  <2>2. /\ g \in Resource(n) /\ g.remaining = resources[j].remaining
        /\ \A m \in 0..(n - 1) :
             g.refCounts[m] = resources[j].refCounts[m] + Here(v, j, m)
        /\ Unused(g) = Unused(resources[j]) /\ DOMAIN g.refCounts = 0..(n - 1)
    BY <1>2, <1>5, <2>1, GainedRight, Sizes
  <2>3. /\ \A m : Here(v, j, m) \in {0, 1}
        /\ \A m : Here(w, j, m) = IF j = w.key /\ m = w.layer THEN 1 ELSE 0
        /\ \A m \in 0..(n - 1) :
             resources[j].refCounts[m] \in Nat /\ g.refCounts[m] \in Nat
    <3>1. \A m : Here(v, j, m) \in {0, 1}
      BY DEF Here
    <3>2. \A m : Here(w, j, m) = IF j = w.key /\ m = w.layer THEN 1 ELSE 0
      <4>1. \A m : w = Use(j, m) <=> j = w.key /\ m = w.layer
        BY <1>3 DEF Use
      <4> QED BY <4>1 DEF Here
    <3>3. \A q \in Resource(n) : \A m \in 0..(n - 1) : q.refCounts[m] \in Nat
      BY DEF Resource
    <3>4. \A m \in 0..(n - 1) :
            resources[j].refCounts[m] \in Nat /\ g.refCounts[m] \in Nat
      BY <2>1, <2>2, <3>3
    <3> QED BY <3>1, <3>2, <3>4
  <2> HIDE DEF g
  <2>4. CASE j # w.key
    <3>1. resources'[j] = g
      BY <1>2, <1>4, <2>4 DEF g
    <3> QED BY <2>1, <2>2, <2>3, <2>4, <3>1
  <2>5. CASE j = w.key
    <3> DEFINE s == Released(g, w.layer)
    <3>1. resources'[j] = s
      BY <1>2, <1>4, <2>5 DEF g
    <3>2. w.layer \in 0..(n - 1) /\ g.refCounts[w.layer] > 0
      <4>1. w.layer \in DOMAIN resources[w.key].refCounts
            /\ resources[w.key].refCounts[w.layer] > 0
        <5>1. PICK p \in 1..MaxLayers :
                /\ w.layer \in 0..(p - 1)
                /\ Counted(resources[w.key], p, w.key, stray[w.key])
                /\ resources[w.key].refCounts[w.layer] > 0
          BY <1>2, UsedLayer DEF ResourceOf
        <5> QED BY <5>1, Sizes DEF Counted
      <4> QED BY <2>1, <2>2, <2>3, <2>5, <4>1
    <3>3. /\ s \in Resource(n) /\ s.remaining = g.remaining
          /\ s.refCounts = [g.refCounts EXCEPT ![w.layer] = @ - 1]
          /\ s.refCounts[w.layer] > 0 => Unused(s) = Unused(g)
          /\ s.refCounts[w.layer] = 0 =>
               Cardinality(Unused(s)) = Cardinality(Unused(g)) + 1
      <4> DEFINE l == w.layer
      <4> HIDE DEF l, s
      <4>1. l \in 0..(n - 1) /\ g.refCounts[l] > 0
        BY <3>2 DEF l
      <4>2. s = Released(g, l)
        BY DEF s, l
      <4> QED BY <2>2, <4>1, <4>2, ReleasedRight DEF l
    <3> HIDE DEF s
    <3>4. s.refCounts[w.layer] \in Nat /\ (freed <=> s.refCounts[w.layer] = 0)
      BY <2>5, <3>1, <3>2, <3>3 DEF Resource
    <3>5. \A m \in 0..(n - 1) : s.refCounts[m] =
            resources[j].refCounts[m] + Here(v, j, m) - Here(w, j, m)
      <4> TAKE m \in 0..(n - 1)
      <4>1. g.refCounts \in [0..(n - 1) -> Nat]
        BY <2>2 DEF Resource
      <4>2. s.refCounts[m] = g.refCounts[m] - Here(w, j, m)
        <5> HIDE DEF w, v
        <5> QED BY <2>3, <2>5, <3>2, <3>3, <4>1
      <4>3. Here(v, j, m) \in {0, 1} /\ Here(w, j, m) \in {0, 1}
        BY DEF Here
      <4>4. /\ g.refCounts[m] = resources[j].refCounts[m] + Here(v, j, m)
            /\ resources[j].refCounts[m] \in Nat
        BY <2>2, <2>3
      <4> HIDE DEF w, v
      <4> QED BY <4>2, <4>3, <4>4
    <3>6. DOMAIN s.refCounts = 0..(n - 1)
      BY <3>3, Sizes
    <3>7. IF freed
            THEN Cardinality(Unused(s)) = Cardinality(Unused(resources[j])) + 1
            ELSE Unused(s) = Unused(resources[j])
      <4>1. CASE freed
        <5>1. s.refCounts[w.layer] = 0
          BY <3>4, <4>1
        <5> QED BY <2>2, <3>3, <4>1, <5>1
      <4>2. CASE ~freed
        <5>1. s.refCounts[w.layer] > 0
          BY <3>4, <4>2
        <5> QED BY <2>2, <3>3, <4>2, <5>1
      <4> QED BY <4>1, <4>2
    <3>8. s.remaining = resources[j].remaining
          /\ DOMAIN s.refCounts = DOMAIN resources[j].refCounts
      BY <2>1, <2>2, <3>3, <3>6
    <3> HIDE DEF w, v, freed
    <3> QED BY <2>5, <3>1, <3>3, <3>5, <3>7, <3>8
  <2> QED BY <2>4, <2>5
<1>6. ASSUME NEW j \in Keys, Has(j), NEW n \in 1..MaxLayers,
             Counted(resources[j], n, j, stray[j])
      PROVE  Counted(resources[j], n, j, stray[j])'
  <2>1. \A m \in 0..(n - 1) :
          /\ Cardinality(Users(j, m)) \in Nat
          /\ Cardinality(Users(j, m)') =
               Cardinality(Users(j, m)) - Here(w, j, m) + Here(v, j, m)
          /\ Here(v, j, m) \in {0, 1} /\ Here(w, j, m) \in {0, 1}
    <3> TAKE m \in 0..(n - 1)
    <3>1. m \in 0..(MaxLayers - 1)
      BY LayersAssumption
    <3>2. UsersFinite /\ DOMAIN tex = Textures
      BY <1>1 DEF TexturesRight
    <3> HIDE DEF v
    <3> QED BY <1>2, <1>6, <3>1, <3>2, UsersChange
  <2> QED BY <1>2, <1>5, <1>6, <2>1 DEF Counted
<1>7. \A j \in Keys : KeyRight(j)' /\ (Has(j) =>
        /\ resources'[j] # None
        /\ DOMAIN resources'[j].refCounts = DOMAIN resources[j].refCounts)
  <2> TAKE j \in Keys
  <2>1. CASE Has(j)
    <3>1. PICK n \in 1..MaxLayers : Counted(resources[j], n, j, stray[j])
      BY <1>1, <2>1 DEF KeyRight, ResourceRight
    <3>2. Balanced(resources[j], unyielded[j]) /\ NoneGone(resources[j], unyielded[j])
          /\ unyielded[j] \in Nat /\ resources[j] \in Resource(n)
      BY <1>1, <2>1, <3>1 DEF KeyRight, ResourceRight, CountersRight, Counted
    <3>7. Cardinality(Unused(resources[j])) \in Nat /\ resources[j].remaining \in Nat
      BY <3>1, <3>2, Sizes DEF Resource
    <3>3. unyielded'[j] = IF j = w.key /\ freed THEN unyielded[j] + 1 ELSE unyielded[j]
      BY <1>1, <1>2 DEF CountersRight
    <3>4. (Balanced(resources[j], unyielded[j]) /\ NoneGone(resources[j], unyielded[j]))'
      <4> HIDE DEF freed, w
      <4> QED BY <1>5, <2>1, <3>1, <3>2, <3>3, <3>7 DEF Balanced, NoneGone
    <3>5. resources'[j] # None
      BY <1>5, <2>1, <3>1, LayersAssumption
    <3>6. DOMAIN resources'[j].refCounts = DOMAIN resources[j].refCounts
      BY <1>5, <2>1, <3>1
    <3> QED BY <1>6, <2>1, <3>1, <3>4, <3>5, <3>6 DEF KeyRight, ResourceRight, Has
  <2>2. CASE ~Has(j)
    <3>1. j # w.key /\ j # v.key
      BY <1>3, <2>2
    <3>2. resources'[j] = resources[j]
      BY <1>1, <1>2, <1>4, <3>1 DEF Gained, CountersRight
    <3>3. unyielded'[j] = unyielded[j] /\ stray'[j] = stray[j]
      BY <1>1, <1>2, <3>1 DEF CountersRight
    <3> QED BY <1>1, <2>2, <3>2, <3>3 DEF KeyRight, Has
  <2> QED BY <2>1, <2>2
<1>8. TexturesRight'
  <2>1. \A x \in Textures : Alive(x) =>
          /\ resources'[tex[x].key] # None
          /\ tex[x].layer \in DOMAIN resources'[tex[x].key].refCounts
    BY <1>1, <1>7 DEF TexturesRight, LayerOf, ResourceOf, Alive, Uses
  <2> QED BY <1>2, <1>3, <2>1, StillUsed
<1>9. CountersRight'
  <2>1. unyielded' \in [Keys -> Nat]
    BY <1>1, <1>2, <1>3 DEF CountersRight
  <2> QED BY <1>1, <1>2, <1>4, <2>1 DEF CountersRight
<1> QED BY <1>7, <1>8, <1>9, LayersInvNext

(* The destructor takes a reference away, and then the last texture of a   *)
(* resource, and no other, takes the resource with it.                     *)
LEMMA YieldedRight ==
  ASSUME NEW n \in 1..MaxLayers, NEW r \in Resource(n), NEW l \in 0..(n - 1),
         r.refCounts[l] > 0, NEW freed \in Nat,
         Balanced(r, freed), NoneGone(r, freed)
  PROVE  LET s == Yielded(r, l)
         IN  \/ /\ s = None /\ r.refCounts[l] = 1
                /\ \A m \in 0..(n - 1) : m = l \/ r.refCounts[m] = 0
             \/ /\ s # None /\ s \in Resource(n) /\ s.data = r.data /\ s.image = r.image
                /\ s.refCounts = [r.refCounts EXCEPT ![l] = @ - 1]
                /\ Balanced(s, freed) /\ NoneGone(s, freed)
<1> DEFINE less == Released(r, l)
           s == Yielded(r, l)
<1>1. /\ less \in Resource(n) /\ less.data = r.data /\ less.image = r.image
      /\ less.remaining = r.remaining
      /\ less.refCounts = [r.refCounts EXCEPT ![l] = @ - 1]
      /\ less.refCounts[l] > 0 => Unused(less) = Unused(r)
      /\ less.refCounts[l] = 0 =>
           /\ Unused(less) = Unused(r) \cup {l}
           /\ Cardinality(Unused(less)) = Cardinality(Unused(r)) + 1
  BY ReleasedRight
<1>2. /\ Size(r) = n /\ n \in Nat \ {0} /\ less.refCounts[l] \in Nat
      /\ less.refCounts[l] = r.refCounts[l] - 1 /\ r.refCounts[l] \in Nat
      /\ DOMAIN r.refCounts = 0..(n - 1) /\ DOMAIN less.refCounts = 0..(n - 1)
      /\ Cardinality(Unused(r)) \in Nat /\ Cardinality(Unused(less)) \in 0..n
      /\ Unused(less) \in SUBSET (0..(n - 1))
  <2> HIDE DEF less
  <2>1. /\ Size(r) = n /\ n \in Nat \ {0} /\ DOMAIN r.refCounts = 0..(n - 1)
        /\ Cardinality(Unused(r)) \in Nat
    BY Sizes
  <2>2. /\ DOMAIN less.refCounts = 0..(n - 1) /\ Cardinality(Unused(less)) \in 0..n
        /\ Unused(less) \in SUBSET (0..(n - 1))
    BY <1>1, Sizes
  <2>3. r.refCounts \in [0..(n - 1) -> Nat]
    BY DEF Resource
  <2> QED BY <1>1, <2>1, <2>2, <2>3
<1>3. \A p \in 1..MaxLayers : None \notin Resource(p)
  BY LayersAssumption
<1> HIDE DEF less
<1>4. CASE less.refCounts[l] > 0
  <2>1. s = less
    BY <1>2, <1>4 DEF Yielded, less
  <2> QED BY <1>1, <1>2, <1>3, <1>4, <2>1 DEF Balanced, NoneGone
<1>5. CASE less.refCounts[l] = 0 /\ r.remaining + 1 = Size(r)
  <2>1. s = None
    BY <1>2, <1>5 DEF Yielded, less
  <2>2. Cardinality(Unused(less)) = n
    BY <1>1, <1>2, <1>5 DEF Balanced, Resource
  <2>3. Unused(less) = 0..(n - 1)
    <3>1. IsFiniteSet(0..(n - 1)) /\ Cardinality(0..(n - 1)) = n
      BY <1>2, FS_Interval
    <3> QED BY <1>2, <2>2, <3>1, FS_Subset
  <2>4. \A m \in 0..(n - 1) : m = l \/ r.refCounts[m] = 0
    BY <1>1, <1>2, <2>3 DEF Unused
  <2> QED BY <1>2, <1>5, <2>1, <2>4
<1>6. CASE less.refCounts[l] = 0 /\ r.remaining + 1 # Size(r)
  <2>1. s = [less EXCEPT !.remaining = @ + 1, !.current = l]
    BY <1>2, <1>6 DEF Yielded, less
  <2>2. r.remaining + 1 \in 0..n
    <3>1. r.remaining \in 0..n
      BY DEF Resource
    <3>2. r.remaining <= Cardinality(Unused(r))
      BY <1>2, <3>1 DEF Balanced
    <3> QED BY <1>1, <1>2, <1>6, <3>1, <3>2
  <2>3. /\ s \in Resource(n) /\ s.data = r.data /\ s.image = r.image
        /\ s.refCounts = less.refCounts /\ s.remaining = r.remaining + 1
    BY <1>1, <2>1, <2>2 DEF Resource
  <2> HIDE DEF s
  <2>4. Unused(s) = Unused(less) /\ DOMAIN s.refCounts = DOMAIN less.refCounts
    BY <2>3 DEF Unused
  <2>5. Balanced(s, freed)
    BY <1>1, <1>2, <1>6, <2>3, <2>4 DEF Balanced, Resource
  <2>6. NoneGone(s, freed)
    <3>1. ASSUME Unused(s) = 0..(n - 1) PROVE freed > 0
      <4>1. Cardinality(Unused(s)) = n
        BY <1>2, <3>1, FS_Interval
      <4> QED BY <1>2, <1>6, <2>3, <2>5, <4>1 DEF Balanced, Resource
    <3> QED BY <1>2, <2>4, <3>1 DEF NoneGone
  <2> QED BY <1>1, <1>3, <2>3, <2>5, <2>6 DEF s
<1> QED BY <1>2, <1>4, <1>5, <1>6

(* A user goes, and with the last one what is counted for the resource.    *)
LEMMA DestroyKeeps ==
  ASSUME LayersInv, NEW t \in Textures, Destroy(t)
  PROVE  LayersInv'
<1>1. TexturesRight /\ CountersRight /\ \A j \in Keys : KeyRight(j)
  BY LayersInvByKey
<1>0. PICK w, k, l, r, after, freed, lost :
        /\ w = tex[t] /\ k = w.key /\ l = w.layer /\ r = resources[k]
        /\ after = Yielded(r, l) /\ freed = unyielded[k] /\ lost = stray[k]
  OBVIOUS
<1>2. /\ Alive(t) /\ tex' = [tex EXCEPT ![t] = None] /\ images' = images
      /\ resources' = [resources EXCEPT ![k] = after]
      /\ after = None => /\ stray' = [stray EXCEPT ![k] = {}]
                         /\ unyielded' = [unyielded EXCEPT ![k] = 0]
      /\ after # None => UNCHANGED <<stray, unyielded>>
  BY <1>0 DEF Destroy, LayerOf, ResourceOf
<1>3. PICK n \in 1..MaxLayers :
        /\ w \in Uses /\ w # None /\ Has(k) /\ k \in Keys
        /\ w = [key |-> k, layer |-> l] /\ l \in 0..(n - 1)
        /\ Counted(r, n, k, lost) /\ r.refCounts[l] > 0
  BY <1>0, <1>2, UsedLayer DEF ResourceOf
<1>4. /\ r \in Resource(n) /\ freed \in Nat /\ Balanced(r, freed) /\ NoneGone(r, freed)
      /\ DOMAIN r.refCounts = 0..(n - 1) /\ DOMAIN resources = Keys
      /\ r.refCounts \in [0..(n - 1) -> Nat]
  <2>1. r \in Resource(n)
    BY <1>3 DEF Counted
  <2>2. DOMAIN r.refCounts = 0..(n - 1) /\ r.refCounts \in [0..(n - 1) -> Nat]
    BY <2>1 DEF Resource
  <2> QED BY <1>0, <1>1, <1>3, <2>1, <2>2 DEF KeyRight, ResourceRight, CountersRight
<1>5. \/ /\ after = None /\ r.refCounts[l] = 1
         /\ \A m \in 0..(n - 1) : m = l \/ r.refCounts[m] = 0
      \/ /\ after # None /\ after \in Resource(n)
         /\ after.refCounts = [r.refCounts EXCEPT ![l] = @ - 1]
         /\ Balanced(after, freed) /\ NoneGone(after, freed)
  <2>1. r.refCounts[l] > 0 /\ l \in 0..(n - 1)
    BY <1>3
  <2>2. after = Yielded(r, l)
    BY <1>0
  <2>3. /\ r \in Resource(n) /\ freed \in Nat
        /\ Balanced(r, freed) /\ NoneGone(r, freed)
    BY <1>4
  <2>4. LET s == Yielded(r, l)
        IN  \/ /\ s = None /\ r.refCounts[l] = 1
               /\ \A m \in 0..(n - 1) : m = l \/ r.refCounts[m] = 0
            \/ /\ s # None /\ s \in Resource(n)
               /\ s.refCounts = [r.refCounts EXCEPT ![l] = @ - 1]
               /\ Balanced(s, freed) /\ NoneGone(s, freed)
    BY <2>1, <2>3, YieldedRight
  <2> QED BY <2>2, <2>4
<1>6. \A j \in Keys, m \in 0..(MaxLayers - 1) :
        /\ IsFiniteSet(Users(j, m)) /\ Cardinality(Users(j, m)) \in Nat
        /\ Cardinality(Users(j, m)') =
             Cardinality(Users(j, m)) - (IF j = k /\ m = l THEN 1 ELSE 0)
  <2>1. UsersFinite /\ DOMAIN tex = Textures
    BY <1>1 DEF TexturesRight
  <2> TAKE j \in Keys, m \in 0..(MaxLayers - 1)
  <2>2. /\ Cardinality(Users(j, m)) \in Nat
        /\ Cardinality(Users(j, m)') =
             Cardinality(Users(j, m)) - Here(tex[t], j, m) + Here(None, j, m)
    <3>1. tex' = [tex EXCEPT ![t] = None]
      BY <1>2
    <3> QED BY <3>1, <2>1, UsersChange
  <2>3. Here(w, j, m) = IF j = k /\ m = l THEN 1 ELSE 0
    BY <1>3 DEF Here, Use
  <2>4. Here(None, j, m) = 0
    BY LayersAssumption DEF Here, Use, Uses
  <2> QED BY <1>0, <2>1, <2>2, <2>3, <2>4 DEF UsersFinite
<1>7. 0..(n - 1) \subseteq 0..(MaxLayers - 1)
  BY LayersAssumption
<1>8. resources'[k] = after
  BY <1>2, <1>3, <1>4
<1>9. KeyRight(k)'
  <2>1. CASE after = None
    <3>1. stray'[k] = {} /\ unyielded'[k] = 0
      BY <1>1, <1>2, <1>3, <2>1 DEF CountersRight
    <3> QED BY <1>8, <2>1, <3>1 DEF KeyRight, Has
  <2>2. CASE after # None
    <3>1. stray'[k] = lost /\ unyielded'[k] = freed
      BY <1>0, <1>2, <2>2
    <3>2. ASSUME NEW m \in 0..(n - 1)
          PROVE  after.refCounts[m] = Cardinality(Users(k, m)')
                   + (IF m \in lost THEN 1 ELSE 0)
      <4>1. after.refCounts[m] = r.refCounts[m] - (IF m = l THEN 1 ELSE 0)
        BY <1>3, <1>4, <1>5, <2>2
      <4>2. r.refCounts[m] = Cardinality(Users(k, m)) + (IF m \in lost THEN 1 ELSE 0)
        BY <1>3 DEF Counted
      <4>3. /\ Cardinality(Users(k, m)) \in Nat
            /\ Cardinality(Users(k, m)') =
                 Cardinality(Users(k, m)) - (IF m = l THEN 1 ELSE 0)
        BY <1>3, <1>6, <1>7
      <4> QED BY <4>1, <4>2, <4>3
    <3>3. Counted(after, n, k, lost)'
      BY <1>3, <1>5, <2>2, <3>2 DEF Counted
    <3>4. ResourceRight(after, k, lost, freed)'
      BY <1>5, <2>2, <3>3 DEF ResourceRight, Balanced, NoneGone
    <3> QED BY <1>8, <2>2, <3>1, <3>4 DEF KeyRight, Has
  <2> QED BY <2>1, <2>2
<1>10. \A j \in Keys \ {k} : KeyRight(j)'
  <2> TAKE j \in Keys \ {k}
  <2>1. \A m \in 0..(MaxLayers - 1) : Users(j, m)' = Users(j, m)
    BY <1>0, <1>1, <1>2, <1>3, LayersAssumption DEF Users, Uses, TexturesRight
  <2>2. resources'[j] = resources[j] /\ stray'[j] = stray[j]
        /\ unyielded'[j] = unyielded[j]
    BY <1>1, <1>2, <1>3 DEF CountersRight
  <2> QED BY <2>1, <2>2, KeyUntouched
<1>11. TexturesRight'
  <2>1. ASSUME NEW u \in Textures \ {t}, Alive(u)
        PROVE  /\ resources'[tex[u].key] # None
               /\ tex[u].layer \in DOMAIN resources'[tex[u].key].refCounts
    <3>1. PICK j, m : j = tex[u].key /\ m = tex[u].layer
      OBVIOUS
    <3>2. /\ j \in Keys /\ Has(j) /\ m \in DOMAIN resources[j].refCounts
          /\ m \in 0..(MaxLayers - 1) /\ u \in Users(j, m)
      BY <1>1, <2>1, <3>1 DEF TexturesRight, LayerOf, ResourceOf, Alive, Uses, Users
    <3>3. CASE j # k
      BY <1>2, <1>3, <1>4, <3>1, <3>2, <3>3 DEF Has
    <3>4. CASE j = k /\ after # None
      <4>1. DOMAIN after.refCounts = 0..(n - 1)
        BY <1>4, <1>5, <3>4
      <4> QED BY <1>0, <1>4, <1>8, <3>1, <3>2, <3>4, <4>1
    <3>5. CASE j = k /\ after = None
      <4>1. m \in 0..(n - 1)
        BY <1>0, <1>4, <3>2, <3>5
      <4>2. /\ IsFiniteSet(Users(k, m)) /\ Cardinality(Users(k, m)) \in Nat
            /\ Cardinality(Users(k, m)) # 0
        BY <1>6, <3>2, <3>5, FS_EmptySet
      <4>3. r.refCounts[m] \in Nat
            /\ r.refCounts[m] = Cardinality(Users(k, m)) + (IF m \in lost THEN 1 ELSE 0)
        BY <1>3, <1>4, <4>1 DEF Counted
      <4>4. m = l /\ r.refCounts[m] = 1
        BY <1>5, <3>5, <4>1, <4>2, <4>3
      <4>5. Cardinality(Users(k, l)) = 1
        BY <4>2, <4>3, <4>4
      <4>6. t \in Users(k, l) /\ u \in Users(k, l)
        BY <1>0, <1>3, <3>2, <3>5, <4>4 DEF Users
      <4>7. \E x : Users(k, l) = {x}
        BY <4>2, <4>4, <4>5, FS_Singleton
      <4> QED BY <4>6, <4>7
    <3> QED BY <3>3, <3>4, <3>5
  <2> QED BY <1>2, <2>1, StillUsed
<1>12. CountersRight'
  <2>1. stray' \in [Keys -> SUBSET (0..(MaxLayers - 1))] /\ unyielded' \in [Keys -> Nat]
    BY <1>1, <1>2, <1>3 DEF CountersRight
  <2> QED BY <1>1, <1>2, <2>1 DEF CountersRight
<1> QED BY <1>9, <1>10, <1>11, <1>12, LayersInvNext

(* Writing to a texture's layer changes no count.                          *)
LEMMA UpdateKeeps ==
  ASSUME LayersInv, NEW t \in Textures, NEW c \in Contents, Update(t, c)
  PROVE  LayersInv'
<1>1. TexturesRight /\ CountersRight /\ \A j \in Keys : KeyRight(j)
  BY LayersInvByKey
<1>0. PICK k, l, r, s :
        /\ k = tex[t].key /\ l = tex[t].layer /\ r = resources[k]
        /\ s = [r EXCEPT !.data[l] = c]
  OBVIOUS
<1>2. /\ Alive(t) /\ resources' = [resources EXCEPT ![k] = s]
      /\ UNCHANGED <<tex, images, stray, unyielded>>
  BY <1>0 DEF Update, LayerOf
<1>3. PICK n \in 1..MaxLayers :
        /\ Has(k) /\ k \in Keys /\ l \in 0..(n - 1) /\ Counted(r, n, k, stray[k])
  BY <1>0, <1>2, UsedLayer DEF ResourceOf
<1>4. /\ s \in Resource(n) /\ s.refCounts = r.refCounts
      /\ s.remaining = r.remaining
  BY <1>0, <1>3, WrittenRight DEF Counted
<1>5. resources'[k] = s /\ DOMAIN resources' = Keys
  BY <1>1, <1>2, <1>3 DEF CountersRight
<1>6. \A j \in Keys, m \in 0..(MaxLayers - 1) : Users(j, m)' = Users(j, m)
  BY <1>2 DEF Users
<1>7. KeyRight(k)'
  <2>1. Counted(s, n, k, stray[k])'
    <3>1. 0..(n - 1) \subseteq 0..(MaxLayers - 1)
      BY LayersAssumption
    <3> QED BY <1>2, <1>3, <1>4, <1>6, <3>1 DEF Counted
  <2>2. (Balanced(s, unyielded[k]) /\ NoneGone(s, unyielded[k]))'
    <3>1. Balanced(r, unyielded[k]) /\ NoneGone(r, unyielded[k])
      BY <1>0, <1>1, <1>3 DEF KeyRight, ResourceRight
    <3>2. Unused(s) = Unused(r)
      BY <1>4 DEF Unused
    <3> QED BY <1>2, <1>4, <3>1, <3>2 DEF Balanced, NoneGone
  <2>3. resources'[k] # None
    BY <1>4, <1>5, LayersAssumption
  <2> QED BY <1>5, <2>1, <2>2, <2>3 DEF KeyRight, ResourceRight, Has
<1>8. \A j \in Keys \ {k} : KeyRight(j)'
  BY <1>1, <1>2, <1>6, KeyUntouched DEF CountersRight
<1>9. TexturesRight'
  <2>1. ASSUME NEW u \in Textures, Alive(u)'
        PROVE  (Has(tex[u].key) /\ LayerOf(u) \in DOMAIN ResourceOf(u).refCounts)'
    <3>1. /\ tex[u].key \in Keys /\ resources[tex[u].key] # None
          /\ tex[u].layer \in DOMAIN resources[tex[u].key].refCounts
      BY <1>1, <1>2, <2>1 DEF TexturesRight, LayerOf, ResourceOf, Alive, Uses, Has
    <3>2. /\ resources'[tex[u].key] # None
          /\ tex[u].layer \in DOMAIN resources'[tex[u].key].refCounts
      BY <1>0, <1>1, <1>2, <1>4, <1>5, <3>1, LayersAssumption DEF CountersRight
    <3> QED BY <1>2, <3>2 DEF Has, LayerOf, ResourceOf
  <2>2. UsersFinite'
    BY <1>1, <1>6 DEF TexturesRight, UsersFinite
  <2> QED BY <1>1, <1>2, <2>1, <2>2 DEF TexturesRight
<1>10. CountersRight'
  BY <1>1, <1>2, <1>5 DEF CountersRight
<1> QED BY <1>7, <1>8, <1>9, <1>10, LayersInvNext

(* Nothing about the textures changes.                                     *)
LEMMA StutterKeeps ==
  ASSUME LayersInv, UNCHANGED texVars
  PROVE  LayersInv'
BY DEF LayersInv, LayersCounted, NothingLeft, StraysExist, UsersFinite, Users,
       texVars, LayersTypeOK, ReferencesRight, RemainingRight, Has, Alive,
       LayerOf, ResourceOf

(* At first there are no textures, and nobody uses anything.               *)
LEMMA LayersInitRight ==
  ASSUME LayersInit
  PROVE  LayersInv
<1>1. \A t \in Textures : ~Alive(t)
  BY DEF LayersInit, Alive
<1>2. \A k \in Keys : ~Has(k)
  BY DEF LayersInit, Has
<1>3. \A k \in Keys, l \in 0..(MaxLayers - 1) : Users(k, l) = {}
  BY LayersAssumption DEF LayersInit, Users, Uses
<1>4. UsersFinite
  BY <1>3, FS_EmptySet DEF UsersFinite
<1>5. LayersTypeOK
  BY <1>2, LayersAssumption DEF LayersInit, LayersTypeOK
<1> QED BY <1>1, <1>2, <1>4, <1>5 DEF LayersInit, LayersInv, LayersCounted,
          NothingLeft, StraysExist, ReferencesRight, RemainingRight

(* Every operation on textures keeps the invariant.                        *)
LEMMA LayersStep ==
  ASSUME LayersInv, LayersNext
  PROVE  LayersInv'
BY CreateKeeps, CopyKeeps, AssignKeeps, DestroyKeeps, UpdateKeeps DEF LayersNext

(* Every reachable state satisfies the invariant.                          *)
LEMMA LayersInvariant == Spec => []LayersInv
<1>1. Init => LayersInv
  BY LayersInitRight DEF Init
<1>2. LayersInv /\ [Next]_vars => LayersInv'
  BY LayersStep, StutterKeeps DEF Next, ChangeTextures, Allocate, Write, vars
<1> QED BY <1>1, <1>2, PTL DEF Spec

(* References, layers and the numbers of unused layers are right together: *)
(* the resource that a texture uses exists, with its layer, whatever other *)
(* textures were copied, assigned or destroyed; the constructor's search   *)
(* for a layer ends; a resource goes with its last texture, or stays for   *)
(* the layers that operator= or a constructor that threw did not give back.*)
THEOREM LayersRight == Spec => []LayersCounted
<1>1. LayersInv => LayersCounted
  BY DEF LayersInv
<1> QED BY <1>1, LayersInvariant, PTL

-----------------------------------------------------------------------------
(* Textures keep their promise.                                            *)

(* What a texture uses, in a word.                                         *)
LEMMA UsesRight ==
  ASSUME LayersInv, NEW u \in Textures, Alive(u)
  PROVE  /\ tex[u] \in Uses /\ tex[u] # None /\ tex[u].key \in Keys
         /\ tex[u] = [key |-> tex[u].key, layer |-> tex[u].layer]
         /\ Has(tex[u].key)
         /\ \E n \in 1..MaxLayers : /\ resources[tex[u].key] \in Resource(n)
                                    /\ tex[u].layer \in 0..(n - 1)
                                    /\ resources[tex[u].key].refCounts[tex[u].layer] > 0
BY UsedLayer DEF Counted, ResourceOf

(* A texture that uses the same layer with the same data shows the same.   *)
LEMMA ShownKept ==
  ASSUME NEW u \in Textures, tex'[u] = tex[u],
         Alive(u) => resources'[tex[u].key].data[tex[u].layer] =
                       resources[tex[u].key].data[tex[u].layer]
  PROVE  Shown(u)' = Shown(u)
BY DEF Shown, Alive, ResourceOf, LayerOf

(* A copy shows what the original does, and no other texture changes.      *)
LEMMA CopyShares ==
  ASSUME LayersInv, NEW t \in Textures, NEW u \in Textures, Copy(t, u)
  PROVE  Promise!Share(t, u)
<1>1. Alive(u) /\ tex' = [tex EXCEPT ![t] = tex[u]] /\ resources' = Gained(u)
  BY DEF Copy, Gained, LayerOf
<1>2. tex \in [Textures -> Uses \cup {None}]
  BY DEF LayersInv, LayersCounted, LayersTypeOK
<1>3. ASSUME NEW v \in Textures, Alive(v)
      PROVE  resources'[tex[v].key].data = resources[tex[v].key].data
  <2>1. PICK j \in Keys, n \in 1..MaxLayers :
          j = tex[v].key /\ Has(j) /\ resources[j] \in Resource(n)
    BY <1>3, UsesRight
  <2> QED BY <1>1, <2>1, GainedRight
<1>4. \A v \in Textures \ {t} : tex'[v] = tex[v] /\ Shown(v)' = Shown(v)
  BY <1>1, <1>2, <1>3, ShownKept
<1>5. tex'[t] = tex[u] /\ Shown(t)' = Shown(u)
  BY <1>1, <1>2, <1>3 DEF Shown, Alive, ResourceOf, LayerOf
<1> QED BY <1>1, <1>4, <1>5 DEF Promise!Share, Promise!OthersKeep, Promise!Alive, Alive

(* Assigning to a texture is like copying.                                 *)
LEMMA AssignShares ==
  ASSUME LayersInv, NEW t \in Textures, NEW u \in Textures, Assign(t, u)
  PROVE  Promise!Share(t, u)
<1>1. /\ Alive(t) /\ Alive(u) /\ tex' = [tex EXCEPT ![t] = tex[u]]
      /\ resources' = [Gained(u) EXCEPT ![tex[t].key] = Released(@, tex[t].layer)]
  BY DEF Assign, Assigned, Gained, LayerOf
<1>2. tex \in [Textures -> Uses \cup {None}] /\ DOMAIN resources = Keys
  BY DEF LayersInv, LayersCounted, LayersTypeOK
<1>3. ASSUME NEW v \in Textures, Alive(v)
      PROVE  resources'[tex[v].key].data = resources[tex[v].key].data
  <2>1. PICK j \in Keys, n \in 1..MaxLayers :
          j = tex[v].key /\ Has(j) /\ resources[j] \in Resource(n)
    BY <1>3, UsesRight
  <2>2. Gained(u)[j] \in Resource(n) /\ Gained(u)[j].data = resources[j].data
    BY <1>1, <2>1, GainedRight
  <2>3. \A l : Released(Gained(u)[j], l).data = Gained(u)[j].data
    BY <2>2 DEF Released, Resource
  <2>4. DOMAIN Gained(u) = Keys
    BY <1>2 DEF Gained
  <2> QED BY <1>1, <2>1, <2>2, <2>3, <2>4
<1>4. \A v \in Textures \ {t} : tex'[v] = tex[v] /\ Shown(v)' = Shown(v)
  BY <1>1, <1>2, <1>3, ShownKept
<1>5. tex'[t] = tex[u] /\ Shown(t)' = Shown(u)
  BY <1>1, <1>2, <1>3 DEF Shown, Alive, ResourceOf, LayerOf
<1> QED BY <1>1, <1>4, <1>5 DEF Promise!Share, Promise!OthersKeep, Promise!Alive, Alive

(* Only the texture that is destroyed loses what it shows.                 *)
LEMMA DestroyAlone ==
  ASSUME LayersInv, NEW t \in Textures, Destroy(t)
  PROVE  Promise!Destroy(t)
<1>0. PICK k, l, r, after : k = tex[t].key /\ l = tex[t].layer /\ r = resources[k]
                            /\ after = Yielded(r, l)
  OBVIOUS
<1>1. /\ Alive(t) /\ tex' = [tex EXCEPT ![t] = None]
      /\ resources' = [resources EXCEPT ![k] = after]
  BY <1>0 DEF Destroy, LayerOf, ResourceOf
<1>2. tex \in [Textures -> Uses \cup {None}] /\ DOMAIN resources = Keys
  BY DEF LayersInv, LayersCounted, LayersTypeOK
<1>3. k \in Keys /\ \E n \in 1..MaxLayers : r \in Resource(n)
  BY <1>0, <1>1, UsesRight
<1>4. after # None => after.data = r.data
  BY <1>0, <1>3 DEF Yielded, Released, Resource
<1>5. LayersInv'
  BY DestroyKeeps
<1>6. ASSUME NEW v \in Textures \ {t}, Alive(v)
      PROVE  resources'[tex[v].key].data = resources[tex[v].key].data
  <2>1. tex'[v] = tex[v]
    BY <1>1, <1>2
  <2>2. tex[v].key \in Keys /\ resources'[tex[v].key] # None
    BY <1>5, <1>6, <2>1, UsesRight
       DEF LayersInv, LayersCounted, ReferencesRight, Alive, Has
  <2> QED BY <1>0, <1>1, <1>2, <1>3, <1>4, <2>2
<1>7. \A v \in Textures \ {t} : tex'[v] = tex[v] /\ Shown(v)' = Shown(v)
  BY <1>1, <1>2, <1>6, ShownKept
<1>8. tex'[t] = None /\ Shown(t)' = None
  BY <1>1, <1>2 DEF Shown, Alive
<1> QED BY <1>1, <1>7, <1>8 DEF Promise!Destroy, Promise!OthersKeep, Promise!Alive, Alive

(* New data show in the textures that share the layer, and in no other.    *)
LEMMA UpdateShared ==
  ASSUME LayersInv, NEW t \in Textures, NEW c \in Contents, Update(t, c)
  PROVE  Promise!Update(t)
<1>0. PICK k, l, r, s : /\ k = tex[t].key /\ l = tex[t].layer /\ r = resources[k]
                        /\ s = [r EXCEPT !.data[l] = c]
  OBVIOUS
<1>1. Alive(t) /\ tex' = tex /\ resources' = [resources EXCEPT ![k] = s]
  BY <1>0 DEF Update, LayerOf
<1>2. DOMAIN resources = Keys
  BY DEF LayersInv
<1>3. PICK n \in 1..MaxLayers :
        k \in Keys /\ tex[t] = [key |-> k, layer |-> l]
        /\ r \in Resource(n) /\ l \in 0..(n - 1)
  BY <1>0, <1>1, UsesRight
<1>4. s.data = [r.data EXCEPT ![l] = c]
  BY <1>0, <1>3, WrittenRight
<1>5. \A v \in Textures : tex[v] = tex[t] => Shown(v)' = Shown(t)'
  BY <1>1 DEF Shown, Alive, ResourceOf, LayerOf
<1>6. ASSUME NEW v \in Textures, tex[v] # tex[t] PROVE Shown(v)' = Shown(v)
  <2>1. ASSUME Alive(v)
        PROVE  resources'[tex[v].key].data[tex[v].layer] =
                 resources[tex[v].key].data[tex[v].layer]
    <3>1. PICK j, m : /\ j = tex[v].key /\ m = tex[v].layer /\ j \in Keys
                      /\ tex[v] = [key |-> j, layer |-> m]
      BY <2>1, UsesRight
    <3>2. j # k \/ m # l
      BY <1>3, <1>6, <3>1
    <3>3. CASE j # k
      BY <1>1, <1>2, <3>1, <3>3
    <3>4. CASE j = k /\ m # l
      <4>1. resources'[j] = s /\ resources[j] = r
        BY <1>0, <1>1, <1>2, <3>1, <3>4
      <4>2. s.data[m] = r.data[m]
        BY <1>4, <3>4
      <4> QED BY <3>1, <4>1, <4>2
    <3> QED BY <3>2, <3>3, <3>4
  <2> QED BY <1>1, <2>1, ShownKept
<1> QED BY <1>1, <1>5, <1>6 DEF Promise!Update, Promise!OthersKeep, Promise!Alive, Alive

(* A texture made from data has a layer that no other one uses; that the   *)
(* image grew for it changes nothing for them.  When the constructor       *)
(* throws nothing changes for any texture.                                 *)
LEMMA CreateAlone ==
  ASSUME LayersInv, NEW t \in Textures, NEW k \in Keys, NEW c \in Contents,
         Create(t, k, c)
  PROVE  \/ Promise!Create(t)
         \/ tex' = tex /\ \A v \in Textures : Shown(v)' = Shown(v)
<1>1. PICK r \in Prepared(k) :
        /\ IsNew(r, k) => images < MaxImages
        /\ \/ /\ resources' = [resources EXCEPT ![k] =
                                 [Taken(r, FirstFree(r)) EXCEPT !.data[FirstFree(r)] = c]]
              /\ tex' = [tex EXCEPT ![t] = [key |-> k, layer |-> FirstFree(r)]]
           \/ /\ resources' = [resources EXCEPT ![k] = Taken(r, FirstFree(r))]
              /\ tex' = tex
  BY DEF Create
<1>2. PICK n \in 1..MaxLayers :
        /\ Counted(r, n, k, stray[k])
        /\ r.remaining > 0 /\ Balanced(r, unyielded[k])
        /\ Has(k) => /\ DOMAIN resources[k].data \subseteq 0..(n - 1)
                     /\ \A l \in DOMAIN resources[k].data : r.data[l] = resources[k].data[l]
  BY <1>1, PreparedUsable DEF Usable
<1>3. PICK l, s, w : l = FirstFree(r) /\ s = Taken(r, l) /\ w = [s EXCEPT !.data[l] = c]
  OBVIOUS
<1>4. /\ tex[t] = None /\ unyielded[k] \in Nat /\ DOMAIN resources = Keys
      /\ tex \in [Textures -> Uses \cup {None}] /\ None \notin Uses
  BY LayersAssumption DEF LayersInv, LayersCounted, LayersTypeOK, Create, Alive
<1>5. r \in Resource(n) /\ l \in Unused(r)
  BY <1>2, <1>3, <1>4, UsableUnused DEF Counted
<1>6. l \in 0..(n - 1) /\ r.refCounts[l] = 0 /\ l \in 0..(MaxLayers - 1)
  <2>1. DOMAIN r.refCounts = 0..(n - 1) /\ n \in Nat \ {0}
    BY <1>5, Sizes
  <2> QED BY <1>5, <2>1, LayersAssumption DEF Unused
<1>7. s \in Resource(n) /\ s.data = r.data
  BY <1>2, <1>3, <1>4, <1>5, TakenRight
<1>8. w.data = [r.data EXCEPT ![l] = c]
  BY <1>3, <1>6, <1>7, WrittenRight
<1>9. ASSUME NEW v \in Textures PROVE tex[v] # [key |-> k, layer |-> l]
  <2>1. IsFiniteSet(Users(k, l))
    BY <1>6 DEF LayersInv, UsersFinite
  <2>2. Cardinality(Users(k, l)) \in Nat
    BY <2>1, FS_CardinalityType
  <2>3. Cardinality(Users(k, l)) = 0
    BY <1>2, <1>6, <2>2 DEF Counted
  <2> QED BY <2>1, <2>3, FS_EmptySet DEF Users
<1>10. ASSUME NEW v \in Textures, Alive(v), resources' = [resources EXCEPT ![k] = s]
                                           \/ resources' = [resources EXCEPT ![k] = w]
       PROVE  resources'[tex[v].key].data[tex[v].layer] =
                resources[tex[v].key].data[tex[v].layer]
  <2>0. PICK j, m : j = tex[v].key /\ m = tex[v].layer
    OBVIOUS
  <2>1. PICK p \in 1..MaxLayers :
          /\ j \in Keys /\ m \in 0..(p - 1) /\ j = tex[v].key /\ m = tex[v].layer
          /\ Has(j)
          /\ tex[v] = [key |-> j, layer |-> m] /\ resources[j] \in Resource(p)
    BY <1>10, <2>0, UsesRight
  <2>2. CASE j # k
    BY <1>4, <1>10, <2>1, <2>2
  <2>3. CASE j = k
    <3>1. m # l
      BY <1>9, <2>1, <2>3
    <3>2. m \in DOMAIN resources[k].data
      BY <2>1, <2>3 DEF Resource
    <3>3. r.data[m] = resources[k].data[m]
      BY <1>2, <2>1, <2>3, <3>2
    <3>4. s.data[m] = r.data[m] /\ w.data[m] = r.data[m]
      BY <1>7, <1>8, <3>1
    <3> QED BY <1>4, <1>10, <2>1, <2>3, <3>3, <3>4
  <2> QED BY <2>2, <2>3
<1>11. CASE resources' = [resources EXCEPT ![k] = w]
            /\ tex' = [tex EXCEPT ![t] = [key |-> k, layer |-> l]]
  <2>1. \A v \in Textures \ {t} : tex'[v] = tex[v] /\ Shown(v)' = Shown(v)
    BY <1>4, <1>10, <1>11, ShownKept
  <2>2. tex'[t] = [key |-> k, layer |-> l] /\ tex'[t] # None
    BY <1>4, <1>6, <1>11 DEF Uses
  <2> QED BY <1>4, <1>9, <2>1, <2>2
             DEF Promise!Create, Promise!OthersKeep, Promise!Alive
<1>12. CASE resources' = [resources EXCEPT ![k] = s] /\ tex' = tex
  BY <1>10, <1>12, ShownKept
<1> QED BY <1>1, <1>3, <1>11, <1>12

(* Each step of the textures is one of the promise, or changes nothing.    *)
LEMMA PromiseStep ==
  ASSUME LayersInv, [Next]_vars
  PROVE  [Promise!Next]_<<tex, [t \in Textures |-> Shown(t)]>>
<1>1. CASE LayersNext
  <2>1. ASSUME NEW t \in Textures, NEW k \in Keys, NEW c \in Contents, Create(t, k, c)
        PROVE  [Promise!Next]_<<tex, [u \in Textures |-> Shown(u)]>>
    BY <2>1, CreateAlone DEF Promise!Next
  <2>2. ASSUME NEW t \in Textures, NEW c \in Contents, Update(t, c)
        PROVE  Promise!Next
    BY <2>2, UpdateShared DEF Promise!Next
  <2>3. ASSUME NEW t \in Textures, Destroy(t)
        PROVE  Promise!Next
    BY <2>3, DestroyAlone DEF Promise!Next
  <2>4. ASSUME NEW t \in Textures, NEW u \in Textures, Copy(t, u) \/ Assign(t, u)
        PROVE  Promise!Next
    BY <2>4, CopyShares, AssignShares DEF Promise!Next
  <2> QED BY <1>1, <2>1, <2>2, <2>3, <2>4 DEF LayersNext
<1>2. CASE UNCHANGED texVars
  BY <1>2 DEF texVars, Shown, Alive, ResourceOf, LayerOf
<1> QED BY <1>1, <1>2 DEF Next, ChangeTextures, Allocate, Write, vars

(* Layers, counts and images that grow implement textures that each have a *)
(* cell of their own: a texture shows the data of another only if one was  *)
(* copied from the other, whichever layers they got.                       *)
THEOREM TexturesKeepPromise == Spec => KeepsTexturePromise
<1>1. Init => Promise!Init
  BY DEF Init, LayersInit, Promise!Init, Shown, Alive
<1>2. LayersInv /\ [Next]_vars => [Promise!Next]_<<tex, [t \in Textures |-> Shown(t)]>>
  BY PromiseStep
<1> QED BY <1>1, <1>2, LayersInvariant, PTL DEF Spec, KeepsTexturePromise, Promise!Spec

-----------------------------------------------------------------------------
(* The views of the table.                                                 *)

Images == [address : Addresses, serial : 1..MaxImages]

View == [image : Images, layer : 0..(MaxLayers - 1)]

ViewsTypeOK ==
  /\ \E n \in 0..MaxSets : /\ views \in [1..n -> View \cup {None}]
                           /\ written \in [1..n -> View \cup {None}]
  /\ reused \in BOOLEAN

(* No two images are at the same place.                                    *)
ImagesApart ==
  \A j, k \in Keys :
    /\ Has(j) /\ Has(k)
    /\ resources[j].image.address = resources[k].image.address
    => j = k

(* Images are numbered as they are made.                                   *)
ImagesDated == \A k \in Keys : Has(k) => resources[k].image.serial <= images

(* What is at the address of a view's image is that image.                 *)
ViewsKnow ==
  \A a \in DOMAIN views : views[a] # None =>
    \A k \in Keys :
      Has(k) /\ resources[k].image.address = views[a].image.address
        => resources[k].image = views[a].image

(* The inductive invariant.  That a view was last written is not enough:   *)
(* when the next write compares addresses, the image found there must be   *)
(* the view's, which a new image could spoil long before.                  *)
ViewsInv ==
  /\ LayersInv /\ ViewsTypeOK /\ ImagesApart /\ ImagesDated
  /\ ~reused => ViewsCurrent /\ ViewsKnow

(* A step makes at most one image, somewhere where there is none; the      *)
(* images of the resources that stay are as they were.                     *)
ImagesKept ==
  /\ images' = images
  /\ \A j \in Keys : resources'[j] # None =>
       Has(j) /\ resources'[j].image = resources[j].image

ImageMade(k, i) ==
  /\ images' = images + 1
  /\ resources'[k] # None /\ resources'[k].image = i
  /\ \A j \in Keys \ {k} : resources'[j] = resources[j]

(* A constructor makes the image of a new resource, or a larger one.       *)
LEMMA CreateImage ==
  ASSUME LayersInv, NEW t \in Textures, NEW k \in Keys, NEW c \in Contents,
         Create(t, k, c)
  PROVE  ImagesKept \/ \E i \in NewImages : ImageMade(k, i)
<1>1. PICK r \in Prepared(k) :
        /\ IsNew(r, k) => images < MaxImages
        /\ images' = IF IsNew(r, k) THEN images + 1 ELSE images
        /\ \/ resources' = [resources EXCEPT ![k] =
                              [Taken(r, FirstFree(r)) EXCEPT !.data[FirstFree(r)] = c]]
           \/ resources' = [resources EXCEPT ![k] = Taken(r, FirstFree(r))]
  BY DEF Create
<1>2. PICK n \in 1..MaxLayers :
        Counted(r, n, k, stray[k]) /\ r.remaining > 0 /\ Balanced(r, unyielded[k])
  BY <1>1, PreparedUsable DEF Usable
<1>3. PICK l, s, w : l = FirstFree(r) /\ s = Taken(r, l) /\ w = [s EXCEPT !.data[l] = c]
  OBVIOUS
<1>4. DOMAIN resources = Keys /\ unyielded[k] \in Nat
  BY DEF LayersInv, LayersCounted, LayersTypeOK
<1>5. r \in Resource(n) /\ l \in Unused(r)
  BY <1>2, <1>3, <1>4, UsableUnused DEF Counted
<1>6. s \in Resource(n) /\ s.image = r.image
  BY <1>2, <1>3, <1>4, <1>5, TakenRight
<1>7. w \in Resource(n) /\ w.image = r.image
  <2>1. l \in 0..(n - 1)
    BY <1>5, Sizes
  <2> QED BY <1>3, <1>6, <2>1, WrittenRight
<1>8. /\ resources'[k] # None /\ resources'[k].image = r.image
      /\ \A j \in Keys \ {k} : resources'[j] = resources[j]
  <2>1. resources' = [resources EXCEPT ![k] = w] \/ resources' = [resources EXCEPT ![k] = s]
    BY <1>1, <1>3
  <2> QED BY <1>4, <1>6, <1>7, <2>1, LayersAssumption
<1>9. CASE IsNew(r, k)
  <2>1. r.image \in NewImages
    <3>1. CASE ~Has(k)
      BY <3>1 DEF Prepared, NewResource
    <3>2. CASE Has(k) /\ resources[k].remaining = 0
      <4>1. PICK m \in 1..MaxLayers, i \in NewImages : r = Grown(resources[k], m, i)
        BY <3>2 DEF Prepared
      <4>2. PICK p \in 1..MaxLayers : resources[k] \in Resource(p)
        BY <3>2 DEF LayersInv, LayersCounted, LayersTypeOK
      <4> QED BY <4>1, <4>2 DEF Grown, Resource
    <3>3. CASE Has(k) /\ resources[k].remaining # 0
      BY <1>9, <3>3 DEF Prepared, IsNew
    <3> QED BY <3>1, <3>2, <3>3
  <2> QED BY <1>1, <1>8, <1>9, <2>1 DEF ImageMade
<1>10. CASE ~IsNew(r, k)
  BY <1>1, <1>8, <1>10 DEF IsNew, ImagesKept, Has
<1> QED BY <1>9, <1>10

(* The other operations make none.                                         *)
LEMMA OthersKeepImages ==
  ASSUME LayersInv, NEW t \in Textures, NEW u \in Textures, NEW c,
         Copy(t, u) \/ Assign(t, u) \/ Destroy(t) \/ Update(t, c)
  PROVE  ImagesKept
<1>1. DOMAIN resources = Keys
  BY DEF LayersInv
<1>2. ASSUME NEW j \in Keys, NEW v \in Textures, Alive(v)
      PROVE  Has(j) => Gained(v)[j].image = resources[j].image
  <2>1. ASSUME Has(j)
        PROVE  \E n \in 1..MaxLayers : resources[j] \in Resource(n)
    BY <2>1 DEF LayersInv, LayersCounted, LayersTypeOK
  <2> QED BY <1>2, <2>1, GainedRight
<1>3. ASSUME NEW j \in Keys, NEW v \in Textures, Alive(v), ~Has(j)
      PROVE  Gained(v)[j] = None
  <2>1. j # tex[v].key
    BY <1>3, UsesRight
  <2> QED BY <1>1, <1>3, <2>1 DEF Gained, Has
<1>4. CASE Copy(t, u)
  <2>1. Alive(u) /\ resources' = Gained(u) /\ images' = images
    BY <1>4 DEF Copy, Gained, LayerOf
  <2> QED BY <1>2, <1>3, <2>1 DEF ImagesKept
<1>5. CASE Assign(t, u)
  <2>1. /\ Alive(u) /\ Alive(t) /\ images' = images
        /\ resources' = [Gained(u) EXCEPT ![tex[t].key] = Released(@, tex[t].layer)]
    BY <1>5 DEF Assign, Assigned, Gained, LayerOf
  <2>2. DOMAIN Gained(u) = Keys
    BY <1>1 DEF Gained
  <2>3. ASSUME NEW j \in Keys, resources'[j] # None
        PROVE  Has(j) /\ resources'[j].image = resources[j].image
    <3>1. CASE j # tex[t].key
      BY <1>2, <1>3, <2>1, <2>2, <2>3, <3>1
    <3>2. CASE j = tex[t].key
      <4>1. PICK n \in 1..MaxLayers : Has(j) /\ resources[j] \in Resource(n)
        BY <2>1, <3>2, UsesRight
      <4>2. Gained(u)[j] \in Resource(n) /\ Gained(u)[j].image = resources[j].image
        BY <2>1, <4>1, GainedRight
      <4>3. resources'[j] = Released(Gained(u)[j], tex[t].layer)
        BY <2>1, <2>2, <3>2
      <4> QED BY <4>1, <4>2, <4>3 DEF Released, Resource
    <3> QED BY <3>1, <3>2
  <2> QED BY <2>1, <2>3 DEF ImagesKept
<1>6. CASE Destroy(t)
  <2>1. PICK k, r, after, l :
          /\ Alive(t) /\ k = tex[t].key /\ r = resources[k] /\ after = Yielded(r, l)
          /\ resources' = [resources EXCEPT ![k] = after] /\ images' = images
    BY <1>6 DEF Destroy, LayerOf, ResourceOf
  <2>2. PICK n \in 1..MaxLayers :
          Has(k) /\ k \in Keys /\ r \in Resource(n)
    BY <2>1, UsesRight
  <2>3. after # None => after.image = r.image
    BY <2>1, <2>2 DEF Yielded, Released, Resource
  <2> QED BY <1>1, <2>1, <2>2, <2>3 DEF ImagesKept, Has
<1>7. CASE Update(t, c)
  <2>1. PICK s : /\ Alive(t) /\ s = [resources[tex[t].key] EXCEPT !.data[tex[t].layer] = c]
                 /\ resources' = [resources EXCEPT ![tex[t].key] = s]
                 /\ images' = images
    BY <1>7 DEF Update, LayerOf
  <2>2. PICK n \in 1..MaxLayers :
          Has(tex[t].key) /\ tex[t].key \in Keys /\ resources[tex[t].key] \in Resource(n)
    BY <2>1, UsesRight
  <2>3. s.image = resources[tex[t].key].image
    BY <2>1, <2>2 DEF Resource
  <2> QED BY <1>1, <2>1, <2>2, <2>3 DEF ImagesKept, Has
<1> QED BY <1>4, <1>5, <1>6, <1>7

(* Every operation on textures makes one image or none.                    *)
LEMMA ImagesStep ==
  ASSUME LayersInv, LayersNext
  PROVE  ImagesKept \/ \E k \in Keys, i \in NewImages : ImageMade(k, i)
BY CreateImage, OthersKeepImages DEF LayersNext

(* The addresses of live images and of the images that views are of.       *)
LEMMA KnownAddresses ==
  /\ \A k \in Keys : Has(k) => resources[k].image.address \in Known
  /\ \A a \in DOMAIN views : views[a] # None => views[a].image.address \in Known
BY DEF Known

(* Textures come and go.                                                   *)
LEMMA ViewsInvTextures ==
  ASSUME ViewsInv, ChangeTextures
  PROVE  ViewsInv'
<1>1. LayersInv' /\ LayersNext /\ UNCHANGED <<views, written>>
  BY LayersStep DEF ViewsInv, ChangeTextures
<1>2. /\ reused' \in BOOLEAN
      /\ ~reused' =>
           /\ ~reused
           /\ \A k \in Keys : resources'[k] # None /\ resources'[k].image.serial > images
                => resources'[k].image.address \notin Known
  BY DEF ViewsInv, ViewsTypeOK, ChangeTextures
<1>3. ViewsTypeOK'
  BY <1>1, <1>2 DEF ViewsInv, ViewsTypeOK
<1>4. images \in Nat
  BY DEF ViewsInv, LayersInv, LayersCounted, LayersTypeOK
<1>5. CASE ImagesKept
  <2>1. \A k \in Keys : Has(k)' => Has(k) /\ resources'[k].image = resources[k].image
    BY <1>5 DEF ImagesKept, Has
  <2>2. ImagesApart'
    BY <2>1 DEF ViewsInv, ImagesApart
  <2>3. ImagesDated'
    BY <1>5, <2>1 DEF ViewsInv, ImagesDated, ImagesKept
  <2>4. ~reused' => (ViewsCurrent /\ ViewsKnow)'
    BY <1>1, <1>2, <2>1 DEF ViewsInv, ViewsCurrent, ViewsKnow
  <2> QED BY <1>1, <1>3, <2>2, <2>3, <2>4 DEF ViewsInv
<1>6. ASSUME NEW k \in Keys, NEW i \in NewImages, ImageMade(k, i)
      PROVE  ViewsInv'
  <2>1. i.serial = images + 1
        /\ \A j \in Keys : Has(j) => resources[j].image.address # i.address
    BY DEF NewImages
  <2>2. /\ resources'[k].image = i /\ resources'[k] # None /\ images' = images + 1
        /\ \A j \in Keys \ {k} : resources'[j] = resources[j]
    BY <1>6 DEF ImageMade
  <2>3. ImagesApart'
    BY <2>1, <2>2 DEF ViewsInv, ImagesApart, Has
  <2>4. ImagesDated'
    <3>1. ASSUME NEW j \in Keys, Has(j)'
          PROVE  (resources[j].image.serial <= images)'
      <4>1. CASE j = k
        BY <1>4, <2>1, <2>2, <4>1
      <4>2. CASE j # k
        <5>1. resources'[j] = resources[j] /\ Has(j) /\ resources[j].image.serial <= images
          BY <2>2, <3>1, <4>2 DEF Has, ViewsInv, ImagesDated
        <5>2. resources[j].image.serial \in Nat
          <6>1. PICK n \in 1..MaxLayers : resources[j] \in Resource(n)
            BY <5>1 DEF ViewsInv, LayersInv, LayersCounted, LayersTypeOK
          <6> QED BY <6>1 DEF Resource
        <5> QED BY <1>4, <2>2, <5>1, <5>2
      <4> QED BY <4>1, <4>2
    <3> QED BY <3>1 DEF ImagesDated
  <2>5. ASSUME ~reused' PROVE (ViewsCurrent /\ ViewsKnow)'
    <3>1. i.address \notin Known
      BY <1>2, <1>4, <2>1, <2>2, <2>5
    <3>2. ViewsCurrent /\ ViewsKnow
      BY <1>2, <2>5 DEF ViewsInv
    <3>3. \A a \in DOMAIN views : views[a] # None => views[a].image.address # i.address
      BY <3>1, KnownAddresses
    <3> QED BY <1>1, <2>2, <3>2, <3>3 DEF ViewsCurrent, ViewsKnow, Has
  <2> QED BY <1>1, <1>3, <2>3, <2>4, <2>5 DEF ViewsInv
<1>7. ImagesKept \/ \E k \in Keys, i \in NewImages : ImageMade(k, i)
  BY <1>1, ImagesStep DEF ViewsInv
<1> QED BY <1>5, <1>6, <1>7

(* New sets have no views.                                                 *)
LEMMA ViewsInvAllocate ==
  ASSUME ViewsInv, NEW n \in 0..MaxSets, Allocate(n)
  PROVE  ViewsInv'
<1>1. views' = [a \in 1..n |-> None] /\ written' = views' /\ UNCHANGED <<texVars, reused>>
  BY DEF Allocate
<1>2. LayersInv' /\ ImagesApart' /\ ImagesDated'
  BY <1>1, StutterKeeps DEF ViewsInv, texVars, ImagesApart, ImagesDated, Has
<1>3. ViewsTypeOK'
  BY <1>1 DEF ViewsInv, ViewsTypeOK
<1>4. (ViewsCurrent /\ ViewsKnow)'
  BY <1>1 DEF ViewsCurrent, ViewsKnow
<1> QED BY <1>2, <1>3, <1>4 DEF ViewsInv

(* A set is written: a view that is reused is of the image it should be.   *)
LEMMA ViewsInvWrite ==
  ASSUME ViewsInv, NEW a \in DOMAIN views, NEW t \in Textures, Write(a, t)
  PROVE  ViewsInv'
<1>0. PICK k, l, i, new :
        /\ k = tex[t].key /\ l = tex[t].layer /\ i = resources[k].image
        /\ new = [image |-> i, layer |-> l]
  OBVIOUS
<1>1. /\ Alive(t) /\ UNCHANGED <<texVars, reused>>
      /\ views' = IF MayReuse(views[a], i, l) THEN views ELSE [views EXCEPT ![a] = new]
      /\ written' = [written EXCEPT ![a] = new]
  BY <1>0 DEF Write, ResourceOf, LayerOf
<1>2. PICK n \in 1..MaxLayers :
        k \in Keys /\ Has(k) /\ resources[k] \in Resource(n) /\ l \in 0..(MaxLayers - 1)
  BY <1>0, <1>1, UsesRight DEF ViewsInv, Uses
<1>3. i \in Images /\ new \in View
  BY <1>0, <1>2 DEF Resource, Images, View
<1>4. PICK m \in 0..MaxSets : views \in [1..m -> View \cup {None}]
                              /\ written \in [1..m -> View \cup {None}]
  BY DEF ViewsInv, ViewsTypeOK
<1>5. ViewsTypeOK'
  BY <1>1, <1>3, <1>4 DEF ViewsInv, ViewsTypeOK
<1>6. LayersInv' /\ ImagesApart' /\ ImagesDated'
  BY <1>1, StutterKeeps DEF ViewsInv, texVars, ImagesApart, ImagesDated, Has
<1>7. resources' = resources
  BY <1>1 DEF texVars
<1>8. ASSUME ~reused' PROVE (ViewsCurrent /\ ViewsKnow)'
  <2>1. views = written /\ ViewsKnow
    BY <1>1, <1>8 DEF ViewsInv, ViewsCurrent
  <2>2. CASE MayReuse(views[a], i, l)
    <3>1. views[a] # None /\ views[a].image.address = i.address /\ views[a].layer = l
      BY <2>2 DEF MayReuse
    <3>2. views[a].image = i
      BY <1>0, <1>2, <2>1, <3>1 DEF ViewsKnow
    <3>3. views[a] = new
      BY <1>0, <1>4, <3>1, <3>2 DEF View
    <3> QED BY <1>1, <1>4, <1>7, <2>1, <2>2, <3>3 DEF ViewsCurrent, ViewsKnow, Has
  <2>3. CASE ~MayReuse(views[a], i, l)
    <3>1. views' = [views EXCEPT ![a] = new] /\ views' = written'
      BY <1>1, <2>1, <2>3
    <3>2. new.image = i
      BY <1>0
    <3>3. \A j \in Keys : Has(j) /\ resources[j].image.address = i.address
            => resources[j].image = i
      BY <1>0, <1>2 DEF ViewsInv, ImagesApart
    <3> QED BY <1>4, <1>7, <2>1, <3>1, <3>2, <3>3 DEF ViewsCurrent, ViewsKnow, Has
  <2> QED BY <2>2, <2>3
<1> QED BY <1>5, <1>6, <1>8 DEF ViewsInv

(* Every reachable state satisfies the invariant of the views.             *)
LEMMA ViewsInvariant == Spec => []ViewsInv
<1>1. Init => ViewsInv
  <2> SUFFICES ASSUME Init PROVE ViewsInv
    OBVIOUS
  <2>1. LayersInv
    BY LayersInitRight DEF Init
  <2>2. \A k \in Keys : ~Has(k)
    BY DEF Init, LayersInit, Has
  <2>3. ViewsTypeOK
    <3>1. 1..0 = {} /\ 0 \in 0..MaxSets
      BY SetsAssumption
    <3>2. views \in [1..0 -> View \cup {None}] /\ written \in [1..0 -> View \cup {None}]
      BY <3>1 DEF Init
    <3> QED BY <3>1, <3>2 DEF Init, ViewsTypeOK
  <2> QED BY <2>1, <2>2, <2>3
          DEF Init, ViewsInv, ImagesApart, ImagesDated, ViewsCurrent, ViewsKnow
<1>2. ViewsInv /\ [Next]_vars => ViewsInv'
  <2> SUFFICES ASSUME ViewsInv, [Next]_vars PROVE ViewsInv'
    OBVIOUS
  <2>1. CASE UNCHANGED vars
    <3>1. LayersInv'
      BY <2>1, StutterKeeps DEF vars, ViewsInv
    <3> QED BY <2>1, <3>1 DEF vars, texVars, tableVars, ViewsInv, ViewsTypeOK,
              ImagesApart, ImagesDated, ViewsCurrent, ViewsKnow, Has
  <2> QED BY <2>1, ViewsInvTextures, ViewsInvAllocate, ViewsInvWrite DEF Next
<1> QED BY <1>1, <1>2, PTL DEF Spec

(* As long as no image is made at the address of one that is gone, each    *)
(* set is bound to a view of the image and the layer last written to it.   *)
THEOREM WritesStayCurrent == Spec => []WritesCurrent
<1>1. ViewsInv => WritesCurrent
  BY DEF ViewsInv, WritesCurrent, TypeOK, ViewsTypeOK, View, Images,
         LayersInv, LayersCounted
<1> QED BY <1>1, ViewsInvariant, PTL
=============================================================================
