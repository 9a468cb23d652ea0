--------------------------- MODULE TextureLayers ---------------------------
(***************************************************************************)
(* The textures of sg (sg/src/Texture.cxx).  Textures made from data of    *)
(* the same format and size share one image, a resource, of which each has *)
(* a layer; copies of a texture share its layer.  A resource counts the    *)
(* references to each layer and, apart from that, its unused layers; it    *)
(* grows when none is left and goes when all are unused.                   *)
(*                                                                         *)
(* Layers are zero based, as in the code.  An image has an address, which  *)
(* is what the code compares, and a serial number, which tells it from the *)
(* images that had the same address before.                                *)
(***************************************************************************)
EXTENDS Integers, FiniteSets

CONSTANTS
  Textures,
  Keys,        \* Texture::Impl::Key: format, size, levels, samples
  Contents,    \* data of a texture
  Addresses,   \* where an image object can be
  None,
  Layers,      \* layers of a new image (the constant Layers)
  MaxLayers,   \* bound: layers of an image
  MaxImages    \* bound: images created

(* What a texture keeps: key_ and layer_.                                  *)
Uses == [key : Keys, layer : 0..(MaxLayers - 1)]

(* A resource whose image has n layers.                                    *)
Resource(n) ==
  [image : [address : Addresses, serial : 1..MaxImages],
   data : [0..(n - 1) -> Contents \cup {None}],
   refCounts : [0..(n - 1) -> Nat],
   remaining : 0..n, current : 0..(n - 1)]

ASSUME LayersAssumption ==
  /\ None \notin Contents \cup Keys \cup Addresses \cup Uses
  /\ \A n \in 1..MaxLayers : None \notin Resource(n)
  /\ Layers \in Nat \ {0} /\ MaxLayers \in Nat /\ MaxImages \in Nat
  /\ Layers <= MaxLayers

VARIABLES
  tex,         \* for each texture key_ and layer_, or None
  resources,   \* Texture::Impl::resources_
  images,      \* history: number of images created
  stray,       \* history: layers counted for a constructor that threw
  unyielded    \* history: layers that an assignment freed, per resource

texVars == <<tex, resources, images, stray, unyielded>>

Alive(t) == tex[t] # None
Has(k) == resources[k] # None
Size(r) == Cardinality(DOMAIN r.refCounts)
LayerOf(t) == tex[t].layer
ResourceOf(t) == resources[tex[t].key]

LayersTypeOK ==
  /\ tex \in [Textures -> Uses \cup {None}]
  /\ \A k \in Keys :
       Has(k) => \E n \in 1..MaxLayers : resources[k] \in Resource(n)
  /\ images \in 0..MaxImages
  /\ stray \in [Keys -> SUBSET (0..(MaxLayers - 1))]
  /\ unyielded \in [Keys -> Nat]

LayersInit ==
  /\ tex = [t \in Textures |-> None]
  /\ resources = [k \in Keys |-> None]
  /\ images = 0
  /\ stray = [k \in Keys |-> {}]
  /\ unyielded = [k \in Keys |-> 0]

-----------------------------------------------------------------------------
(* Images and resources.                                                   *)

(* A new image: anywhere but where a live one is.                          *)
NewImages ==
  {[address |-> a, serial |-> images + 1] :
     a \in Addresses \ {resources[k].image.address : k \in {j \in Keys : Has(j)}}}

NewResource(image) ==
  [image |-> image,
   data |-> [l \in 0..(Layers - 1) |-> None],
   refCounts |-> [l \in 0..(Layers - 1) |-> 0],
   remaining |-> Layers, current |-> 0]

(* Mutant of Grown: the layers are not copied to the new image.            *)
GrownBlank(r, n, image) ==
  [r EXCEPT !.image = image,
            !.data = [l \in 0..(n - 1) |-> None],
            !.refCounts = [l \in 0..(n - 1) |-> IF l < Size(r) THEN @[l] ELSE 0],
            !.remaining = @ + (n - Size(r))]

(* setLayerCount(): the layers move to an image with n.                    *)
Grown(r, n, image) ==
  [r EXCEPT !.image = image,
            !.data = [l \in 0..(n - 1) |-> IF l < Size(r) THEN @[l] ELSE None],
            !.refCounts = [l \in 0..(n - 1) |-> IF l < Size(r) THEN @[l] ELSE 0],
            !.remaining = @ + (n - Size(r))]

(* The resources in which a constructor may look for a layer: a new one, a *)
(* grown one (twice as large; if that fails, larger by one), or as it is.  *)
Prepared(k) ==
  IF ~Has(k) THEN {NewResource(i) : i \in NewImages}
  ELSE IF resources[k].remaining = 0
    THEN LET n == Size(resources[k])
         IN {Grown(resources[k], m, i) :
               m \in {2 * n, n + 1} \cap 1..MaxLayers, i \in NewImages}
    ELSE {resources[k]}

IsNew(r, k) == ~Has(k) \/ r.image # resources[k].image

(* The first layer without references, from current on and around.  The    *)
(* loop of the code does not end if there is none.                         *)
FirstFree(r) ==
  LET At(d) == (r.current + d) % Size(r)
      d == CHOOSE d \in 0..(Size(r) - 1) :
             /\ r.refCounts[At(d)] = 0
             /\ \A e \in 0..(d - 1) : r.refCounts[At(e)] > 0
  IN At(d)

Taken(r, l) == [r EXCEPT !.refCounts[l] = @ + 1, !.remaining = @ - 1,
                         !.current = (l + 1) % Size(r)]

Referenced(r, l) == [r EXCEPT !.refCounts[l] = @ + 1]

Released(r, l) == [r EXCEPT !.refCounts[l] = @ - 1]

-----------------------------------------------------------------------------
(* The operations of textures.                                             *)

(* Texture::Impl::Impl(data).  The write of the data may throw, after the  *)
(* layer was taken: no texture exists then that could give it back.  When  *)
(* the image cannot be made or the layers cannot be copied, nothing has    *)
(* changed and the call throws.                                            *)
Create(t, k, c) ==
  /\ ~Alive(t)
  /\ \E r \in Prepared(k) :
       LET l == FirstFree(r) IN
       /\ IsNew(r, k) => images < MaxImages
       /\ images' = IF IsNew(r, k) THEN images + 1 ELSE images
       /\ \/ /\ resources' = [resources EXCEPT ![k] =
                                [Taken(r, l) EXCEPT !.data[l] = c]]
             /\ tex' = [tex EXCEPT ![t] = [key |-> k, layer |-> l]]
             /\ UNCHANGED stray
          \/ /\ resources' = [resources EXCEPT ![k] = Taken(r, l)]
             /\ stray' = [stray EXCEPT ![k] = @ \cup {l}]
             /\ UNCHANGED tex
  /\ UNCHANGED unyielded

(* The constructors that copy another texture.                             *)
Copy(t, u) ==
  /\ ~Alive(t) /\ Alive(u)
  /\ tex' = [tex EXCEPT ![t] = tex[u]]
  /\ resources' = [resources EXCEPT ![tex[u].key] = Referenced(@, LayerOf(u))]
  /\ UNCHANGED <<images, stray, unyielded>>

(* The other's layer gains a reference, this one's loses one; a layer that *)
(* has none left is not given back to the resource.                        *)
Assigned(t, u) ==
  LET gained == [resources EXCEPT ![tex[u].key] = Referenced(@, LayerOf(u))]
  IN [gained EXCEPT ![tex[t].key] = Released(@, LayerOf(t))]

(* operator=                                                               *)
Assign(t, u) ==
  /\ Alive(t) /\ Alive(u)
  /\ resources' = Assigned(t, u)
  /\ tex' = [tex EXCEPT ![t] = tex[u]]
  /\ unyielded' = IF resources'[tex[t].key].refCounts[LayerOf(t)] = 0
                    THEN [unyielded EXCEPT ![tex[t].key] = @ + 1]
                    ELSE unyielded
  /\ UNCHANGED <<images, stray>>

(* Mutant of Yielded: the layer is not counted as unused.                  *)
YieldedUncounted(r, l) == Released(r, l)

(* The resource once a texture with layer l is gone; None when it goes.    *)
Yielded(r, l) ==
  LET less == Released(r, l) IN
  CASE less.refCounts[l] > 0 -> less
    [] less.refCounts[l] = 0 /\ r.remaining + 1 = Size(r) -> None
    [] OTHER -> [less EXCEPT !.remaining = @ + 1, !.current = l]

(* ~Impl                                                                   *)
Destroy(t) ==
  LET k == tex[t].key  after == Yielded(ResourceOf(t), LayerOf(t)) IN
  /\ Alive(t)
  /\ resources' = [resources EXCEPT ![k] = after]
  /\ tex' = [tex EXCEPT ![t] = None]
  /\ IF after = None
       THEN /\ stray' = [stray EXCEPT ![k] = {}]
            /\ unyielded' = [unyielded EXCEPT ![k] = 0]
       ELSE UNCHANGED <<stray, unyielded>>
  /\ UNCHANGED images

(* updateImage()                                                           *)
Update(t, c) ==
  /\ Alive(t)
  /\ resources' = [resources EXCEPT ![tex[t].key].data[LayerOf(t)] = c]
  /\ UNCHANGED <<tex, images, stray, unyielded>>

LayersNext ==
  \E t \in Textures :
    \/ \E k \in Keys, c \in Contents : Create(t, k, c)
    \/ \E c \in Contents : Update(t, c)
    \/ Destroy(t)
    \/ \E u \in Textures : Copy(t, u) \/ Assign(t, u)

-----------------------------------------------------------------------------
(* Properties.                                                             *)

Unused(r) == {l \in DOMAIN r.refCounts : r.refCounts[l] = 0}

(* A layer has as many references as textures that use it, but for layers  *)
(* taken by a constructor that threw; a texture's resource exists, with    *)
(* its layer, after any copies, assignments and growth: the destructor     *)
(* never erases a resource that somebody uses.                             *)
ReferencesRight ==
  /\ \A t \in Textures :
       Alive(t) => Has(tex[t].key) /\ LayerOf(t) \in DOMAIN ResourceOf(t).refCounts
  /\ \A k \in Keys : Has(k) =>
       \A l \in DOMAIN resources[k].refCounts :
         resources[k].refCounts[l] =
           Cardinality({t \in Textures : tex[t] = [key |-> k, layer |-> l]})
             + (IF l \in stray[k] THEN 1 ELSE 0)

(* The number of unused layers is kept apart from the reference counts: it *)
(* never exceeds what they say, or the constructor's search for a layer    *)
(* would not end, and it falls short of it by the layers that operator=    *)
(* freed only.  A resource of which no layer is in use therefore exists    *)
(* only after an assignment.                                               *)
RemainingRight ==
  \A k \in Keys : Has(k) =>
    LET r == resources[k] IN
    /\ r.remaining + unyielded[k] = Cardinality(Unused(r))
    /\ Unused(r) = DOMAIN r.refCounts => unyielded[k] > 0

(* References and the number of unused layers, which are updated in        *)
(* different places, are right together.                                   *)
LayersCounted == LayersTypeOK /\ ReferencesRight /\ RemainingRight

(* What each texture shows.                                                *)
Shown(t) == IF Alive(t) THEN ResourceOf(t).data[LayerOf(t)] ELSE None

Promise == INSTANCE TexturePromise WITH
  cell <- tex, shows <- [t \in Textures |-> Shown(t)]

(* Layers and counts implement TexturePromise: textures that were not      *)
(* copied from each other never show each other's data, and no texture     *)
(* loses its data when the image grows or others come and go.              *)
KeepsTexturePromise == Promise!Spec
=============================================================================
