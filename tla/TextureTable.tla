---------------------------- MODULE TextureTable ----------------------------
(***************************************************************************)
(* A descriptor table (cg/src/vk/DcTableVK.cxx) with one entry for an      *)
(* image and its sampler, to which the renderer copies textures            *)
(* (NewRenderer::writeTextureMaps, Texture::Impl::copy).  Each set of the  *)
(* table keeps the view that it was last written with, and reuses it when  *)
(* it is written with the same layer of the same image.                    *)
(***************************************************************************)
EXTENDS TextureLayers

CONSTANT MaxSets   \* bound: sets of the table

ASSUME SetsAssumption == MaxSets \in Nat

VARIABLES
  views,     \* DcTableVK::imgRefs_: the view of each set, or None
  written,   \* history: image and layer last written to each set, or None
  reused     \* history: was an image created where one had been before?

tableVars == <<views, written, reused>>
vars == <<texVars, tableVars>>

TypeOK ==
  /\ LayersTypeOK
  /\ \E n \in 0..MaxSets :
       LET Sets == [1..n -> [image : [address : Addresses, serial : 1..MaxImages],
                             layer : 0..(MaxLayers - 1)] \cup {None}]
       IN views \in Sets /\ written \in Sets
  /\ reused \in BOOLEAN

Init ==
  /\ LayersInit
  /\ views = [a \in {} |-> None] /\ written = views
  /\ reused = FALSE

(* Addresses where images are or, by the views left of them, were.         *)
Known == {resources[k].image.address : k \in {j \in Keys : Has(j)}}
           \cup {views[a].image.address : a \in {b \in DOMAIN views : views[b] # None}}

(* Textures come and go; the views do not learn of it.                     *)
ChangeTextures ==
  /\ LayersNext
  /\ reused' = \/ reused
               \/ \E k \in Keys : /\ resources'[k] # None
                                  /\ resources'[k].image.serial > images
                                  /\ resources'[k].image.address \in Known
  /\ UNCHANGED <<views, written>>

(* DcTableVK::allocate(n): nothing when there are n sets, else new sets    *)
(* without views; or an exception, which changes nothing.                  *)
Allocate(n) ==
  /\ n # Cardinality(DOMAIN views)
  /\ views' = [a \in 1..n |-> None] /\ written' = views'
  /\ UNCHANGED <<texVars, reused>>

(* Mutant of MayReuse: the layer is not looked at.                         *)
MayReuseImage(view, image, layer) ==
  view # None /\ view.image.address = image.address

MayReuse(view, image, layer) ==
  /\ view # None
  /\ view.image.address = image.address
  /\ view.layer = layer

(* Texture::Impl::copy and DcTableVK::write: the descriptor refers to the  *)
(* view that the set holds afterwards.  (When no view can be created the   *)
(* call throws and changes nothing.)                                       *)
Write(a, t) ==
  LET image == ResourceOf(t).image
      new == [image |-> image, layer |-> LayerOf(t)]
  IN /\ Alive(t)
     /\ views' = IF MayReuse(views[a], image, LayerOf(t))
                   THEN views ELSE [views EXCEPT ![a] = new]
     /\ written' = [written EXCEPT ![a] = new]
     /\ UNCHANGED <<texVars, reused>>

Next ==
  \/ ChangeTextures
  \/ \E n \in 0..MaxSets : Allocate(n)
  \/ \E a \in DOMAIN views, t \in Textures : Write(a, t)

Spec == Init /\ [][Next]_vars

-----------------------------------------------------------------------------
(* Properties.                                                             *)

(* "Check if view object can be reused" (DcTableVK.cxx): the view that a  *)
(* set is bound to is of the image and the layer that were last written to *)
(* it, whatever images were created and destroyed since.                   *)
ViewsCurrent == views = written

(* The same, unless an image was created at the address of one that is     *)
(* gone: what was written to the set before, how the image grew since and  *)
(* which layer the texture got makes no difference.                        *)
WritesCurrent == TypeOK /\ (~reused => ViewsCurrent)
=============================================================================
