--------------------------- MODULE MCTextureTable ---------------------------
(***************************************************************************)
(* Three textures and two resources, of one layer each at first, which     *)
(* grow to two or to three layers; a table of one set.                     *)
(***************************************************************************)
EXTENDS TextureTable, TLC

Symmetry ==
  Permutations(Textures) \cup Permutations(Keys) \cup Permutations(Contents)
    \cup Permutations(Addresses)

(* Bounds: one constructor throws, and one layer is freed by an assignment. *)
Bounded ==
  /\ Cardinality(UNION {stray[k] : k \in Keys}) <= 1
  /\ \A k, j \in Keys : stray[k] # {} => stray[j] = {} \/ j = k
  /\ \A k \in Keys : unyielded[k] <= 1
=============================================================================
