---------------------------- MODULE MCSegments ----------------------------
(***************************************************************************)
(* Primitives with two kinds of data each, of up to three units, in a      *)
(* buffer that has not room for all of them.                               *)
(***************************************************************************)
EXTENDS Segments

Symmetry == Permutations(Primitives)
=============================================================================
