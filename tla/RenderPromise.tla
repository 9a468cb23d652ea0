--------------------------- MODULE RenderPromise ---------------------------
(***************************************************************************)
(* What rendering a scene promises, without descriptor tables, uniform     *)
(* buffers or states (NewRenderer.h: "Renders a scene on a given target"): *)
(* every drawable is submitted once, in one pass or in several, the opaque *)
(* ones first and in any order, the blended ones after all of them and in  *)
(* the order of the scene; no pass is empty while drawables are left; or   *)
(* the call fails and says so.                                             *)
(***************************************************************************)
EXTENDS Naturals, Sequences, FiniteSets

VARIABLES
  busy,     \* is a scene being rendered?
  opaques,  \* opaque drawables left to submit
  blends,   \* blended drawables left to submit, in order
  drawn     \* what was submitted for this scene, in order

Init ==
  /\ ~busy
  /\ opaques = {}
  /\ blends = <<>>
  /\ drawn = <<>>

Elements(s) == {s[i] : i \in DOMAIN s}

Begin ==
  /\ ~busy /\ busy'
  /\ opaques' \cap Elements(blends') = {}
  /\ Cardinality(Elements(blends')) = Len(blends')
  /\ drawn' = <<>>

(* A pass submits some opaque drawables, O, then the k first blended ones. *)
Pass(O, k) ==
  LET n == Cardinality(O)
      new == SubSeq(drawn', Len(drawn) + 1, Len(drawn'))
  IN /\ busy
     /\ k > 0 => O = opaques
     /\ O = {} /\ k = 0 => opaques = {} /\ blends = <<>>
     /\ SubSeq(drawn', 1, Len(drawn)) = drawn
     /\ Len(new) = n + k
     /\ Elements(SubSeq(new, 1, n)) = O
     /\ SubSeq(new, n + 1, n + k) = SubSeq(blends, 1, k)
     /\ opaques' = opaques \ O
     /\ blends' = SubSeq(blends, k + 1, Len(blends))
     /\ busy' <=> opaques' # {} \/ blends' # <<>>

Fail ==
  /\ busy /\ ~busy'
  /\ UNCHANGED drawn
  /\ opaques' = {} /\ blends' = <<>>

Next ==
  \/ Begin
  \/ \E O \in SUBSET opaques, k \in 0..Len(blends) : Pass(O, k)
  \/ Fail

Spec == Init /\ [][Next]_<<busy, opaques, blends, drawn>>
=============================================================================
