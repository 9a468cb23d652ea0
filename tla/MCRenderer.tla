---------------------------- MODULE MCRenderer ----------------------------
(***************************************************************************)
(* Four masks: two opaque ones with tables of their own, a blended and a   *)
(* skinned one that share their table with the first.  The scenes have up  *)
(* to four drawables of one table, which halves to two and to one, opaque  *)
(* and blended ones that compete for a table, and orders that the passes   *)
(* have to undo.  The sizes make the buffer grow with the second drawable. *)
(***************************************************************************)
EXTENDS Renderer

MCMasks == {"plain", "mapped", "glass", "skinned"}
MCShaderOf == [m \in MCMasks |-> m]
MCTableOf == [m \in MCMasks |-> IF m = "mapped" THEN "maps" ELSE "factors"]
MCScenes ==
  {<<>>,
   <<"plain", "plain", "plain", "plain">>,
   <<"glass", "plain", "glass", "mapped">>,
   <<"glass", "mapped", "glass">>,
   <<"plain", "skinned">>}
=============================================================================
