--------------------------- MODULE MCImageLayout ---------------------------
(***************************************************************************)
(* Model values for ImageLayout.  Two command buffers give batches in      *)
(* which one buffer is enqueued while the other is still being recorded;   *)
(* two plain images give copies whose two transitions have different       *)
(* outcomes; one presentable image gives submissions nobody asked for.     *)
(***************************************************************************)
EXTENDS ImageLayout, TLC

Symmetry == Permutations(CmdBufs) \cup Permutations(Plain)
=============================================================================
