---------------------------- MODULE MCSwapchain ----------------------------
(***************************************************************************)
(* Three images with a minimum of two, the usual swapchain: two images can *)
(* be acquired at a time, so that semaphores change slots.  One command    *)
(* buffer draws to them.                                                   *)
(***************************************************************************)
EXTENDS Swapchain

(* Bounds: a command buffer draws to one image and is not enqueued after a *)
(* reset (ImageLayout shows what that does), and one step fails: either a  *)
(* transition of an image or a submission that waits for a semaphore.      *)
Bounded ==
  /\ \A c \in CmdBufs : Cardinality(touches[c]) <= 1
  /\ \A c \in pools : begun[c] => handle[c] = "recording"
  /\ Cardinality(failed) + Cardinality(unwaited) <= 1
=============================================================================
