---------------------------- MODULE RenderPasses ----------------------------
(***************************************************************************)
(* Render passes and targets (cg/src/vk/PassVK.cxx).  A Vulkan render pass *)
(* fixes what is done to each attachment when the pass begins; a PassVK    *)
(* leaves that to each use of a target, and keeps the last render passes   *)
(* that it made, each for one combination of operations, in four slots.    *)
(*                                                                         *)
(* One PassVK is modelled.  A load operation stands for a LoadStoreOp: the *)
(* store operation is compared and passed on along with it.                *)
(***************************************************************************)
EXTENDS Integers, Sequences, FiniteSetsExt

CONSTANTS
  NumColors,   \* size of PassVK::colors_, 0 if it is null
  HasDepth,    \* is there a PassVK::depthStencil_?
  TargetOps,   \* the TargetOp values that clients set targets with
  None

LoadOps == {"clear", "load", "dontcare"}

ASSUME PassAssumption ==
  /\ NumColors \in Nat
  /\ HasDepth \in BOOLEAN
  /\ \A op \in TargetOps :
       /\ op.colorOps \in [1..NumColors -> LoadOps]
       /\ op.depthOp \in LoadOps /\ op.stencilOp \in LoadOps
       /\ Len(op.colorValues)
            >= Cardinality({i \in 1..NumColors : op.colorOps[i] = "clear"})

VARIABLES
  renderPasses,  \* PassVK::renderPasses_
  recorded,      \* slots of the render passes that the commands which are
                 \* recorded, or not executed yet, refer to
  dangling,      \* was one of these render passes destroyed?
  used           \* history: combinations of operations asked for

passVars == <<renderPasses, recorded, dangling, used>>

Slots == 1..4

(* The operations of a TargetOp, and the ones that targets and pipelines   *)
(* are created with.                                                       *)
OpsOf(op) ==
  [colors |-> op.colorOps, depth |-> op.depthOp, stencil |-> op.stencilOp]

DefaultOps ==
  [colors |-> [i \in 1..NumColors |-> "load"],
   depth |-> "load", stencil |-> "load"]

(* What operations there are.                                              *)
AllOps == {OpsOf(op) : op \in TargetOps} \cup {DefaultOps}

PassInit ==
  /\ renderPasses = [i \in Slots |-> None]
  /\ recorded = {} /\ dangling = FALSE /\ used = {}

(* PassVK::setColors: an attachment that is not loaded need not have       *)
(* contents.                                                               *)
Color(op) ==
  [load |-> op, initial |-> IF op = "load" THEN "general" ELSE "undefined"]

(* PassVK::setDepthStencil: one layout for both aspects.                   *)
DepthStencil(depth, stencil) ==
  [load |-> depth, stencilLoad |-> stencil,
   initial |-> IF "load" \in {depth, stencil} THEN "general" ELSE "undefined"]

Attachments(ops) ==
  [i \in 1..NumColors |-> Color(ops.colors[i])]
    \o IF HasDepth THEN <<DepthStencil(ops.depth, ops.stencil)>> ELSE <<>>

(* The render pass that is made for ops.                                   *)
Made(ops) ==
  [colors |-> ops.colors, depth |-> ops.depth, stencil |-> ops.stencil,
   attachments |-> Attachments(ops)]

ASSUME MadeAssumption == \A ops \in AllOps : Made(ops) # None

(* RenderPass::equalOp.                                                    *)
EqualOp(rp, ops) ==
  /\ rp.depth = ops.depth /\ rp.stencil = ops.stencil
  /\ \A i \in DOMAIN rp.colors : rp.colors[i] = ops.colors[i]

(* The search of PassVK::renderPass ends at the first slot that is empty.  *)
Full(i) == \A j \in 1..i : renderPasses[j] # None
Matching(ops) == {i \in Slots : Full(i) /\ EqualOp(renderPasses[i], ops)}

(* Mutant of SlotFor: always the first slot.                               *)
SlotForAny(ops) == 1

(* The slot for a new render pass: the first one if none is empty.         *)
SlotFor(ops) == IF Full(4) THEN 1 ELSE Min({i \in Slots : ~Full(i)})

(* Does it take the place of one that commands refer to?                   *)
Destroys(ops) ==
  /\ Matching(ops) = {}
  /\ renderPasses[SlotFor(ops)] # None /\ SlotFor(ops) \in recorded

(* PassVK::renderPass, which gives back the render pass in slot i ...      *)
RenderPass(ops, i) ==
  /\ used' = used \cup {ops}
  /\ IF Matching(ops) # {}
       THEN i = Min(Matching(ops)) /\ UNCHANGED renderPasses
       ELSE /\ i = SlotFor(ops)
            /\ renderPasses' = [renderPasses EXCEPT ![i] = Made(ops)]

(* ... or throws: the driver creates none, and the one in the slot is gone *)
NoRenderPass(ops) ==
  /\ Matching(ops) = {}
  /\ used' = used \cup {ops}
  /\ renderPasses' = [renderPasses EXCEPT ![SlotFor(ops)] = None]

(* The render pass that targets and pipelines are created for.             *)
DefaultPassMade ==
  /\ \E i \in Slots : RenderPass(DefaultOps, i)
  /\ dangling' = (dangling \/ Destroys(DefaultOps))
  /\ UNCHANGED recorded

DefaultPassRefused ==
  /\ NoRenderPass(DefaultOps)
  /\ dangling' = (dangling \/ Destroys(DefaultOps))
  /\ UNCHANGED recorded

(* TargetVK::TargetVK, whatever the driver says of the framebuffer: it     *)
(* takes images for all attachments of the pass and for no others.         *)
Compatible(colors, depth) == colors = NumColors /\ depth = HasDepth
NewTarget(colors, depth) ==
  Compatible(colors, depth) /\ (DefaultPassMade \/ DefaultPassRefused)

(* How many of the color attachments up to the i-th are cleared.           *)
Clears(op, i) == Cardinality({j \in 1..i : op.colorOps[j] = "clear"})

(* TargetVK::setBeginInfo: a value for each color attachment, taken from   *)
(* the next of colorValues if it is cleared, and one for depth and stencil *)
(* if either is.                                                           *)
ClearValues(op) ==
  [i \in 1..NumColors |->
     IF op.colorOps[i] = "clear" THEN op.colorValues[Clears(op, i)] ELSE None]
    \o IF HasDepth /\ "clear" \in {op.depthOp, op.stencilOp}
         THEN <<<<op.depthValue, op.stencilValue>>>> ELSE <<>>

-----------------------------------------------------------------------------
(* "Need a new render pass for these operations" (PassVK.cxx): for as long *)
(* as no more combinations of operations are in use than there are slots,  *)
(* the one that targets and pipelines are created with included, no        *)
(* command refers to a render pass that was destroyed, whatever targets    *)
(* and states are created while commands are recorded or executed.         *)
PassesAlive == Cardinality(used) <= 4 => ~dangling
=============================================================================
