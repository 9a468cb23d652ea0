---------------------------- MODULE ImageLayout ----------------------------
(***************************************************************************)
(* The layouts of images (cg/src/vk/ImageVK.cxx) over the queue of module  *)
(* CmdQueue.  An image remembers the layout it is in and the one it goes   *)
(* to; the barrier that takes it there is recorded in the queue's priority *)
(* command buffer together with a handler, which QueueVK::submit calls     *)
(* with the outcome of the whole batch.                                    *)
(*                                                                         *)
(* Vulkan's own notion of the layout (devLayout) is changed by the device  *)
(* alone: by barriers and by the accesses of command buffers.              *)
(***************************************************************************)
EXTENDS CmdQueue

CONSTANTS
  Presentable,  \* the images that belong to a swapchain
  Attachments   \* the images that passes draw to (Image::Attachment)

ASSUME ImagesAssumption ==
  /\ Presentable \subseteq Images
  /\ Attachments \subseteq Images

VARIABLES
  layout,      \* ImageVK::layout_
  nextLayout,  \* ImageVK::nextLayout_
  devLayout,   \* the layout that the device has the image in
  failed,      \* images for which a transition was reported to have failed
  wrong        \* images accessed in another layout than the one recorded

imageVars == <<layout, nextLayout, devLayout, failed, wrong>>
vars == <<queueVars, imageVars>>

(* "fresh" is the layout of a new image (UNDEFINED or PREINITIALIZED).     *)
Layouts == {"fresh", "general", "present"}

Plain == Images \ Presentable

TypeOK ==
  /\ QueueTypeOK
  /\ layout \in [Images -> Layouts]
  /\ nextLayout \in [Images -> Layouts]
  /\ devLayout \in [Images -> Layouts]
  /\ failed \subseteq Images
  /\ wrong \subseteq Images

Init ==
  /\ QueueInit
  /\ layout = [i \in Images |-> "fresh"]
  /\ nextLayout = [i \in Images |-> "fresh"]
  /\ devLayout = [i \in Images |-> "fresh"]
  /\ failed = {}
  /\ wrong = {}

-----------------------------------------------------------------------------
(* ImageVK::changeLayout: what becomes of a request.                       *)

(* It returns at once when the image is in, or goes to, that layout...     *)
Satisfied(i, l) == nextLayout[i] = l

(* ... and is accepted when no transition of the image is pending.  A      *)
(* request that is neither throws and changes nothing.                     *)
Accepted(i, l) == nextLayout[i] # l /\ layout[i] = nextLayout[i]

(* nextLayout_ is set before the queue is asked for the priority buffer.   *)
Requested(S, l) == [i \in Images |-> IF i \in S THEN l ELSE nextLayout[i]]

-----------------------------------------------------------------------------
(* The device.                                                             *)

(* The barriers of the batch run first, the command buffers wait for them  *)
(* (the semaphore between the two submissions).  The command buffers of    *)
(* the batch run in no particular order.                                   *)
AfterBarriers(next, cs) ==
  [i \in Images |-> IF i \in cs THEN next[i] ELSE devLayout[i]]

Execute(next, cs) ==
  /\ wrong' = wrong \cup {i \in Images :
                             /\ AfterBarriers(next, cs)[i] # "general"
                             /\ \E c \in pending : i \in needs[c]}
  /\ devLayout' = [i \in Images |-> IF \E c \in pending : i \in touches[c]
                                    THEN "general"
                                    ELSE AfterBarriers(next, cs)[i]]

(* Mutant of CallHandlers: the result is not looked at.                    *)
CommitAlways(next, cs, result) ==
  /\ layout' = [i \in Images |-> IF i \in cs THEN next[i] ELSE layout[i]]
  /\ nextLayout' = next
  /\ failed' = IF result THEN failed ELSE failed \cup cs

(* Mutant of CallHandlers: only the images that the batch accesses change. *)
CommitAccessed(next, cs, result) ==
  LET done == {i \in cs : \E c \in pending : i \in touches[c]}
  IN  /\ layout' = [i \in Images |->
                      IF result /\ i \in done THEN next[i] ELSE layout[i]]
      /\ nextLayout' = [i \in Images |->
                          IF i \in cs /\ ~(result /\ i \in done) THEN layout[i]
                                                              ELSE next[i]]
      /\ failed' = IF result THEN failed ELSE failed \cup cs

(* The completion handlers that changeLayout registers.                    *)
CallHandlers(next, cs, result) ==
  /\ layout' = [i \in Images |->
                  IF result /\ i \in cs THEN next[i] ELSE layout[i]]
  /\ nextLayout' = [i \in Images |->
                      IF ~result /\ i \in cs THEN layout[i] ELSE next[i]]
  /\ failed' = IF result THEN failed ELSE failed \cup cs

(* QueueVK::submit, with the handlers of the images in cs registered.      *)
(* When only the wait fails, the device may have executed the batch.       *)
SubmitBatch(next, cs, outcome) ==
  /\ NotifyAndClear
  /\ CallHandlers(next, cs, outcome = "complete")
  /\ \/ outcome \in {"complete", "waitIdle"} /\ Execute(next, cs)
     \/ outcome # "complete" /\ UNCHANGED <<devLayout, wrong>>

-----------------------------------------------------------------------------
(* Actions.                                                                *)

Submit(outcome) ==
  /\ outcome \in SubmitOutcomes(pendPrio)
  /\ SubmitBatch(nextLayout, callbs, outcome)

(* changeLayout(l, false), as WsiVK::present calls it: the request and the *)
(* submission of everything that is pending, in one call.                  *)
ChangeNow(i, l, outcome) ==
  /\ Accepted(i, l)
  /\ outcome \in SubmitOutcomes(TRUE)
  /\ SubmitBatch(Requested({i}, l), callbs \cup {i}, outcome)

(* The same call when the queue cannot provide the priority buffer: it     *)
(* throws, with nextLayout_ set and no handler registered.                 *)
ChangeThrows(i, l) ==
  /\ Accepted(i, l)
  /\ PriorityMayFail
  /\ nextLayout' = Requested({i}, l)
  /\ failed' = failed \cup {i}
  /\ UNCHANGED <<queueVars, layout, devLayout, wrong>>

(* Mutant of EncodeCopy: only the destination is asked.                    *)
EncodeCopyAskDst(c, dst, src) ==
  LET S == {i \in {dst} : Accepted(i, "general")}
  IN  /\ dst \in S \/ Satisfied(dst, "general")
      /\ Encode(c, {dst, src}, {})
      /\ GetPriority(S)
      /\ nextLayout' = Requested(S, "general")
      /\ UNCHANGED <<pending, layout, devLayout, failed, wrong>>

(* CmdBufferVK::encode of a TfEncoder that copies src to dst: both images  *)
(* are asked, with deferred transitions, into the general layout.          *)
EncodeCopy(c, dst, src) ==
  LET S == {i \in {dst, src} : Accepted(i, "general")}
  IN  /\ \A i \in {dst, src} : i \in S \/ Satisfied(i, "general")
      /\ Encode(c, {dst, src}, {})
      /\ GetPriority(S)
      /\ nextLayout' = Requested(S, "general")
      /\ UNCHANGED <<pending, layout, devLayout, failed, wrong>>

(* A copy followed by a command that the encoder rejects: the command      *)
(* buffer is reset, the transitions stay requested.                        *)
EncodeCopyThenThrow(c, dst, src) ==
  LET S == {i \in {dst, src} : Accepted(i, "general")}
  IN  /\ \A i \in {dst, src} : i \in S \/ Satisfied(i, "general")
      /\ EncodeThrows(c)
      /\ GetPriority(S)
      /\ nextLayout' = Requested(S, "general")
      /\ UNCHANGED <<pending, layout, devLayout, failed, wrong>>

(* A copy whose first transition finds that the queue cannot provide the   *)
(* priority buffer (when it can, the second transition reuses it).         *)
EncodeCopyNoPriority(c, dst, src) ==
  \E i \in {dst, src} :
    /\ Accepted(i, "general")
    /\ i = dst \/ Satisfied(dst, "general")
    /\ PriorityMayFail
    /\ EncodeThrows(c)
    /\ nextLayout' = Requested({i}, "general")
    /\ failed' = failed \cup {i}
    /\ UNCHANGED <<prioVars, pending, layout, devLayout, wrong>>

(* An encoder that is rejected at its first command.                       *)
EncodeRejected(c) ==
  /\ EncodeThrows(c)
  /\ UNCHANGED <<prioVars, pending, imageVars>>

(* CmdBufferVK::encode of a GrEncoder whose pass clears and draws to i:    *)
(* the pass takes i from any layout to the general one, untracked.         *)
EncodeDraw(c, i) ==
  /\ Encode(c, {}, {i})
  /\ UNCHANGED <<prioVars, pending, imageVars>>

QueueStep ==
  \E c \in CmdBufs :
    CreateCmdBuffer(c) \/ Unmake(c) \/ Reset(c) \/ Enqueue(c)

Next ==
  \/ QueueStep /\ UNCHANGED imageVars
  \/ \E c \in CmdBufs, dst, src \in Plain :
        \/ EncodeCopy(c, dst, src)
        \/ EncodeCopyThenThrow(c, dst, src)
        \/ EncodeCopyNoPriority(c, dst, src)
  \/ \E c \in CmdBufs : EncodeRejected(c)
  \/ \E c \in CmdBufs, i \in Attachments : EncodeDraw(c, i)
  \/ \E outcome \in SubmitOutcomes(pendPrio) : Submit(outcome)
  \/ \E i \in Presentable : \E outcome \in SubmitOutcomes(TRUE) :
        ChangeNow(i, "present", outcome)
  \/ \E i \in Presentable : ChangeThrows(i, "present")

Spec == Init /\ [][Next]_vars

-----------------------------------------------------------------------------
(* Properties.                                                             *)

(* The queue and its command buffers agree on what is enqueued, although   *)
(* each keeps its own record (QueueVK::pending_, CmdBufferVK::pending_);   *)
(* nothing enqueued was destroyed, and all of it can be submitted.         *)
PendingAgree ==
  /\ pending = {c \in CmdBufs : cbPending[c]}
  /\ \A c \in pending : c \in pools /\ handle[c] = "executable" /\ ~begun[c]

(* A handler is registered for every image that has a transition pending,  *)
(* unless one of its transitions was reported to have failed; no handler   *)
(* outlives its transition, and the priority buffer is submitted if and    *)
(* only if it has a handler to call.                                       *)
TransitionTracked ==
  /\ \A i \in callbs : layout[i] # nextLayout[i]
  /\ \A i \in Images \ failed : layout[i] # nextLayout[i] => i \in callbs
  /\ pendPrio <=> callbs # {}

(* What ImageVK::layout says of an image that went to the general layout   *)
(* is true on the device, whatever failed in between.                      *)
LayoutTruth ==
  \A i \in Images : layout[i] = "general" => devLayout[i] = "general"

(* No batch makes the device access an image in another layout than the    *)
(* one its commands were recorded with, unless the program was told that a *)
(* transition of this image failed.                                        *)
NoWrongAccess == wrong \subseteq failed

(* What was enqueued is what executes: nothing is recorded, reset or       *)
(* dropped from a command buffer while it is pending.                      *)
EnqueuedFrozen ==
  [][\A c \in pending :
        /\ c \in pools'
        /\ c \in pending' => /\ handle'[c] = handle[c]
                             /\ needs'[c] = needs[c]
                             /\ touches'[c] = touches[c]]_vars

(* The promise of module LayoutPromise: transitions are committed or       *)
(* dropped as one batch, and none is retargeted on its way.                *)
Promise == INSTANCE LayoutPromise WITH
  cur <- layout,
  goal <- [i \in Images |-> IF i \in callbs THEN nextLayout[i] ELSE layout[i]]

KeepsPromise == Promise!Spec
=============================================================================
