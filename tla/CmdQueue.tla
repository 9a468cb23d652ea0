------------------------------ MODULE CmdQueue ------------------------------
(***************************************************************************)
(* The submission queue of the Vulkan back end (cg/src/vk/QueueVK.cxx):    *)
(* QueueVK, which batches enqueued command buffers behind one shared       *)
(* "priority" command buffer, and CmdBufferVK, the command buffers that    *)
(* clients encode and enqueue.                                             *)
(*                                                                         *)
(* This module holds the state and the operations; ImageLayout composes    *)
(* them with the images whose layout transitions are recorded in the       *)
(* priority command buffer, and gives the next-state relation.             *)
(*                                                                         *)
(* A Vulkan command buffer is abstracted to the images it accesses:        *)
(*   needs[c]    images whose first access in c expects the general layout *)
(*   touches[c]  images that c leaves in the general layout                *)
(***************************************************************************)
EXTENDS FiniteSets

CONSTANTS
  CmdBufs,  \* command buffers that the program may create
  Images    \* images that the program may create

VARIABLES
  pools,      \* keys of QueueVK::pools_: the live command buffers
  pending,    \* QueueVK::pending_: enqueued, not yet submitted
  pendPrio,   \* QueueVK::pendPrio_: is the priority buffer being recorded?
  callbs,     \* QueueVK::callbsPrio_: images whose handler is registered
  cbPending,  \* CmdBufferVK::pending_, per command buffer
  begun,      \* CmdBufferVK::begun_, per command buffer
  handle,     \* life-cycle state of the VkCommandBuffer on the driver's side
  needs,      \* see above
  touches     \* see above

bufVars == <<pools, cbPending, begun, handle, needs, touches>>
prioVars == <<pendPrio, callbs>>
queueVars == <<bufVars, prioVars, pending>>

(***************************************************************************)
(* The driver's view of a command buffer: what vkBegin, vkEnd and vkReset  *)
(* make of it ("initial" also stands for a buffer whose vkEnd failed and   *)
(* for one whose one-time submission is over: both must begin again).      *)
(***************************************************************************)
HandleStates == {"initial", "recording", "executable"}

QueueTypeOK ==
  /\ pools \subseteq CmdBufs
  /\ pending \subseteq CmdBufs
  /\ pendPrio \in BOOLEAN
  /\ callbs \subseteq Images
  /\ cbPending \in [CmdBufs -> BOOLEAN]
  /\ begun \in [CmdBufs -> BOOLEAN]
  /\ handle \in [CmdBufs -> HandleStates]
  /\ needs \in [CmdBufs -> SUBSET Images]
  /\ touches \in [CmdBufs -> SUBSET Images]

QueueInit ==
  /\ pools = {}
  /\ pending = {}
  /\ pendPrio = FALSE
  /\ callbs = {}
  /\ cbPending = [c \in CmdBufs |-> FALSE]
  /\ begun = [c \in CmdBufs |-> FALSE]
  /\ handle = [c \in CmdBufs |-> "initial"]
  /\ needs = [c \in CmdBufs |-> {}]
  /\ touches = [c \in CmdBufs |-> {}]

-----------------------------------------------------------------------------
(* Command buffers.                                                        *)

(* The VkCommandBuffers of S go back to the initial state, without any of  *)
(* the commands recorded in them.                                          *)
Forget(S) ==
  /\ handle' = [c \in CmdBufs |-> IF c \in S THEN "initial" ELSE handle[c]]
  /\ needs' = [c \in CmdBufs |-> IF c \in S THEN {} ELSE needs[c]]
  /\ touches' = [c \in CmdBufs |-> IF c \in S THEN {} ELSE touches[c]]

(* QueueVK::cmdBuffer: a new buffer from a pool of its own.  (When the     *)
(* pool or the buffer cannot be created nothing is left behind.)           *)
CreateCmdBuffer(c) ==
  /\ c \notin pools
  /\ pools' = pools \cup {c}
  /\ cbPending' = [cbPending EXCEPT ![c] = FALSE]
  /\ begun' = [begun EXCEPT ![c] = FALSE]
  /\ Forget({c})
  /\ UNCHANGED <<prioVars, pending>>

(* ~CmdBufferVK, which calls QueueVK::unmake.  Destroying a pending buffer *)
(* aborts the process, so that step has no successor.                      *)
Unmake(c) ==
  /\ c \in pools
  /\ ~cbPending[c]
  /\ pools' = pools \ {c}
  /\ begun' = [begun EXCEPT ![c] = FALSE]
  /\ Forget({c})
  /\ UNCHANGED <<cbPending, prioVars, pending>>

(* What the begin half of CmdBufferVK::encode makes of the buffer: it      *)
(* begins the VkCommandBuffer unless begun_ says that was done already.    *)
HandleBegun(c) == IF begun[c] THEN handle[c] ELSE "recording"

(* CmdBufferVK::encode of an encoder whose commands all succeed: commands  *)
(* that expect the images of `need` in the general layout and leave those  *)
(* of `need` and `touch` in it.  Recording into a VkCommandBuffer that is  *)
(* not in the recording state is undefined: the commands may be lost.      *)
Encode(c, need, touch) ==
  LET old(f) == IF begun[c] THEN f[c] ELSE {}
      n == old(needs) \cup (need \ old(touches))
      t == old(touches) \cup need \cup touch
  IN  /\ c \in pools
      /\ ~cbPending[c]
      /\ begun' = [begun EXCEPT ![c] = TRUE]
      /\ handle' = [handle EXCEPT ![c] = HandleBegun(c)]
      /\ \/ /\ needs' = [needs EXCEPT ![c] = n]
            /\ touches' = [touches EXCEPT ![c] = t]
         \/ /\ HandleBegun(c) # "recording"
            /\ UNCHANGED <<needs, touches>>
      /\ UNCHANGED <<pools, cbPending>>

(* CmdBufferVK::encode of an encoder that throws half way: the handler     *)
(* resets the buffer.  begun_ stays set, as it does in CmdBufferVK::reset. *)
EncodeThrows(c) ==
  /\ c \in pools
  /\ ~cbPending[c]
  /\ begun' = [begun EXCEPT ![c] = TRUE]
  /\ Forget({c})
  /\ UNCHANGED <<pools, cbPending>>

(* Mutant of Reset: the check of pending_ is missing.                      *)
ResetAnyTime(c) ==
  /\ c \in pools
  /\ Forget({c})
  /\ UNCHANGED <<pools, cbPending, begun, prioVars, pending>>

(* CmdBufferVK::reset, called by the client.                               *)
Reset(c) ==
  /\ c \in pools
  /\ ~cbPending[c]
  /\ Forget({c})
  /\ UNCHANGED <<pools, cbPending, begun, prioVars, pending>>

(* CmdBufferVK::enqueue, which calls QueueVK::enqueue.  vkEndCommandBuffer *)
(* may fail: the buffer then needs a new begin and is not enqueued.        *)
Enqueue(c) ==
  /\ c \in pools
  /\ ~cbPending[c]
  /\ begun[c]
  /\ begun' = [begun EXCEPT ![c] = FALSE]
  /\ \/ /\ handle' = [handle EXCEPT ![c] = "executable"]
        /\ cbPending' = [cbPending EXCEPT ![c] = TRUE]
        /\ pending' = pending \cup {c}
        /\ UNCHANGED <<needs, touches>>
     \/ /\ Forget({c})
        /\ UNCHANGED <<cbPending, pending>>
  /\ UNCHANGED <<pools, prioVars>>

-----------------------------------------------------------------------------
(* The priority command buffer and submission.                             *)

(* QueueVK::getPriority calls the driver (pool, buffer, vkBegin) only when *)
(* the priority buffer is not being recorded yet: only then can it throw.  *)
PriorityMayFail == ~pendPrio

(* QueueVK::getPriority, when it succeeds for each image of S in turn.     *)
GetPriority(S) ==
  /\ pendPrio' = (pendPrio \/ S # {})
  /\ callbs' = callbs \cup S

(* The ways QueueVK::submit can end, where prio says whether the priority  *)
(* buffer is being recorded: vkEndCommandBuffer of the priority buffer,    *)
(* vkCreateSemaphore, vkQueueSubmit or vkQueueWaitIdle fails, or the batch *)
(* completes.  The empty set when there is nothing to submit.              *)
SubmitOutcomes(prio) ==
  IF ~prio /\ pending = {}
  THEN {}
  ELSE {"queueSubmit", "waitIdle", "complete"}
         \cup (IF prio THEN {"endPriority"} ELSE {})
         \cup (IF prio /\ pending # {} THEN {"semaphore"} ELSE {})

(* Mutant of NotifyAndClear: didExecute is not called.                     *)
ClearWithoutNotice ==
  /\ pendPrio' = FALSE
  /\ callbs' = {}
  /\ pending' = {}
  /\ Forget(pending)
  /\ UNCHANGED <<pools, begun, cbPending>>

(* Mutant of NotifyAndClear: the handlers stay registered.                 *)
NotifyAndKeep ==
  /\ pendPrio' = FALSE
  /\ pending' = {}
  /\ cbPending' = [c \in CmdBufs |-> cbPending[c] /\ c \notin pending]
  /\ Forget(pending)
  /\ UNCHANGED <<pools, begun, callbs>>

(* notifyAndClear in QueueVK::submit, on the queue's side: whatever the    *)
(* outcome, the priority buffer and every pending command buffer are done. *)
NotifyAndClear ==
  /\ pendPrio' = FALSE
  /\ callbs' = {}
  /\ pending' = {}
  /\ cbPending' = [c \in CmdBufs |-> cbPending[c] /\ c \notin pending]
  /\ Forget(pending)
  /\ UNCHANGED <<pools, begun>>
=============================================================================
