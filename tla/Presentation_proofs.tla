------------------------ MODULE Presentation_proofs ------------------------
(***************************************************************************)
(* Proofs about what is presented: images (ImageLayout), for every set of  *)
(* command buffers and images; their swapchain (Swapchain), of any size,   *)
(* with any minimum of images and any number of command buffers; and the   *)
(* windows (Windows), for any number of objects and windows, any types of  *)
(* events and any depth of dispatching.                                    *)
(***************************************************************************)
EXTENDS Swapchain, Windows, FiniteSetTheorems, TLAPS

(***************************************************************************)
(* The inductive invariant.  LayoutTruth needs that an image which reached *)
(* the general layout never leaves it (swapchain images never get there);  *)
(* NoWrongAccess needs that the commands recorded so far only expect the   *)
(* general layout of images that are in it or go to it.                    *)
(***************************************************************************)
GeneralIsFinal ==
  /\ \A i \in Images : layout[i] = "general" => nextLayout[i] = "general"
  /\ \A i \in Presentable : nextLayout[i] # "general"

NeedsGoGeneral ==
  \A c \in CmdBufs : \A i \in needs[c] :
    nextLayout[i] = "general" \/ i \in failed

Truth == LayoutTruth /\ GeneralIsFinal
Access == NoWrongAccess /\ NeedsGoGeneral

IInv == TypeOK /\ PendingAgree /\ TransitionTracked /\ Truth /\ Access

-----------------------------------------------------------------------------
(* Type correctness.                                                       *)

(* Each action keeps every variable in its type.                           *)
LEMMA NextTypeOK == TypeOK /\ [Next]_vars => TypeOK'
<1> SUFFICES ASSUME TypeOK, [Next]_vars PROVE TypeOK'
  OBVIOUS
<1> USE ImagesAssumption DEF TypeOK, QueueTypeOK, HandleStates, Layouts, Plain
<1>1. ASSUME NEW c \in CmdBufs,
             CreateCmdBuffer(c) \/ Unmake(c) \/ Reset(c) \/ Enqueue(c),
             UNCHANGED imageVars
      PROVE TypeOK'
  <2>1. CASE CreateCmdBuffer(c)
    BY <1>1, <2>1 DEF CreateCmdBuffer, Forget, imageVars, prioVars
  <2>2. CASE Unmake(c)
    BY <1>1, <2>2 DEF Unmake, Forget, imageVars, prioVars
  <2>3. CASE Reset(c)
    BY <1>1, <2>3 DEF Reset, Forget, imageVars, prioVars
  <2>4. CASE Enqueue(c)
    BY <1>1, <2>4 DEF Enqueue, Forget, imageVars, prioVars
  <2>5. QED BY <1>1, <2>1, <2>2, <2>3, <2>4
<1>2. ASSUME NEW c \in CmdBufs, NEW dst \in Plain, NEW src \in Plain,
             EncodeCopy(c, dst, src)
      PROVE TypeOK'
  BY <1>2 DEF EncodeCopy, Encode, HandleBegun, GetPriority, Requested,
              Accepted, bufVars
<1>3. ASSUME NEW c \in CmdBufs, NEW dst \in Plain, NEW src \in Plain,
             EncodeCopyThenThrow(c, dst, src)
      PROVE TypeOK'
  BY <1>3 DEF EncodeCopyThenThrow, EncodeThrows, Forget, GetPriority,
              Requested, Accepted
<1>4. ASSUME NEW c \in CmdBufs, NEW dst \in Plain, NEW src \in Plain,
             EncodeCopyNoPriority(c, dst, src)
      PROVE TypeOK'
  BY <1>4 DEF EncodeCopyNoPriority, EncodeThrows, Forget, Requested, prioVars
<1>5. ASSUME NEW c \in CmdBufs, EncodeRejected(c)
      PROVE TypeOK'
  BY <1>5 DEF EncodeRejected, EncodeThrows, Forget, prioVars, imageVars
<1>6. ASSUME NEW c \in CmdBufs, NEW i \in Attachments, EncodeDraw(c, i)
      PROVE TypeOK'
  BY <1>6 DEF EncodeDraw, Encode, HandleBegun, prioVars, imageVars
<1>7. ASSUME NEW outcome, Submit(outcome)
      PROVE TypeOK'
  BY <1>7 DEF Submit, SubmitBatch, NotifyAndClear, Forget, CallHandlers,
              Execute, AfterBarriers
<1>8. ASSUME NEW i \in Presentable, NEW outcome, ChangeNow(i, "present", outcome)
      PROVE TypeOK'
  BY <1>8 DEF ChangeNow, Requested, SubmitBatch, NotifyAndClear, Forget,
              CallHandlers, Execute, AfterBarriers
<1>9. ASSUME NEW i \in Presentable, ChangeThrows(i, "present")
      PROVE TypeOK'
  BY <1>9 DEF ChangeThrows, Requested, queueVars, bufVars, prioVars
<1>10. CASE UNCHANGED vars
  BY <1>10 DEF vars, queueVars, bufVars, prioVars, imageVars
<1>11. QED
  BY <1>1, <1>2, <1>3, <1>4, <1>5, <1>6, <1>7, <1>8, <1>9, <1>10
     DEF Next, QueueStep

(* The initial values have their types.                                    *)
LEMMA TypeInit == Init => TypeOK
<1> SUFFICES ASSUME Init PROVE TypeOK
  OBVIOUS
<1>1. pools \subseteq CmdBufs /\ pending \subseteq CmdBufs /\ callbs \subseteq Images
  BY DEF Init, QueueInit
<1>2. pendPrio \in BOOLEAN /\ cbPending \in [CmdBufs -> BOOLEAN]
      /\ begun \in [CmdBufs -> BOOLEAN]
  BY DEF Init, QueueInit
<1>3. handle \in [CmdBufs -> HandleStates]
  BY DEF Init, QueueInit, HandleStates
<1>4. needs \in [CmdBufs -> SUBSET Images] /\ touches \in [CmdBufs -> SUBSET Images]
  BY DEF Init, QueueInit
<1>5. QED BY <1>1, <1>2, <1>3, <1>4 DEF Init, TypeOK, QueueTypeOK, Layouts

(* In every reachable state each variable of the queue, of its command     *)
(* buffers and of the images has a value of its type.                      *)
THEOREM TypeCorrect == Spec => []TypeOK
BY TypeInit, NextTypeOK, PTL DEF Spec

-----------------------------------------------------------------------------
(* Submission preserves the invariant, whichever way it ends.  The lemma   *)
(* is about SubmitBatch with any set of handlers and any requested layouts *)
(* that are consistent with each other: Submit and ChangeNow are instances.*)
LEMMA SubmitBatchInv ==
  ASSUME NEW next \in [Images -> Layouts], NEW cs \in SUBSET Images, NEW outcome,
         TypeOK, PendingAgree, Truth, NoWrongAccess,
         \A i \in cs : layout[i] # next[i],
         \A i \in Images \ failed : layout[i] # next[i] => i \in cs,
         \A i \in Images : layout[i] = "general" => next[i] = "general",
         \A i \in Presentable : next[i] # "general",
         \A c \in CmdBufs : \A i \in needs[c] : next[i] = "general" \/ i \in failed,
         SubmitBatch(next, cs, outcome)
  PROVE  PendingAgree' /\ TransitionTracked' /\ Truth' /\ Access'
<1> USE ImagesAssumption DEF TypeOK, QueueTypeOK
<1>1. PendingAgree'
  BY DEF SubmitBatch, NotifyAndClear, Forget, PendingAgree
<1>2. /\ layout' = [i \in Images |->
                      IF outcome = "complete" /\ i \in cs THEN next[i] ELSE layout[i]]
      /\ nextLayout' = [i \in Images |->
                      IF outcome # "complete" /\ i \in cs THEN layout[i] ELSE next[i]]
      /\ failed' = IF outcome = "complete" THEN failed ELSE failed \cup cs
  BY DEF SubmitBatch, CallHandlers
<1>3. TransitionTracked'
  <2>1. callbs' = {} /\ pendPrio' = FALSE
    BY DEF SubmitBatch, NotifyAndClear
  <2>2. QED BY <1>2, <2>1 DEF TransitionTracked
<1>4. GeneralIsFinal'
  BY <1>2 DEF Truth, GeneralIsFinal
<1>5. LayoutTruth'
  <2>1. CASE UNCHANGED <<devLayout, wrong>> /\ outcome # "complete"
    BY <1>2, <2>1 DEF Truth, LayoutTruth
  <2>2. CASE Execute(next, cs)
    <3> SUFFICES ASSUME NEW i \in Images, layout'[i] = "general"
                 PROVE  devLayout'[i] = "general"
      BY DEF LayoutTruth
    <3>1. next[i] = "general" /\ (i \in cs \/ devLayout[i] = "general")
      BY <1>2 DEF Truth, LayoutTruth
    <3>2. QED BY <2>2, <3>1 DEF Execute, AfterBarriers
  <2>3. QED BY <2>1, <2>2 DEF SubmitBatch
<1>6. NeedsGoGeneral'
  <2>1. \A c \in CmdBufs : needs'[c] \subseteq needs[c]
    BY DEF SubmitBatch, NotifyAndClear, Forget
  <2>2. QED BY <1>2, <2>1 DEF NeedsGoGeneral
<1>7. NoWrongAccess'
  <2>1. CASE UNCHANGED <<devLayout, wrong>>
    BY <1>2, <2>1 DEF NoWrongAccess
  <2>2. CASE Execute(next, cs)
    <3> SUFFICES ASSUME NEW i \in Images, AfterBarriers(next, cs)[i] # "general",
                        NEW c \in pending, i \in needs[c]
                 PROVE  i \in failed
      BY <1>2, <2>2 DEF Execute, NoWrongAccess
    <3>1. c \in CmdBufs
      OBVIOUS
    <3>2. SUFFICES ASSUME next[i] = "general", i \notin failed
                   PROVE  FALSE
      BY <3>1
    <3>3. i \notin cs /\ devLayout[i] # "general"
      BY <3>2 DEF AfterBarriers
    <3>4. QED BY <3>2, <3>3 DEF Truth, LayoutTruth
  <2>3. QED BY <2>1, <2>2 DEF SubmitBatch
<1>8. QED
  BY <1>1, <1>3, <1>4, <1>5, <1>6, <1>7 DEF Truth, Access

(* Requesting the general layout for plain images, one after the other or  *)
(* only the first of them, keeps what is known of pending transitions.     *)
LEMMA RequestInv ==
  ASSUME IInv, NEW S \in SUBSET Plain, \A i \in S : Accepted(i, "general"),
         nextLayout' = Requested(S, "general"),
         UNCHANGED <<layout, devLayout, wrong>>,
         failed \subseteq failed', failed' \subseteq failed \cup S
  PROVE  /\ GeneralIsFinal' /\ LayoutTruth' /\ NoWrongAccess'
         /\ \A i \in Images : nextLayout[i] = "general" => nextLayout'[i] = "general"
         /\ \A i \in Images : layout[i] # nextLayout[i] => layout'[i] # nextLayout'[i]
         /\ \A i \in S : layout'[i] # nextLayout'[i]
         /\ \A i \in Images \ S : nextLayout'[i] = nextLayout[i]
BY ImagesAssumption
   DEF IInv, TypeOK, Truth, Access, GeneralIsFinal, LayoutTruth, NoWrongAccess,
       Accepted, Requested, Plain

(* A step of a command buffer that is not pending, which leaves the queue  *)
(* alone, does not disturb what the two know of each other.                *)
LEMMA EncodingKeepsPending ==
  ASSUME IInv, NEW c \in CmdBufs, c \in pools, ~cbPending[c],
         UNCHANGED <<pools, pending, cbPending>>,
         \A d \in CmdBufs \ {c} : handle'[d] = handle[d] /\ begun'[d] = begun[d]
  PROVE  PendingAgree'
BY DEF IInv, TypeOK, QueueTypeOK, PendingAgree

-----------------------------------------------------------------------------
(* The invariant is inductive.                                             *)

(* The operations of command buffers that do not look at images.           *)
LEMMA QueueStepInv ==
  ASSUME IInv, NEW c \in CmdBufs,
         CreateCmdBuffer(c) \/ Unmake(c) \/ Reset(c) \/ Enqueue(c),
         UNCHANGED imageVars
  PROVE  PendingAgree' /\ TransitionTracked' /\ Truth' /\ Access'
<1> USE DEF IInv, TypeOK, QueueTypeOK
<1>1. PendingAgree'
  <2>1. CASE CreateCmdBuffer(c)
    BY <2>1 DEF CreateCmdBuffer, Forget, PendingAgree, prioVars
  <2>2. CASE Unmake(c)
    BY <2>2 DEF Unmake, Forget, PendingAgree, prioVars
  <2>3. CASE Reset(c)
    BY <2>3 DEF Reset, Forget, PendingAgree, prioVars
  <2>4. CASE Enqueue(c)
    BY <2>4 DEF Enqueue, Forget, PendingAgree, prioVars
  <2>5. QED BY <2>1, <2>2, <2>3, <2>4
<1>2. UNCHANGED <<pendPrio, callbs, layout, nextLayout, devLayout, failed, wrong>>
  BY DEF CreateCmdBuffer, Unmake, Reset, Enqueue, prioVars, imageVars
<1>3. \A d \in CmdBufs : needs'[d] \subseteq needs[d]
  BY DEF CreateCmdBuffer, Unmake, Reset, Enqueue, Forget
<1>4. TransitionTracked' /\ Truth'
  BY <1>2 DEF TransitionTracked, Truth, LayoutTruth, GeneralIsFinal
<1>5. Access'
  BY <1>2, <1>3 DEF Access, NoWrongAccess, NeedsGoGeneral
<1>6. QED BY <1>1, <1>4, <1>5

(* Encodings that record no copy and request no transition.                *)
LEMMA PlainEncodeInv ==
  ASSUME IInv, NEW c \in CmdBufs,
         \/ EncodeRejected(c)
         \/ \E i \in Attachments : EncodeDraw(c, i)
  PROVE  PendingAgree' /\ TransitionTracked' /\ Truth' /\ Access'
<1> USE DEF IInv, TypeOK, QueueTypeOK
<1>1. /\ UNCHANGED <<pools, pending, cbPending>>
      /\ UNCHANGED <<pendPrio, callbs, layout, nextLayout, devLayout, failed, wrong>>
      /\ c \in pools /\ ~cbPending[c]
  BY DEF EncodeRejected, EncodeThrows, EncodeDraw, Encode, prioVars, imageVars
<1>2. \A d \in CmdBufs \ {c} : handle'[d] = handle[d] /\ begun'[d] = begun[d]
  BY DEF EncodeRejected, EncodeThrows, Forget, EncodeDraw, Encode
<1>3. PendingAgree'
  BY <1>1, <1>2, EncodingKeepsPending
<1>4. \A d \in CmdBufs : needs'[d] \subseteq needs[d]
  BY DEF EncodeRejected, EncodeThrows, Forget, EncodeDraw, Encode
<1>5. TransitionTracked' /\ Truth'
  BY <1>1 DEF TransitionTracked, Truth, LayoutTruth, GeneralIsFinal
<1>6. Access'
  BY <1>1, <1>4 DEF Access, NoWrongAccess, NeedsGoGeneral
<1>7. QED BY <1>3, <1>5, <1>6

(* Copies, which request the transitions of the images that they access.   *)
LEMMA EncodeCopyInv ==
  ASSUME IInv, NEW c \in CmdBufs, NEW dst \in Plain, NEW src \in Plain,
         \/ EncodeCopy(c, dst, src)
         \/ EncodeCopyThenThrow(c, dst, src)
  PROVE  PendingAgree' /\ TransitionTracked' /\ Truth' /\ Access'
<1> DEFINE S == {i \in {dst, src} : Accepted(i, "general")}
<1> USE DEF IInv, TypeOK, QueueTypeOK
<1>1. /\ \A i \in {dst, src} : i \in S \/ Satisfied(i, "general")
      /\ GetPriority(S)
      /\ nextLayout' = Requested(S, "general")
      /\ UNCHANGED <<pending, layout, devLayout, failed, wrong>>
      /\ UNCHANGED <<pools, cbPending>> /\ c \in pools /\ ~cbPending[c]
  BY DEF EncodeCopy, EncodeCopyThenThrow, Encode, EncodeThrows
<1>2. \A d \in CmdBufs \ {c} : handle'[d] = handle[d] /\ begun'[d] = begun[d]
  BY DEF EncodeCopy, EncodeCopyThenThrow, Encode, EncodeThrows, Forget
<1>3. PendingAgree'
  BY <1>1, <1>2, EncodingKeepsPending
<1>4. \A d \in CmdBufs : needs'[d] \subseteq needs[d] \cup {dst, src}
  BY DEF EncodeCopy, EncodeCopyThenThrow, Encode, EncodeThrows, Forget
<1>5. S \in SUBSET Plain /\ \A i \in S : Accepted(i, "general")
  OBVIOUS
<1> HIDE DEF S
<1>6. /\ Truth' /\ NoWrongAccess'
      /\ \A i \in Images : nextLayout[i] = "general" => nextLayout'[i] = "general"
      /\ \A i \in Images : layout[i] # nextLayout[i] => layout'[i] # nextLayout'[i]
      /\ \A i \in S : layout'[i] # nextLayout'[i]
      /\ \A i \in Images \ S : nextLayout'[i] = nextLayout[i]
  BY <1>1, <1>5, RequestInv DEF Truth
<1>7. TransitionTracked'
  BY <1>1, <1>5, <1>6 DEF TransitionTracked, GetPriority, Plain
<1>8. nextLayout'[dst] = "general" /\ nextLayout'[src] = "general"
  BY <1>1, <1>6 DEF Requested, Satisfied, Plain
<1>9. Access'
  <2> SUFFICES ASSUME NEW d \in CmdBufs, NEW i \in needs'[d]
               PROVE  nextLayout'[i] = "general" \/ i \in failed'
    BY <1>6 DEF Access, NeedsGoGeneral
  <2>1. CASE i \in {dst, src}
    BY <1>8, <2>1
  <2>2. CASE i \in needs[d]
    BY <1>1, <1>6, <2>2 DEF Access, NeedsGoGeneral
  <2>3. QED BY <1>4, <2>1, <2>2
<1>10. QED BY <1>3, <1>6, <1>7, <1>9

(* A copy that the queue fails for want of the priority command buffer.    *)
LEMMA EncodeCopyNoPriorityInv ==
  ASSUME IInv, NEW c \in CmdBufs, NEW dst \in Plain, NEW src \in Plain,
         EncodeCopyNoPriority(c, dst, src)
  PROVE  PendingAgree' /\ TransitionTracked' /\ Truth' /\ Access'
<1> USE DEF IInv, TypeOK, QueueTypeOK
<1>1. PICK i \in {dst, src} :
        /\ Accepted(i, "general")
        /\ EncodeThrows(c)
        /\ nextLayout' = Requested({i}, "general")
        /\ failed' = failed \cup {i}
        /\ UNCHANGED <<prioVars, pending, layout, devLayout, wrong>>
  BY DEF EncodeCopyNoPriority
<1>2. PendingAgree'
  BY <1>1, EncodingKeepsPending DEF EncodeThrows, Forget
<1>3. \A d \in CmdBufs : needs'[d] \subseteq needs[d]
  BY <1>1 DEF EncodeThrows, Forget
<1>4. /\ Truth' /\ NoWrongAccess'
      /\ \A j \in Images : nextLayout[j] = "general" => nextLayout'[j] = "general"
      /\ \A j \in Images : layout[j] # nextLayout[j] => layout'[j] # nextLayout'[j]
      /\ \A j \in Images \ {i} : nextLayout'[j] = nextLayout[j]
  <2>1. /\ {i} \in SUBSET Plain /\ \A j \in {i} : Accepted(j, "general")
        /\ failed \subseteq failed' /\ failed' \subseteq failed \cup {i}
        /\ nextLayout' = Requested({i}, "general")
        /\ UNCHANGED <<layout, devLayout, wrong>>
    BY <1>1
  <2>2. QED BY <2>1, RequestInv DEF Truth
<1>5. TransitionTracked'
  BY <1>1, <1>4 DEF TransitionTracked, prioVars
<1>6. Access'
  BY <1>1, <1>3, <1>4 DEF Access, NeedsGoGeneral
<1>7. QED BY <1>2, <1>4, <1>5, <1>6

(* The transition of a swapchain image, submitted at once.                 *)
LEMMA ChangeNowInv ==
  ASSUME IInv, NEW i \in Presentable, NEW outcome,
         ChangeNow(i, "present", outcome)
  PROVE  PendingAgree' /\ TransitionTracked' /\ Truth' /\ Access'
<1> DEFINE next == Requested({i}, "present")
           cs == callbs \cup {i}
<1> USE ImagesAssumption DEF IInv, TypeOK, QueueTypeOK
<1>1. i \in Images /\ Accepted(i, "present") /\ SubmitBatch(next, cs, outcome)
  BY DEF ChangeNow
<1>2. next \in [Images -> Layouts]
  BY DEF Requested, Layouts
<1>3. /\ next[i] = "present"
      /\ \A j \in Images \ {i} : next[j] = nextLayout[j]
      /\ nextLayout[i] # "general" /\ layout[i] # "general"
      /\ layout[i] # "present"
  BY <1>1 DEF Requested, Accepted, Truth, GeneralIsFinal
<1>4. cs \in SUBSET Images
  BY <1>1
<1> HIDE DEF next, cs
<1>5. /\ \A j \in cs : layout[j] # next[j]
      /\ \A j \in Images \ failed : layout[j] # next[j] => j \in cs
  BY <1>1, <1>3 DEF TransitionTracked, cs
<1>6. /\ \A j \in Images : layout[j] = "general" => next[j] = "general"
      /\ \A j \in Presentable : next[j] # "general"
  BY <1>3 DEF Truth, GeneralIsFinal
<1>7. \A c \in CmdBufs : \A j \in needs[c] : next[j] = "general" \/ j \in failed
  BY <1>3 DEF Access, NeedsGoGeneral
<1>8. QED
  BY <1>1, <1>2, <1>4, <1>5, <1>6, <1>7, SubmitBatchInv DEF Access

(* The same when the queue cannot provide the priority command buffer.     *)
LEMMA ChangeThrowsInv ==
  ASSUME IInv, NEW i \in Presentable, ChangeThrows(i, "present")
  PROVE  PendingAgree' /\ TransitionTracked' /\ Truth' /\ Access'
<1> USE ImagesAssumption DEF IInv, TypeOK, QueueTypeOK
<1>1. /\ UNCHANGED <<pools, pending, pendPrio, callbs, cbPending, begun, handle,
                    needs, layout, devLayout, wrong>>
      /\ failed' = failed \cup {i} /\ Accepted(i, "present")
      /\ nextLayout'[i] = "present"
      /\ \A j \in Images \ {i} : nextLayout'[j] = nextLayout[j]
  BY DEF ChangeThrows, Requested, queueVars, bufVars, prioVars
<1>2. PendingAgree'
  BY <1>1 DEF PendingAgree
<1>3. TransitionTracked'
  BY <1>1 DEF TransitionTracked, Accepted
<1>4. Truth'
  BY <1>1 DEF Truth, LayoutTruth, GeneralIsFinal, Accepted
<1>5. Access'
  BY <1>1 DEF Access, NoWrongAccess, NeedsGoGeneral
<1>6. QED BY <1>2, <1>3, <1>4, <1>5

(* Every step preserves the invariant.                                     *)
LEMMA NextIInv == IInv /\ [Next]_vars => IInv'
<1> SUFFICES ASSUME IInv, [Next]_vars
             PROVE  PendingAgree' /\ TransitionTracked' /\ Truth' /\ Access'
  BY NextTypeOK DEF IInv
<1>1. CASE QueueStep /\ UNCHANGED imageVars
  BY <1>1, QueueStepInv DEF QueueStep
<1>2. ASSUME NEW c \in CmdBufs, NEW dst \in Plain, NEW src \in Plain,
             EncodeCopy(c, dst, src) \/ EncodeCopyThenThrow(c, dst, src)
      PROVE  PendingAgree' /\ TransitionTracked' /\ Truth' /\ Access'
  BY <1>2, EncodeCopyInv
<1>3. ASSUME NEW c \in CmdBufs, NEW dst \in Plain, NEW src \in Plain,
             EncodeCopyNoPriority(c, dst, src)
      PROVE  PendingAgree' /\ TransitionTracked' /\ Truth' /\ Access'
  BY <1>3, EncodeCopyNoPriorityInv
<1>4. ASSUME NEW c \in CmdBufs, EncodeRejected(c) \/ \E i \in Attachments : EncodeDraw(c, i)
      PROVE  PendingAgree' /\ TransitionTracked' /\ Truth' /\ Access'
  BY <1>4, PlainEncodeInv
<1>5. ASSUME NEW outcome, Submit(outcome)
      PROVE  PendingAgree' /\ TransitionTracked' /\ Truth' /\ Access'
  <2>1. /\ SubmitBatch(nextLayout, callbs, outcome)
        /\ nextLayout \in [Images -> Layouts] /\ callbs \in SUBSET Images
    BY <1>5 DEF Submit, IInv, TypeOK, QueueTypeOK
  <2>2. QED
    BY <2>1, SubmitBatchInv
       DEF IInv, TransitionTracked, Truth, GeneralIsFinal, Access, NeedsGoGeneral
<1>6. ASSUME NEW i \in Presentable, NEW outcome, ChangeNow(i, "present", outcome)
      PROVE  PendingAgree' /\ TransitionTracked' /\ Truth' /\ Access'
  BY <1>6, ChangeNowInv
<1>7. ASSUME NEW i \in Presentable, ChangeThrows(i, "present")
      PROVE  PendingAgree' /\ TransitionTracked' /\ Truth' /\ Access'
  BY <1>7, ChangeThrowsInv
<1>8. CASE UNCHANGED vars
  BY <1>8
     DEF vars, queueVars, bufVars, prioVars, imageVars, IInv, PendingAgree,
         TransitionTracked, Truth, LayoutTruth, GeneralIsFinal, Access,
         NoWrongAccess, NeedsGoGeneral
<1>9. QED
  BY <1>1, <1>2, <1>3, <1>4, <1>5, <1>6, <1>7, <1>8 DEF Next

(* The queue, its command buffers, the images and the device satisfy the   *)
(* inductive invariant in every reachable state.                           *)
THEOREM Invariant == Spec => []IInv
<1>1. Init => IInv
  <2> SUFFICES ASSUME Init PROVE IInv
    OBVIOUS
  <2>1. TypeOK
    BY TypeInit
  <2>2. PendingAgree
    BY DEF Init, QueueInit, PendingAgree
  <2>3. TransitionTracked
    BY DEF Init, QueueInit, TransitionTracked
  <2>4. Truth
    BY ImagesAssumption DEF Init, Truth, LayoutTruth, GeneralIsFinal
  <2>5. Access
    BY DEF Init, QueueInit, Access, NoWrongAccess, NeedsGoGeneral
  <2>6. QED BY <2>1, <2>2, <2>3, <2>4, <2>5 DEF IInv
<1>2. QED
  BY <1>1, NextIInv, PTL DEF Spec

(* QueueVK::pending_ and the flags of the command buffers always agree,    *)
(* and whatever is pending can be submitted.                               *)
THEOREM PendingAgrees == Spec => []PendingAgree
<1>1. IInv => PendingAgree
  BY DEF IInv
<1>2. QED BY <1>1, Invariant, PTL

(* No layout transition is forgotten by the queue unless its failure was   *)
(* reported, and the queue never calls a handler of no transition.         *)
THEOREM TransitionsTracked == Spec => []TransitionTracked
<1>1. IInv => TransitionTracked
  BY DEF IInv
<1>2. QED BY <1>1, Invariant, PTL

(* An image that is said to be in the general layout is in it.             *)
THEOREM LayoutIsTrue == Spec => []LayoutTruth
<1>1. IInv => LayoutTruth
  BY DEF IInv, Truth
<1>2. QED BY <1>1, Invariant, PTL

(* The device accesses images in the layouts the commands were recorded    *)
(* with, save where a transition was reported to have failed.              *)
THEOREM AccessesAreRight == Spec => []NoWrongAccess
<1>1. IInv => NoWrongAccess
  BY DEF IInv, Access
<1>2. QED BY <1>1, Invariant, PTL
(* What a pending command buffer holds is not changed before it is         *)
(* submitted.                                                              *)
THEOREM EnqueuedStaysFrozen == Spec => EnqueuedFrozen
<1> DEFINE Frozen ==
      \A c \in pending :
        /\ c \in pools'
        /\ c \in pending' => /\ handle'[c] = handle[c]
                             /\ needs'[c] = needs[c]
                             /\ touches'[c] = touches[c]
<1>1. IInv /\ [Next]_vars => [Frozen]_vars
  <2> SUFFICES ASSUME IInv, Next, NEW c \in pending
               PROVE  /\ c \in pools'
                      /\ c \in pending' => /\ handle'[c] = handle[c]
                                           /\ needs'[c] = needs[c]
                                           /\ touches'[c] = touches[c]
    OBVIOUS
  <2>1. c \in CmdBufs /\ c \in pools /\ cbPending[c]
    BY DEF IInv, PendingAgree
  <2> USE DEF IInv, TypeOK, QueueTypeOK
  <2>2. ASSUME NEW d \in CmdBufs,
               CreateCmdBuffer(d) \/ Unmake(d) \/ Reset(d) \/ Enqueue(d)
        PROVE  /\ c \in pools' /\ handle'[c] = handle[c]
               /\ needs'[c] = needs[c] /\ touches'[c] = touches[c]
    BY <2>1, <2>2 DEF CreateCmdBuffer, Unmake, Reset, Enqueue, Forget
  <2>3. ASSUME NEW d \in CmdBufs, NEW need, NEW touch,
               Encode(d, need, touch) \/ EncodeThrows(d)
        PROVE  /\ c \in pools' /\ handle'[c] = handle[c]
               /\ needs'[c] = needs[c] /\ touches'[c] = touches[c]
    BY <2>1, <2>3 DEF Encode, EncodeThrows, Forget
  <2>4. ASSUME NEW next, NEW cs, NEW outcome, SubmitBatch(next, cs, outcome)
        PROVE  c \in pools' /\ c \notin pending'
    BY <2>1, <2>4 DEF SubmitBatch, NotifyAndClear
  <2>5. ASSUME NEW i \in Presentable, ChangeThrows(i, "present")
        PROVE  /\ c \in pools' /\ handle'[c] = handle[c]
               /\ needs'[c] = needs[c] /\ touches'[c] = touches[c]
    BY <2>1, <2>5 DEF ChangeThrows, queueVars, bufVars
  <2>6. CASE QueueStep /\ UNCHANGED imageVars
    BY <2>2, <2>6 DEF QueueStep
  <2>7. ASSUME NEW d \in CmdBufs, NEW dst \in Plain, NEW src \in Plain,
               \/ EncodeCopy(d, dst, src)
               \/ EncodeCopyThenThrow(d, dst, src)
               \/ EncodeCopyNoPriority(d, dst, src)
        PROVE  /\ c \in pools' /\ handle'[c] = handle[c]
               /\ needs'[c] = needs[c] /\ touches'[c] = touches[c]
    <3>1. Encode(d, {dst, src}, {}) \/ EncodeThrows(d)
      BY <2>7 DEF EncodeCopy, EncodeCopyThenThrow, EncodeCopyNoPriority
    <3>2. QED BY <2>3, <3>1
  <2>8. ASSUME NEW d \in CmdBufs,
               EncodeRejected(d) \/ \E i \in Attachments : EncodeDraw(d, i)
        PROVE  /\ c \in pools' /\ handle'[c] = handle[c]
               /\ needs'[c] = needs[c] /\ touches'[c] = touches[c]
    BY <2>3, <2>8 DEF EncodeRejected, EncodeDraw
  <2>9. ASSUME NEW outcome,
               Submit(outcome) \/ \E i \in Presentable : ChangeNow(i, "present", outcome)
        PROVE  c \in pools' /\ c \notin pending'
    BY <2>4, <2>9 DEF Submit, ChangeNow
  <2>10. QED
    BY <2>5, <2>6, <2>7, <2>8, <2>9 DEF Next
<1>2. QED
  BY <1>1, Invariant, PTL DEF Spec, EnqueuedFrozen
-----------------------------------------------------------------------------
(* ImageLayout implements LayoutPromise.                                   *)

Goal == [i \in Images |-> IF i \in callbs THEN nextLayout[i] ELSE layout[i]]

(* Requests whose handlers are registered begin transitions of the         *)
(* abstract specification.                                                 *)
LEMMA RequestSimulation ==
  ASSUME IInv, NEW S \in SUBSET Images, \A i \in S : Accepted(i, "general"),
         GetPriority(S), nextLayout' = Requested(S, "general"), UNCHANGED layout
  PROVE  Promise!Next
<1>1. layout \in [Images -> Layouts] /\ nextLayout \in [Images -> Layouts]
  BY DEF IInv, TypeOK
<1>2. \A i \in S : i \notin callbs /\ layout[i] = nextLayout[i] /\ layout[i] # "general"
  BY DEF IInv, TransitionTracked, Accepted
<1>3. Goal' = [i \in Images |-> IF i \in S THEN "general" ELSE Goal[i]]
  BY DEF Goal, GetPriority, Requested
<1>4. \A i \in S : Goal[i] = layout[i]
  BY <1>2 DEF Goal
<1>5. Promise!Request(S, "general")
  BY <1>2, <1>3, <1>4 DEF Goal, Promise!Request, Promise!Idle
<1>6. "general" \in Promise!Layouts
  BY DEF Promise!Layouts
<1>7. QED BY <1>5, <1>6 DEF Promise!Next

(* A batch that completes commits every transition, any other drops them.  *)
LEMMA SubmitSimulation ==
  ASSUME IInv, NEW outcome, Submit(outcome)
  PROVE  Promise!Next
<1>1. layout \in [Images -> Layouts] /\ callbs' = {}
  BY DEF IInv, TypeOK, Submit, SubmitBatch, NotifyAndClear
<1>2. Goal' = [i \in Images |-> layout'[i]]
  BY <1>1 DEF Goal
<1>3. CASE outcome = "complete"
  <2>1. layout' = [i \in Images |-> IF i \in callbs THEN nextLayout[i] ELSE layout[i]]
    BY <1>3 DEF Submit, SubmitBatch, CallHandlers
  <2>2. layout' = Goal /\ Goal' = Goal
    BY <1>2, <2>1 DEF Goal
  <2>3. QED BY <2>2 DEF Goal, Promise!Commit, Promise!Next
<1>4. CASE outcome # "complete"
  <2>1. layout' = layout
    BY <1>1, <1>4 DEF Submit, SubmitBatch, CallHandlers
  <2>2. Goal' = layout
    BY <1>1, <1>2, <2>1
  <2>3. QED BY <2>1, <2>2 DEF Goal, Promise!Drop, Promise!Next
<1>5. QED BY <1>3, <1>4

(* A transition that is not deferred is committed or dropped with them.    *)
LEMMA ChangeNowSimulation ==
  ASSUME IInv, NEW i \in Presentable, NEW outcome, ChangeNow(i, "present", outcome)
  PROVE  Promise!Next
<1>1. layout \in [Images -> Layouts] /\ callbs' = {} /\ i \in Images
  BY ImagesAssumption DEF IInv, TypeOK, ChangeNow, SubmitBatch, NotifyAndClear
<1>2. Goal' = [j \in Images |-> layout'[j]]
  BY <1>1 DEF Goal
<1>3. i \notin callbs /\ layout[i] # "present"
  BY DEF ChangeNow, Accepted, IInv, TransitionTracked
<1>4. CASE outcome = "complete"
  <2>1. layout' = [j \in Images |->
                     IF j \in callbs \cup {i} THEN Requested({i}, "present")[j]
                                             ELSE layout[j]]
    BY <1>4 DEF ChangeNow, SubmitBatch, CallHandlers
  <2>2. layout' = [Goal EXCEPT ![i] = "present"] /\ Goal' = layout'
    BY <1>1, <1>2, <1>3, <2>1 DEF Goal, Requested
  <2>3. Promise!RequestAndCommit(i, "present")
    BY <1>1, <1>3, <2>2 DEF Goal, Promise!RequestAndCommit, Promise!Idle
  <2>4. "present" \in Promise!Layouts
    BY DEF Promise!Layouts
  <2>5. QED BY <1>1, <2>3, <2>4 DEF Promise!Next
<1>5. CASE outcome # "complete"
  <2>1. layout' = layout
    BY <1>1, <1>5 DEF ChangeNow, SubmitBatch, CallHandlers
  <2>2. Goal' = layout
    BY <1>1, <1>2, <2>1
  <2>3. QED BY <2>1, <2>2 DEF Goal, Promise!Drop, Promise!Next
<1>6. QED BY <1>4, <1>5

(* Transitions of images are committed or dropped as one batch, and none   *)
(* is retargeted on its way: what module LayoutPromise specifies.          *)
THEOREM ImplementsPromise == Spec => KeepsPromise
<1>1. Init => Promise!Init
  BY DEF Init, QueueInit, Promise!Init
<1>2. IInv /\ [Next]_vars => [Promise!Next]_<<layout, Goal>>
  <2> SUFFICES ASSUME IInv, [Next]_vars
               PROVE  Promise!Next \/ UNCHANGED <<layout, Goal>>
    OBVIOUS
  <2>1. CASE QueueStep /\ UNCHANGED imageVars
    BY <2>1 DEF QueueStep, CreateCmdBuffer, Unmake, Reset, Enqueue, prioVars,
                imageVars, Goal
  <2>2. ASSUME NEW c \in CmdBufs, NEW dst \in Plain, NEW src \in Plain,
               EncodeCopy(c, dst, src) \/ EncodeCopyThenThrow(c, dst, src)
        PROVE  Promise!Next
    <3> DEFINE S == {i \in {dst, src} : Accepted(i, "general")}
    <3>1. /\ S \in SUBSET Images /\ \A i \in S : Accepted(i, "general")
          /\ GetPriority(S) /\ nextLayout' = Requested(S, "general")
          /\ UNCHANGED layout
      BY <2>2 DEF EncodeCopy, EncodeCopyThenThrow, Plain
    <3> HIDE DEF S
    <3>2. QED BY <3>1, RequestSimulation
  <2>3. ASSUME NEW c \in CmdBufs, NEW dst \in Plain, NEW src \in Plain,
               EncodeCopyNoPriority(c, dst, src)
        PROVE  UNCHANGED <<layout, Goal>>
    <3>1. callbs = {} /\ callbs' = {} /\ UNCHANGED layout
      BY <2>3 DEF EncodeCopyNoPriority, PriorityMayFail, prioVars, IInv,
                  TransitionTracked
    <3>2. QED BY <3>1 DEF Goal
  <2>4. ASSUME NEW c \in CmdBufs,
               EncodeRejected(c) \/ \E i \in Attachments : EncodeDraw(c, i)
        PROVE  UNCHANGED <<layout, Goal>>
    BY <2>4 DEF EncodeRejected, EncodeDraw, prioVars, imageVars, Goal
  <2>5. ASSUME NEW i \in Presentable, ChangeThrows(i, "present")
        PROVE  UNCHANGED <<layout, Goal>>
    <3>1. callbs = {} /\ callbs' = {} /\ UNCHANGED layout
      BY <2>5 DEF ChangeThrows, PriorityMayFail, queueVars, prioVars, IInv,
                  TransitionTracked
    <3>2. QED BY <3>1 DEF Goal
  <2>6. CASE UNCHANGED vars
    BY <2>6 DEF vars, queueVars, prioVars, imageVars, Goal
  <2>7. QED
    BY <2>1, <2>2, <2>3, <2>4, <2>5, <2>6, SubmitSimulation, ChangeNowSimulation
       DEF Next
<1>3. QED
  BY <1>1, <1>2, Invariant, PTL DEF Spec, KeepsPromise, Promise!Spec, Goal

-----------------------------------------------------------------------------
(* Swapchain.                                                              *)

(***************************************************************************)
(* The inductive invariant.  That a free slot's semaphore is idle is not   *)
(* inductive by itself: presenting an image frees its slot.  It needs that *)
(* only what the next submission waits for, or what a failed one did not   *)
(* wait for, is signaled at all.                                           *)
(***************************************************************************)
WsiTypes ==
  /\ acquisitions \subseteq Indices
  /\ acqSemaphores \in [Indices -> Indices]
  /\ semaphores \in Seq(Indices)
  /\ signaled \subseteq Indices
  /\ held \subseteq Indices
  /\ broken \in BOOLEAN
  /\ unwaited \subseteq Indices
  /\ misplaced \in BOOLEAN

OneSlotEach ==
  \A i, j \in Indices : acqSemaphores[i] = acqSemaphores[j] => i = j

SignaledAwaited == broken \/ signaled \subseteq unwaited \cup SemaphoreSet

WsiInv ==
  /\ WsiTypes
  /\ acquisitions \subseteq held /\ Cardinality(acquisitions) <= Limit
  /\ OneSlotEach
  /\ WaitsEnd
  /\ SignaledAwaited

(* Every swapchain has at least one image to give.                         *)
LEMMA LimitNumber ==
  /\ N \in Nat /\ Limit \in Nat \ {0} /\ IsFiniteSet(Indices)
<1>1. N \in Nat
  BY SwapchainAssumption, FS_CardinalityType DEF N
<1> QED BY <1>1, SwapchainAssumption, FS_Interval DEF Limit, Indices

(* The semaphores that are waited for, by their places.                    *)
LEMMA SemaphoreAppended ==
  ASSUME semaphores \in Seq(Indices), NEW s \in Indices,
         semaphores' = Append(semaphores, s), s \notin SemaphoreSet,
         \A m, n \in DOMAIN semaphores : semaphores[m] = semaphores[n] => m = n
  PROVE  /\ semaphores' \in Seq(Indices)
         /\ SemaphoreSet' = SemaphoreSet \cup {s}
         /\ \A m, n \in DOMAIN semaphores' :
              semaphores'[m] = semaphores'[n] => m = n
<1>1. PICK l : l = Len(semaphores)
  OBVIOUS
<1>2. /\ l \in Nat /\ DOMAIN semaphores = 1..l
      /\ semaphores' \in Seq(Indices) /\ DOMAIN semaphores' = 1..(l + 1)
      /\ semaphores'[l + 1] = s
      /\ \A n \in 1..l : semaphores'[n] = semaphores[n]
  BY <1>1
<1>3. \A n \in 1..(l + 1) : n = l + 1 \/ n \in 1..l
  BY <1>2
<1>4. \A n \in 1..l : n \in 1..(l + 1) /\ semaphores[n] # s
  BY <1>2 DEF SemaphoreSet
<1>5. SemaphoreSet' = SemaphoreSet \cup {s}
  <2>1. \A x : x \in SemaphoreSet' <=> \E n \in 1..(l + 1) : x = semaphores'[n]
    BY <1>2 DEF SemaphoreSet
  <2>2. \A x : x \in SemaphoreSet <=> \E n \in 1..l : x = semaphores[n]
    BY <1>2 DEF SemaphoreSet
  <2>3. l + 1 \in 1..(l + 1)
    BY <1>2
  <2>4. \A x : x \in SemaphoreSet' <=> x \in SemaphoreSet \cup {s}
    BY <1>2, <1>3, <1>4, <2>1, <2>2, <2>3
  <2> QED BY <2>4
<1>6. ASSUME NEW m \in 1..(l + 1), NEW n \in 1..(l + 1),
             semaphores'[m] = semaphores'[n]
      PROVE  m = n
  BY <1>2, <1>3, <1>4, <1>6
<1> QED BY <1>2, <1>5, <1>6

(* No swapchain is there at first, nor any image or semaphore of one.      *)
LEMMA WsiInitInv == WsiInit => WsiInv
<1> SUFFICES ASSUME WsiInit PROVE WsiInv
  OBVIOUS
<1>1. Cardinality(acquisitions) <= Limit
  BY LimitNumber, FS_EmptySet DEF WsiInit
<1>2. SemaphoreSet = {}
  BY DEF WsiInit, SemaphoreSet
<1>3. WsiTypes
  <2>1. semaphores \in Seq(Indices) /\ acqSemaphores \in [Indices -> Indices]
    BY DEF WsiInit
  <2>2. broken \in BOOLEAN /\ misplaced \in BOOLEAN
    BY DEF WsiInit
  <2> QED BY <2>1, <2>2 DEF WsiInit, WsiTypes
<1>4. OneSlotEach /\ WaitsEnd /\ SignaledAwaited
  BY <1>2 DEF WsiInit, OneSlotEach, WaitsEnd, SignaledAwaited
<1> QED BY <1>1, <1>3, <1>4 DEF WsiInit, WsiInv

(* WsiVK::nextImage moves the semaphore with the image.                    *)
LEMMA NextImageInv ==
  ASSUME WsiInv, NEW i \in Indices, NextImage(i)
  PROVE  WsiInv'
<1>1. PICK k \in Indices :
        /\ IsFirstFree(k)
        /\ acqSemaphores' = Swapped(k, i)
        /\ semaphores' = Append(semaphores, acqSemaphores[k])
        /\ signaled' = signaled \cup {acqSemaphores[k]}
  BY DEF NextImage
<1>2. /\ ~broken /\ Cardinality(acquisitions) < Limit /\ i \notin held
      /\ acquisitions' = acquisitions \cup {i} /\ held' = held \cup {i}
      /\ broken' = broken /\ unwaited' = unwaited /\ misplaced' = misplaced
  BY DEF NextImage, MayAcquire
<1>3. k \notin acquisitions /\ i \notin acquisitions
  BY <1>1, <1>2 DEF IsFirstFree, WsiInv
<1>4. PICK s : s = acqSemaphores[k]
  OBVIOUS
<1>5. /\ acqSemaphores \in [Indices -> Indices] /\ s \in Indices
      /\ \A j \in Indices : acqSemaphores[j] = s => j = k
  BY <1>4 DEF WsiInv, WsiTypes, OneSlotEach
<1>6. /\ acqSemaphores' \in [Indices -> Indices]
      /\ acqSemaphores'[i] = s /\ acqSemaphores'[k] = acqSemaphores[i]
      /\ \A j \in Indices : j # i /\ j # k => acqSemaphores'[j] = acqSemaphores[j]
  BY <1>1, <1>4, <1>5 DEF Swapped
<1>7. OneSlotEach'
  <2>1. \A j, m \in Indices : acqSemaphores'[j] = acqSemaphores'[m] => j = m
    BY <1>4, <1>6 DEF WsiInv, OneSlotEach
  <2> QED BY <2>1 DEF OneSlotEach
<1>8. s \notin SemaphoreSet
  BY <1>2, <1>3, <1>5 DEF WsiInv, WaitsEnd, WsiTypes
<1>9. /\ semaphores' \in Seq(Indices)
      /\ SemaphoreSet' = SemaphoreSet \cup {s}
      /\ \A m, n \in DOMAIN semaphores' : semaphores'[m] = semaphores'[n] => m = n
  BY <1>1, <1>4, <1>5, <1>8, SemaphoreAppended DEF WsiInv, WsiTypes, WaitsEnd
<1>10. ASSUME NEW t \in SemaphoreSet'
       PROVE  \E j \in acquisitions' : acqSemaphores'[j] = t
  <2>1. CASE t = s
    BY <1>2, <1>6, <2>1
  <2>2. CASE t \in SemaphoreSet
    <3>1. PICK j \in acquisitions : acqSemaphores[j] = t
      BY <1>2, <2>2 DEF WsiInv, WaitsEnd
    <3>2. j \in Indices /\ j # i /\ j # k
      BY <1>3 DEF WsiInv, WsiTypes
    <3> QED BY <1>2, <1>6, <3>1, <3>2
  <2> QED BY <1>9, <2>1, <2>2
<1>11. SemaphoreSet' \subseteq signaled'
  BY <1>1, <1>4, <1>9 DEF WsiInv, WaitsEnd
<1>12. WaitsEnd'
  BY <1>9, <1>10, <1>11 DEF WaitsEnd
<1>13. SignaledAwaited'
  BY <1>1, <1>2, <1>4, <1>9 DEF WsiInv, SignaledAwaited
<1>14. Cardinality(acquisitions') <= Limit'
  <2>1. IsFiniteSet(acquisitions)
    BY LimitNumber, FS_Subset DEF WsiInv, WsiTypes
  <2>2. Cardinality(acquisitions') = Cardinality(acquisitions) + 1
    BY <1>2, <1>3, <2>1, FS_AddElement
  <2>3. Cardinality(acquisitions) \in Nat
    BY <2>1, FS_CardinalityType
  <2> QED BY <1>2, <2>2, <2>3, LimitNumber DEF Limit, N
<1>15. WsiTypes' /\ acquisitions' \subseteq held'
  BY <1>1, <1>2, <1>4, <1>5, <1>6, <1>9 DEF WsiInv, WsiTypes, Indices, N
<1> QED BY <1>7, <1>12, <1>13, <1>14, <1>15 DEF WsiInv

(* A submission, whichever way it ends: none of the semaphores is waited   *)
(* for any more.                                                           *)
LEMMA ClearedInv ==
  ASSUME WsiInv, NEW outcome, ClearSemaphores(outcome)
  PROVE  /\ semaphores' = <<>> /\ SemaphoreSet' = {}
         /\ signaled' \subseteq signaled /\ unwaited' \subseteq Indices
         /\ broken \/ signaled' \subseteq unwaited'
<1>1. semaphores' = <<>> /\ SemaphoreSet' = {}
  BY DEF ClearSemaphores, SemaphoreSet
<1>2. SemaphoreSet \subseteq signaled /\ signaled \subseteq Indices /\ unwaited \subseteq Indices
  BY DEF WsiInv, WaitsEnd, WsiTypes
<1> QED BY <1>1, <1>2 DEF ClearSemaphores, WsiInv, SignaledAwaited

(* Giving an image back.                                                   *)
LEMMA PresentedInv ==
  ASSUME WsiInv, NEW i \in Indices, ~broken, i \in acquisitions,
         acquisitions' = acquisitions \ {i},
         held' = held \/ held' = held \ {i},
         broken' \in BOOLEAN, misplaced' \in BOOLEAN,
         acqSemaphores' = acqSemaphores,
         semaphores' = <<>>, signaled' \subseteq signaled, unwaited' \subseteq Indices,
         signaled' \subseteq unwaited'
  PROVE  WsiInv'
<1>1. SemaphoreSet' = {}
  BY DEF SemaphoreSet
<1>2. IsFiniteSet(acquisitions) /\ Cardinality(acquisitions) <= Limit
  BY LimitNumber, FS_Subset DEF WsiInv, WsiTypes
<1>3. Cardinality(acquisitions') <= Cardinality(acquisitions)
  BY <1>2, FS_Subset
<1>4. Cardinality(acquisitions) \in Nat /\ Cardinality(acquisitions') \in Nat
  BY <1>2, FS_CardinalityType, FS_Subset
<1>5. Cardinality(acquisitions') <= Limit'
  BY <1>2, <1>3, <1>4, LimitNumber DEF Limit, N
<1>6. WsiTypes' /\ acquisitions' \subseteq held' /\ OneSlotEach'
  <2>1. semaphores' \in Seq(Indices)
    OBVIOUS
  <2>2. acquisitions' \subseteq held'
    BY DEF WsiInv
  <2>3. WsiTypes'
    BY <2>1 DEF WsiInv, WsiTypes, Indices, N
  <2> QED BY <2>2, <2>3 DEF WsiInv, OneSlotEach, Indices, N
<1>7. WaitsEnd' /\ SignaledAwaited'
  BY <1>1 DEF WaitsEnd, SignaledAwaited
<1> QED BY <1>5, <1>6, <1>7 DEF WsiInv

(* Every call, and every step of the driver, keeps the images and          *)
(* semaphores of a swapchain accounted for.                                *)
LEMMA WsiNextInv == WsiInv /\ [WsiNext]_allVars => WsiInv'
<1> SUFFICES ASSUME WsiInv, [WsiNext]_allVars PROVE WsiInv'
  OBVIOUS
<1>1. CASE UNCHANGED wsiVars
  BY <1>1 DEF wsiVars, WsiInv, WsiTypes, OneSlotEach, WaitsEnd, SignaledAwaited,
              SemaphoreSet, Limit, N, Indices
<1>2. ASSUME NEW i \in Indices, NextImage(i) PROVE WsiInv'
  BY <1>2, NextImageInv
<1>3. CASE NextImageBroken
  <2>1. /\ broken' = TRUE /\ acquisitions' = acquisitions
        /\ acqSemaphores' = acqSemaphores /\ semaphores' = semaphores
        /\ unwaited' = unwaited /\ misplaced' = misplaced
    BY <1>3 DEF NextImageBroken
  <2>2. /\ held \subseteq held' /\ held' \subseteq Indices
        /\ signaled \subseteq signaled' /\ signaled' \subseteq Indices
    <3>1. \A k \in Indices : acqSemaphores[k] \in Indices
      BY DEF WsiInv, WsiTypes
    <3> QED BY <1>3, <3>1 DEF NextImageBroken, WsiInv, WsiTypes
  <2>3. SemaphoreSet' = SemaphoreSet
    BY <2>1 DEF SemaphoreSet
  <2>4. WaitsEnd'
    BY <2>1, <2>2, <2>3 DEF WaitsEnd, WsiInv
  <2>5. WsiTypes' /\ acquisitions' \subseteq held' /\ OneSlotEach'
        /\ Cardinality(acquisitions') <= Limit'
    BY <2>1, <2>2 DEF WsiInv, WsiTypes, OneSlotEach, Limit, N, Indices
  <2> QED BY <2>1, <2>4, <2>5 DEF WsiInv, SignaledAwaited
<1>4. ASSUME NEW outcome, WsiSubmit(outcome) PROVE WsiInv'
  <2>1. /\ semaphores' = <<>> /\ SemaphoreSet' = {}
        /\ signaled' \subseteq signaled /\ unwaited' \subseteq Indices
        /\ broken \/ signaled' \subseteq unwaited'
    BY <1>4, ClearedInv DEF WsiSubmit
  <2>2. UNCHANGED <<acquisitions, acqSemaphores, held, broken, misplaced>>
    BY <1>4 DEF WsiSubmit
  <2>3. WaitsEnd' /\ SignaledAwaited'
    BY <2>1, <2>2 DEF WaitsEnd, SignaledAwaited
  <2> QED BY <2>1, <2>2, <2>3 DEF WsiInv, WsiTypes, OneSlotEach, Limit, N, Indices
<1>5. ASSUME NEW i \in Indices, PresentAsIs(i) \/ PresentThrows(i) PROVE WsiInv'
  <2>1. /\ ~broken /\ i \in acquisitions /\ acquisitions' = acquisitions \ {i}
        /\ semaphores = <<>> /\ SemaphoreSet = {}
        /\ UNCHANGED <<acqSemaphores, semaphores, signaled, unwaited>>
    BY <1>5 DEF PresentAsIs, PresentThrows, MayPresent, AllSubmitted, SemaphoreSet
  <2>2. /\ held' = held \/ held' = held \ {i}
        /\ broken' \in BOOLEAN /\ misplaced' \in BOOLEAN
    BY <1>5 DEF PresentAsIs, PresentThrows, QueuePresent, WsiInv, WsiTypes
  <2>3. signaled \subseteq Indices /\ unwaited \subseteq Indices
        /\ signaled \subseteq unwaited
    BY <2>1 DEF WsiInv, WsiTypes, SignaledAwaited
  <2> QED BY <2>1, <2>2, <2>3, PresentedInv
<1>6. ASSUME NEW i \in Indices, NEW outcome, PresentChanged(i, outcome) PROVE WsiInv'
  <2>1. /\ ~broken /\ i \in acquisitions /\ acquisitions' = acquisitions \ {i}
        /\ acqSemaphores' = acqSemaphores
    BY <1>6 DEF PresentChanged, MayPresent
  <2>2. /\ semaphores' = <<>> /\ signaled' \subseteq signaled
        /\ unwaited' \subseteq Indices /\ signaled' \subseteq unwaited'
    BY <1>6, <2>1, ClearedInv DEF PresentChanged
  <2>3. /\ held' = held \/ held' = held \ {i}
        /\ broken' \in BOOLEAN /\ misplaced' \in BOOLEAN
    BY <1>6 DEF PresentChanged, QueuePresent, WsiInv, WsiTypes
  <2> QED BY <2>1, <2>2, <2>3, PresentedInv
<1>7. CASE QueueStep /\ UNCHANGED <<imageVars, wsiVars>>
  BY <1>1, <1>7
<1>8. ASSUME NEW c \in CmdBufs, NEW i \in Indices, Draw(c, i) PROVE WsiInv'
  BY <1>1, <1>8 DEF Draw
<1>9. CASE UNCHANGED allVars
  BY <1>1, <1>9 DEF allVars
<1> QED BY <1>2, <1>3, <1>4, <1>5, <1>6, <1>7, <1>8, <1>9 DEF WsiNext

(* Every reachable state of the surface.                                   *)
THEOREM WsiInvariant == WsiSpec => []WsiInv
BY WsiInitInv, WsiNextInv, PTL DEF WsiSpec

-----------------------------------------------------------------------------
(* The surface uses images and queue as module ImageLayout says: each of   *)
(* its steps is one of theirs or leaves them alone.                        *)
LEMMA SurfaceSteps == WsiSpec => Spec
<1>1. WsiInit => Init
  BY DEF WsiInit
<1>2. WsiInv /\ [WsiNext]_allVars => [Next]_vars
  <2> SUFFICES ASSUME WsiInv, [WsiNext]_allVars PROVE [Next]_vars
    OBVIOUS
  <2>1. ASSUME NEW i \in Indices, NextImage(i) PROVE UNCHANGED vars
    BY <2>1 DEF NextImage
  <2>2. CASE NextImageBroken
    BY <2>2 DEF NextImageBroken
  <2>3. CASE QueueStep /\ UNCHANGED <<imageVars, wsiVars>>
    BY <2>3 DEF Next
  <2>4. ASSUME NEW c \in CmdBufs, NEW i \in Indices, Draw(c, i) PROVE Next
    BY <2>4, SwapchainAssumption DEF Draw, Next
  <2>5. ASSUME NEW outcome \in SubmitOutcomes(pendPrio), WsiSubmit(outcome) PROVE Next
    BY <2>5 DEF WsiSubmit, Next
  <2>6. ASSUME NEW i \in Indices, PresentAsIs(i) PROVE UNCHANGED vars
    BY <2>6 DEF PresentAsIs
  <2>7. ASSUME NEW i \in Indices, PresentThrows(i) PROVE [Next]_vars
    BY <2>7, SwapchainAssumption DEF PresentThrows, Next
  <2>8. ASSUME NEW i \in Indices, NEW outcome \in SubmitOutcomes(TRUE),
               PresentChanged(i, outcome)
        PROVE  Next
    BY <2>8, SwapchainAssumption DEF PresentChanged, Next
  <2>9. CASE UNCHANGED allVars
    BY <2>9 DEF allVars
  <2> QED BY <2>1, <2>2, <2>3, <2>4, <2>5, <2>6, <2>7, <2>8, <2>9 DEF WsiNext
<1> QED BY <1>1, <1>2, WsiInvariant, PTL DEF WsiSpec, Spec

(* What the surface counts as acquired is held, never more than the engine *)
(* can spare, and every semaphore has one slot.                            *)
THEOREM AcquisitionsAreHeld == WsiSpec => []AcquisitionsHeld
<1>1. WsiSpec => []TypeOK
  BY SurfaceSteps, TypeCorrect, PTL
<1>2. WsiInv /\ TypeOK => AcquisitionsHeld
  BY DEF WsiInv, WsiTypes, OneSlotEach, AcquisitionsHeld, WsiTypeOK
<1> QED BY <1>1, <1>2, WsiInvariant, PTL

(* No submission waits twice, or for what nothing signals, and nextImage   *)
(* never picks a semaphore that is in use, unless a submission failed or   *)
(* the swapchain is broken.                                                *)
THEOREM SemaphoresAreSound == WsiSpec => []SemaphoresSound
<1>1. WsiInv => SemaphoresSound
  <2> SUFFICES ASSUME WsiInv, ~broken, NEW i \in Indices \ acquisitions,
                      acqSemaphores[i] \in signaled
               PROVE  acqSemaphores[i] \in unwaited
    BY DEF SemaphoresSound, FreeSemaphoresIdle, WsiInv
  <2>1. acqSemaphores[i] \notin SemaphoreSet
    BY DEF WsiInv, WsiTypes, OneSlotEach, WaitsEnd
  <2> QED BY <2>1 DEF WsiInv, SignaledAwaited
<1> QED BY <1>1, WsiInvariant, PTL

(* So that what is proved of images holds of those of the surface: the     *)
(* layout that is recorded for them is never wrong unless a failure was    *)
(* reported.                                                               *)
THEOREM SurfaceImagesSound == WsiSpec => [](PendingAgree /\ NoWrongAccess)
BY SurfaceSteps, PendingAgrees, AccessesAreRight, PTL

(***************************************************************************)
(* An acquisition's semaphore is awaited by the next submission until one  *)
(* has waited for it, or failed to: this outlives a broken swapchain, for  *)
(* the semaphore of an acquisition that breaks it has no image's slot.     *)
(***************************************************************************)
AcquiredAwaited ==
  \A i \in acquisitions :
    acqSemaphores[i] \in signaled => acqSemaphores[i] \in SemaphoreSet \cup unwaited

(* A submission, or a presentation that makes one.                         *)
LEMMA ClearedAwaited ==
  ASSUME AcquiredAwaited, NEW outcome, ClearSemaphores(outcome),
         acquisitions' \subseteq acquisitions, acqSemaphores' = acqSemaphores
  PROVE  /\ AcquiredAwaited'
         /\ \A i \in acquisitions : acqSemaphores[i] \notin signaled' \ unwaited'
<1>1. ASSUME NEW i \in acquisitions, acqSemaphores[i] \in signaled'
      PROVE  acqSemaphores[i] \in unwaited'
  BY <1>1 DEF ClearSemaphores, AcquiredAwaited
<1> QED BY <1>1 DEF AcquiredAwaited

(* Slots of acquired images keep their semaphores, and new signals are for *)
(* semaphores of other slots.                                              *)
LEMMA AwaitedNext ==
  ASSUME WsiInv, AcquiredAwaited, [WsiNext]_allVars
  PROVE  AcquiredAwaited'
<1>1. CASE UNCHANGED wsiVars
  BY <1>1 DEF wsiVars, AcquiredAwaited, SemaphoreSet
<1>2. ASSUME NEW k \in Indices \ acquisitions, NEW j \in acquisitions
      PROVE  j \in Indices /\ j # k /\ acqSemaphores[j] # acqSemaphores[k]
  BY <1>2 DEF WsiInv, WsiTypes, OneSlotEach
<1>3. ASSUME NEW i \in Indices, NextImage(i) PROVE AcquiredAwaited'
  <2>1. PICK k \in Indices :
          /\ IsFirstFree(k)
          /\ acqSemaphores' = Swapped(k, i)
          /\ semaphores' = Append(semaphores, acqSemaphores[k])
          /\ signaled' = signaled \cup {acqSemaphores[k]}
    BY <1>3 DEF NextImage
  <2>2. /\ ~broken /\ i \notin acquisitions /\ k \notin acquisitions
        /\ acquisitions' = acquisitions \cup {i} /\ unwaited' = unwaited
    BY <1>3, <2>1 DEF NextImage, MayAcquire, IsFirstFree, WsiInv
  <2>3. SemaphoreSet' = SemaphoreSet \cup {acqSemaphores[k]}
    <3>1. acqSemaphores[k] \in Indices /\ acqSemaphores[k] \notin SemaphoreSet
      BY <1>2, <2>2 DEF WsiInv, WsiTypes, WaitsEnd
    <3> QED BY <2>1, <3>1, SemaphoreAppended DEF WsiInv, WsiTypes, WaitsEnd
  <2>4. acqSemaphores \in [Indices -> Indices]
    BY DEF WsiInv, WsiTypes
  <2>5. acqSemaphores'[i] = acqSemaphores[k]
    BY <2>1, <2>4 DEF Swapped
  <2>6. ASSUME NEW j \in acquisitions
        PROVE  acqSemaphores'[j] = acqSemaphores[j]
    BY <1>2, <2>1, <2>2, <2>4 DEF Swapped
  <2>7. ASSUME NEW j \in acquisitions', acqSemaphores'[j] \in signaled'
        PROVE  acqSemaphores'[j] \in SemaphoreSet' \cup unwaited'
    BY <1>2, <2>1, <2>2, <2>3, <2>5, <2>6, <2>7 DEF AcquiredAwaited
  <2> QED BY <2>7 DEF AcquiredAwaited
<1>4. CASE NextImageBroken
  <2>1. UNCHANGED <<acquisitions, acqSemaphores, semaphores, unwaited>>
    BY <1>4 DEF NextImageBroken
  <2>2. SemaphoreSet' = SemaphoreSet
    BY <2>1 DEF SemaphoreSet
  <2>3. ASSUME NEW j \in acquisitions PROVE acqSemaphores[j] \in signaled'
                                            => acqSemaphores[j] \in signaled
    BY <1>2, <1>4 DEF NextImageBroken, IsFirstFree
  <2> QED BY <2>1, <2>2, <2>3 DEF AcquiredAwaited
<1>5. ASSUME NEW outcome, WsiSubmit(outcome) PROVE AcquiredAwaited'
  BY <1>5, ClearedAwaited DEF WsiSubmit
<1>6. ASSUME NEW i \in Indices, PresentAsIs(i) \/ PresentThrows(i)
      PROVE  AcquiredAwaited'
  <2>1. /\ acquisitions' \subseteq acquisitions
        /\ UNCHANGED <<acqSemaphores, semaphores, signaled, unwaited>>
    BY <1>6 DEF PresentAsIs, PresentThrows, MayPresent
  <2> QED BY <2>1 DEF AcquiredAwaited, SemaphoreSet
<1>7. ASSUME NEW i \in Indices, NEW outcome, PresentChanged(i, outcome)
      PROVE  AcquiredAwaited'
  BY <1>7, ClearedAwaited DEF PresentChanged, MayPresent
<1>8. ASSUME NEW c \in CmdBufs, NEW i \in Indices, Draw(c, i) PROVE AcquiredAwaited'
  BY <1>1, <1>8 DEF Draw
<1> QED BY <1>1, <1>3, <1>4, <1>5, <1>6, <1>7, <1>8 DEF WsiNext, allVars

(* No device draws to an acquired image that the engine still reads, for a *)
(* swapchain of any size, after any failures: command buffers leave the    *)
(* queue by a submission only, which waits for what is signaled.           *)
THEOREM DrawsAreAwaited == WsiSpec => DrawsAwaitImages
<1> DEFINE Awaited ==
      \A i \in acquisitions :
        (\E c \in pending \ pending' : i \in touches[c]) =>
          acqSemaphores[i] \notin signaled' \ unwaited'
<1>1. WsiInit => AcquiredAwaited
  BY DEF WsiInit, AcquiredAwaited
<1>2. WsiInv /\ AcquiredAwaited /\ [WsiNext]_allVars => AcquiredAwaited'
  BY AwaitedNext
<1>3. AcquiredAwaited /\ [WsiNext]_allVars => [Awaited]_allVars
  <2> SUFFICES ASSUME AcquiredAwaited, [WsiNext]_allVars PROVE [Awaited]_allVars
    OBVIOUS
  <2>1. ASSUME NEW outcome, WsiSubmit(outcome) PROVE Awaited
    BY <2>1, ClearedAwaited DEF WsiSubmit
  <2>2. ASSUME pending \subseteq pending' PROVE Awaited
    BY <2>2
  <2>3. ASSUME NEW i \in Indices, NextImage(i) PROVE pending' = pending
    BY <2>3 DEF NextImage, vars, queueVars
  <2>4. CASE NextImageBroken
    <3>1. pending' = pending
      BY <2>4 DEF NextImageBroken, vars, queueVars
    <3> QED BY <2>2, <3>1
  <2>5. CASE QueueStep /\ UNCHANGED <<imageVars, wsiVars>>
    <3>1. pending \subseteq pending'
      BY <2>5 DEF QueueStep, CreateCmdBuffer, Unmake, Reset, Enqueue
    <3> QED BY <2>2, <3>1
  <2>6. ASSUME NEW c \in CmdBufs, NEW i \in Indices, Draw(c, i)
        PROVE  pending' = pending
    BY <2>6 DEF Draw, EncodeDraw
  <2>7. ASSUME NEW i \in Indices,
               \/ PresentAsIs(i) \/ PresentThrows(i)
               \/ \E outcome : PresentChanged(i, outcome)
        PROVE  Awaited
    <3>1. pending = {}
      BY <2>7 DEF PresentAsIs, PresentThrows, PresentChanged, MayPresent, AllSubmitted
    <3> QED BY <3>1
  <2> QED BY <2>1, <2>2, <2>3, <2>4, <2>5, <2>6, <2>7 DEF WsiNext
<1>4. WsiSpec => [][Awaited]_allVars
  BY <1>1, <1>2, <1>3, WsiInvariant, PTL DEF WsiSpec
<1> QED BY <1>4 DEF DrawsAwaitImages

-----------------------------------------------------------------------------

(***************************************************************************)
(* Objects and windows.  The id map and the ids of the objects are inverse *)
(* to each other; what the server will have done once it carried out the   *)
(* requests agrees with the objects.                                       *)
(***************************************************************************)
Object == [window : 1..MaxWindows, mapped : BOOLEAN]
Status == {"unknown", "hidden", "shown"}

Owned(objs, map, wins, dead) ==
  /\ wins \in Seq(Status) /\ Len(wins) <= MaxWindows /\ dead \subseteq 1..Len(wins)
  /\ objs \in [Addresses -> Object \cup {Null}]
  /\ map = [id \in DOMAIN map |-> map[id]]
  /\ \A a \in Addresses : objs[a] # Null =>
       /\ objs[a].window \in 1..Len(wins) /\ objs[a].window \notin dead
       /\ wins[objs[a].window] = Shown(objs[a].mapped)
       /\ objs[a].window \in DOMAIN map /\ map[objs[a].window] = a
  /\ \A id \in DOMAIN map :
       map[id] \in Addresses /\ objs[map[id]] # Null /\ objs[map[id]].window = id
  /\ \A id \in 1..Len(wins) :
       wins[id] = "shown" => id \in dead \/ id \in DOMAIN map

(* The frames of dispatch() and of the handlers.                           *)
Kinds == {"dispatch"} \cup Flags
ModNames == {"CapsLock", "Shift", "Ctrl", "Alt"}
Frames == [kind : Kinds, window : Addresses \cup {Null}, mods : SUBSET ModNames]

WindowsInv ==
  /\ Owned(objects, winMap, windows, doomed)
  /\ mask = fn /\ fn \subseteq Flags
  /\ prevModMask = Mods(prevEvState)
  /\ frames \in Seq(Frames)

(* The server does what it was asked for.                                  *)
Settled(wins, dead) ==
  [id \in DOMAIN wins |-> IF id \in dead THEN "unknown" ELSE wins[id]]

(* When the events of dead windows are settled, the window objects that    *)
(* are left have a window of their own.                                    *)
LEMMA SettledOwned ==
  ASSUME NEW objs, NEW map, NEW wins, NEW dead, Owned(objs, map, wins, dead),
         NEW new, new = Settled(wins, dead)
  PROVE  Owned(objs, map, new, {}) /\ Len(new) = Len(wins)
<1>1. /\ wins \in Seq(Status) /\ Len(wins) \in Nat /\ DOMAIN wins = 1..Len(wins)
  BY DEF Owned
<1>2. /\ new \in [1..Len(wins) -> Status]
      /\ \A id \in 1..Len(wins) :
           new[id] = IF id \in dead THEN "unknown" ELSE wins[id]
  BY <1>1 DEF Settled, Status
<1>3. new \in Seq(Status) /\ Len(new) = Len(wins)
  BY <1>1, <1>2
<1>4. \A a \in Addresses : objs[a] # Null =>
        /\ objs[a].window \in 1..Len(wins) /\ objs[a].window \notin dead
        /\ wins[objs[a].window] = Shown(objs[a].mapped)
  BY DEF Owned
<1>5. \A a \in Addresses : objs[a] # Null =>
        new[objs[a].window] = Shown(objs[a].mapped)
  BY <1>2, <1>4
<1>6. \A id \in 1..Len(new) : new[id] = "shown" => id \in DOMAIN map
  BY <1>2, <1>3 DEF Owned
<1> QED BY <1>3, <1>5, <1>6 DEF Owned

(* A window more that the server knows, which is hidden or unknown or will *)
(* be destroyed.                                                           *)
LEMMA UnownedAdded ==
  ASSUME NEW objs, NEW map, NEW wins, Owned(objs, map, wins, {}),
         Len(wins) < MaxWindows, NEW status \in Status,
         NEW dead, dead \subseteq {Len(wins) + 1},
         status = "shown" => dead = {Len(wins) + 1},
         NEW new, new = Append(wins, status)
  PROVE  Owned(objs, map, new, dead)
<1>1. /\ wins \in Seq(Status) /\ Len(wins) \in Nat
      /\ objs \in [Addresses -> Object \cup {Null}]
      /\ map = [id \in DOMAIN map |-> map[id]]
  BY DEF Owned
<1>2. /\ new \in Seq(Status) /\ Len(new) = Len(wins) + 1
      /\ \A id \in 1..Len(wins) : new[id] = wins[id]
      /\ new[Len(wins) + 1] = status
  BY <1>1
<1>3. Len(new) <= MaxWindows /\ dead \subseteq 1..Len(new)
  BY <1>1, <1>2, EventsAssumption
<1>4. \A a \in Addresses : objs[a] # Null =>
        /\ objs[a].window \in 1..Len(wins)
        /\ wins[objs[a].window] = Shown(objs[a].mapped)
        /\ objs[a].window \in DOMAIN map /\ map[objs[a].window] = a
  BY DEF Owned
<1>5. \A a \in Addresses : objs[a] # Null =>
        /\ objs[a].window \in 1..Len(new) /\ objs[a].window \notin dead
        /\ new[objs[a].window] = Shown(objs[a].mapped)
  BY <1>1, <1>2, <1>4
<1>6. ASSUME NEW id \in 1..Len(new), new[id] = "shown"
      PROVE  id \in dead \/ id \in DOMAIN map
  <2>1. CASE id = Len(wins) + 1
    BY <1>2, <1>6, <2>1
  <2>2. CASE id # Len(wins) + 1
    <3>1. id \in 1..Len(wins)
      BY <1>1, <1>2, <2>2
    <3> QED BY <1>2, <1>6, <3>1 DEF Owned
  <2> QED BY <2>1, <2>2
<1>7. \A id \in DOMAIN map :
        map[id] \in Addresses /\ objs[map[id]] # Null /\ objs[map[id]].window = id
  BY DEF Owned
<1> QED BY <1>1, <1>2, <1>3, <1>4, <1>5, <1>6, <1>7 DEF Owned

(* WindowXCB's constructor: the new window has an object.                  *)
LEMMA ObjectAdded ==
  ASSUME NEW objs, NEW map, NEW wins, Owned(objs, map, wins, {}),
         Len(wins) < MaxWindows, NEW a \in Addresses, objs[a] = Null,
         NEW id, id = Len(wins) + 1,
         NEW object \in Object, object.window = id,
         NEW newObjs, newObjs = [objs EXCEPT ![a] = object],
         NEW newMap, newMap = Added(map, id, a),
         NEW new, new = Append(wins, Shown(object.mapped))
  PROVE  Owned(newObjs, newMap, new, {})
<1>1. /\ wins \in Seq(Status) /\ Len(wins) \in Nat
      /\ objs \in [Addresses -> Object \cup {Null}]
  BY DEF Owned
<1>2. /\ new \in Seq(Status) /\ Len(new) = id
      /\ \A i \in 1..Len(wins) : new[i] = wins[i]
      /\ new[id] = Shown(object.mapped)
  BY <1>1 DEF Shown, Status
<1>3. object \in Object /\ object # Null /\ id \in 1..MaxWindows
  BY <1>1, EventsAssumption DEF Object
<1>4. /\ newObjs \in [Addresses -> Object \cup {Null}]
      /\ newObjs[a] = object /\ \A b \in Addresses : b # a => newObjs[b] = objs[b]
  BY <1>1, <1>3
<1>5. /\ newMap = [i \in DOMAIN newMap |-> newMap[i]]
      /\ DOMAIN newMap = DOMAIN map \cup {id} /\ newMap[id] = a
      /\ \A i \in DOMAIN map : i # id => newMap[i] = map[i]
  BY DEF Added
<1>6. \A b \in Addresses : objs[b] # Null =>
        /\ objs[b].window \in 1..Len(wins) /\ objs[b].window # id
        /\ wins[objs[b].window] = Shown(objs[b].mapped)
        /\ objs[b].window \in DOMAIN map /\ map[objs[b].window] = b
  BY <1>1 DEF Owned
<1>7. ASSUME NEW b \in Addresses, newObjs[b] # Null
      PROVE  /\ newObjs[b].window \in 1..Len(new)
             /\ new[newObjs[b].window] = Shown(newObjs[b].mapped)
             /\ newObjs[b].window \in DOMAIN newMap /\ newMap[newObjs[b].window] = b
  <2>1. CASE b = a
    BY <1>1, <1>2, <1>4, <1>5, <2>1
  <2>2. CASE b # a
    <3>1. newObjs[b] = objs[b]
      BY <1>4, <2>2
    <3> QED BY <1>1, <1>2, <1>5, <1>6, <1>7, <3>1
  <2> QED BY <2>1, <2>2
<1>8. ASSUME NEW i \in DOMAIN newMap
      PROVE  /\ newMap[i] \in Addresses /\ newObjs[newMap[i]] # Null
             /\ newObjs[newMap[i]].window = i
  <2>1. CASE i = id
    BY <1>3, <1>4, <1>5, <2>1
  <2>2. CASE i # id
    <3>1. /\ map[i] \in Addresses /\ objs[map[i]] # Null /\ objs[map[i]].window = i
      BY <1>5, <2>2 DEF Owned
    <3>2. newMap[i] = map[i] /\ map[i] # a
      BY <1>5, <2>2, <3>1
    <3> QED BY <1>4, <3>1, <3>2
  <2> QED BY <2>1, <2>2
<1>9. ASSUME NEW i \in 1..Len(new), new[i] = "shown" PROVE i \in DOMAIN newMap
  <2>1. CASE i = id
    BY <1>5, <2>1
  <2>2. CASE i # id
    <3>1. i \in 1..Len(wins)
      BY <1>1, <1>2, <2>2
    <3> QED BY <1>2, <1>5, <1>9, <3>1 DEF Owned
  <2> QED BY <2>1, <2>2
<1> QED BY <1>2, <1>3, <1>4, <1>5, <1>7, <1>8, <1>9 DEF Owned

(* ~WindowXCB.                                                             *)
LEMMA ObjectRemoved ==
  ASSUME NEW objs, NEW map, NEW wins, NEW dead, Owned(objs, map, wins, dead),
         NEW a \in Addresses, objs[a] # Null,
         NEW id, id = objs[a].window,
         NEW newObjs, newObjs = [objs EXCEPT ![a] = Null],
         NEW newMap, newMap = [other \in DOMAIN map \ {id} |-> map[other]]
  PROVE  Owned(newObjs, newMap, wins, dead \cup {id})
<1>1. /\ newObjs \in [Addresses -> Object \cup {Null}]
      /\ newObjs[a] = Null /\ \A b \in Addresses : b # a => newObjs[b] = objs[b]
  BY DEF Owned
<1>2. /\ DOMAIN newMap = DOMAIN map \ {id}
      /\ \A i \in DOMAIN newMap : newMap[i] = map[i]
  OBVIOUS
<1>3. /\ id \in 1..Len(wins) /\ id \in DOMAIN map /\ map[id] = a
  BY DEF Owned
<1>4. ASSUME NEW b \in Addresses, newObjs[b] # Null
      PROVE  /\ newObjs[b].window \in 1..Len(wins)
             /\ newObjs[b].window \notin dead \cup {id}
             /\ wins[newObjs[b].window] = Shown(newObjs[b].mapped)
             /\ newObjs[b].window \in DOMAIN newMap /\ newMap[newObjs[b].window] = b
  <2>1. b # a /\ newObjs[b] = objs[b] /\ objs[b] # Null
    BY <1>1, <1>4
  <2>2. /\ objs[b].window \in 1..Len(wins) /\ objs[b].window \notin dead
        /\ wins[objs[b].window] = Shown(objs[b].mapped)
        /\ objs[b].window \in DOMAIN map /\ map[objs[b].window] = b
    BY <2>1 DEF Owned
  <2>3. objs[b].window # id
    BY <1>3, <2>1, <2>2
  <2> QED BY <1>2, <2>1, <2>2, <2>3
<1>5. ASSUME NEW i \in DOMAIN newMap
      PROVE  /\ newMap[i] \in Addresses /\ newObjs[newMap[i]] # Null
             /\ newObjs[newMap[i]].window = i
  <2>1. /\ map[i] \in Addresses /\ objs[map[i]] # Null /\ objs[map[i]].window = i
    BY <1>2 DEF Owned
  <2>2. map[i] # a
    BY <1>2, <2>1
  <2> QED BY <1>1, <1>2, <2>1, <2>2
<1>6. \A i \in 1..Len(wins) :
        wins[i] = "shown" => i \in dead \cup {id} \/ i \in DOMAIN newMap
  BY <1>2 DEF Owned
<1>7. /\ wins \in Seq(Status) /\ Len(wins) <= MaxWindows
      /\ dead \cup {id} \subseteq 1..Len(wins)
  BY <1>3 DEF Owned
<1> QED BY <1>1, <1>2, <1>4, <1>5, <1>6, <1>7 DEF Owned

(* open() and close().                                                     *)
LEMMA ObjectShown ==
  ASSUME NEW objs, NEW map, NEW wins, Owned(objs, map, wins, {}),
         NEW a \in Addresses, objs[a] # Null, NEW shown \in BOOLEAN,
         NEW newObjs, newObjs = [objs EXCEPT ![a].mapped = shown],
         NEW new, new = [wins EXCEPT ![objs[a].window] = Shown(shown)]
  PROVE  Owned(newObjs, map, new, {})
<1>1. PICK id, object : id = objs[a].window
                        /\ object = [window |-> id, mapped |-> shown]
  OBVIOUS
<1>2. /\ objs[a] \in Object /\ id \in 1..Len(wins) /\ id \in DOMAIN map /\ map[id] = a
  BY <1>1 DEF Owned
<1>3. object \in Object /\ object # Null /\ newObjs = [objs EXCEPT ![a] = object]
  <2>1. objs[a] = [window |-> id, mapped |-> objs[a].mapped]
    BY <1>1, <1>2 DEF Object
  <2>2. [objs[a] EXCEPT !.mapped = shown] = object
    BY <1>1, <2>1
  <2>3. object \in Object
    BY <1>1, <1>2 DEF Object
  <2> QED BY <2>2, <2>3, EventsAssumption DEF Object
<1>4. /\ newObjs \in [Addresses -> Object \cup {Null}]
      /\ newObjs[a] = object /\ \A b \in Addresses : b # a => newObjs[b] = objs[b]
  <2>1. objs \in [Addresses -> Object \cup {Null}]
    BY DEF Owned
  <2> QED BY <1>3, <2>1
<1>5. /\ wins \in Seq(Status) /\ Shown(shown) \in Status
      /\ Len(wins) <= MaxWindows
  BY DEF Owned, Shown, Status
<1>6. /\ new \in Seq(Status) /\ Len(new) = Len(wins) /\ new[id] = Shown(shown)
      /\ \A i \in 1..Len(wins) : i # id => new[i] = wins[i]
  BY <1>1, <1>2, <1>5
<1>7. ASSUME NEW b \in Addresses, newObjs[b] # Null
      PROVE  /\ newObjs[b].window \in 1..Len(new)
             /\ new[newObjs[b].window] = Shown(newObjs[b].mapped)
             /\ newObjs[b].window \in DOMAIN map /\ map[newObjs[b].window] = b
  <2>1. CASE b = a
    BY <1>1, <1>2, <1>4, <1>6, <2>1
  <2>2. CASE b # a
    <3>1. newObjs[b] = objs[b] /\ objs[b] # Null
      BY <1>4, <1>7, <2>2
    <3>2. /\ objs[b].window \in 1..Len(wins)
          /\ wins[objs[b].window] = Shown(objs[b].mapped)
          /\ objs[b].window \in DOMAIN map /\ map[objs[b].window] = b
      BY <3>1 DEF Owned
    <3>3. objs[b].window # id
      BY <1>2, <2>2, <3>2
    <3> QED BY <1>6, <3>1, <3>2, <3>3
  <2> QED BY <2>1, <2>2
<1>8. ASSUME NEW i \in DOMAIN map
      PROVE  /\ map[i] \in Addresses /\ newObjs[map[i]] # Null
             /\ newObjs[map[i]].window = i
  <2>1. /\ map[i] \in Addresses /\ objs[map[i]] # Null /\ objs[map[i]].window = i
    BY DEF Owned
  <2>2. CASE map[i] = a
    BY <1>1, <1>3, <1>4, <2>1, <2>2
  <2>3. CASE map[i] # a
    BY <1>4, <2>1, <2>3
  <2> QED BY <2>2, <2>3
<1>9. \A i \in 1..Len(new) : new[i] = "shown" => i \in DOMAIN map
  BY <1>2, <1>6 DEF Owned
<1>10. map = [i \in DOMAIN map |-> map[i]]
  BY DEF Owned
<1> QED BY <1>4, <1>5, <1>6, <1>7, <1>8, <1>9, <1>10 DEF Owned

(* An id is mapped to the object that has it, whether the server knows the *)
(* id or not, and to nothing if there is none.                             *)
LEMMA OwnerFound ==
  ASSUME Owned(objects, winMap, windows, doomed), NEW id
  PROVE  FromId(id) = OwnerOf(id)
<1>1. CASE id \in DOMAIN winMap
  <2>1. winMap[id] \in Addresses /\ Owns(winMap[id], id)
    BY <1>1 DEF Owned, Owns
  <2>2. \A a \in Addresses : Owns(a, id) => a = winMap[id]
    BY DEF Owned, Owns
  <2> QED BY <1>1, <2>1, <2>2 DEF FromId, OwnerOf
<1>2. CASE id \notin DOMAIN winMap
  <2>1. ~ \E a \in Addresses : Owns(a, id)
    BY <1>2 DEF Owned, Owns
  <2> QED BY <1>2, <2>1 DEF FromId, OwnerOf
<1> QED BY <1>1, <1>2

(* Keeping the modifiers of the last key event is a cache.                 *)
LEMMA ModsCached ==
  ASSUME prevModMask = Mods(prevEvState), NEW state
  PROVE  ModMask(state) = Mods(state) /\ Mods(state) \subseteq ModNames
BY DEF ModMask, Mods, KeyMods, ModNames

(* What a call is given.                                                   *)
LEMMA CallGiven ==
  ASSUME WindowsInv, CallHandler
  PROVE  \E event, call :
           /\ event = Head(queue) /\ frames' = Append(frames, call)
           /\ call \in Frames
           /\ call.kind = HandlerOf[event.type] /\ call.kind \in fn
           /\ call.kind \in GivenWindow => call.window = OwnerOf(event.window)
           /\ call.kind = "KbKey" => call.mods = Mods(event.state)
           /\ IF call.kind = "KbKey"
              THEN prevEvState' = event.state /\ prevModMask' = Mods(event.state)
              ELSE UNCHANGED keyVars
<1>1. PICK event, kind, window, mods, call :
        /\ event = Head(queue) /\ kind = HandlerOf[event.type]
        /\ window = IF kind \in GivenWindow THEN FromId(event.window) ELSE Null
        /\ mods = IF kind = "KbKey" THEN ModMask(event.state) ELSE {}
        /\ call = Frame(kind, window, mods)
  OBVIOUS
<1>2. /\ Handled(event) /\ frames' = Append(frames, call)
      /\ IF kind = "KbKey" THEN prevEvState' = event.state /\ prevModMask' = mods
         ELSE UNCHANGED keyVars
  BY <1>1 DEF CallHandler
<1>3. call.kind = kind /\ call.window = window /\ call.mods = mods
  BY <1>1 DEF Frame
<1>4. kind \in fn /\ kind \in Kinds
  BY <1>1, <1>2 DEF Handled, WindowsInv, Kinds
<1>5. FromId(event.window) = OwnerOf(event.window)
  BY OwnerFound DEF WindowsInv
<1>6. window \in Addresses \cup {Null}
  <2>1. FromId(event.window) \in Addresses \cup {Null}
    BY DEF FromId, WindowsInv, Owned
  <2> QED BY <1>1, <2>1
<1>7. ModMask(event.state) = Mods(event.state) /\ Mods(event.state) \subseteq ModNames
  BY ModsCached DEF WindowsInv
<1>8. mods \subseteq ModNames
  BY <1>1, <1>7
<1>9. call \in Frames
  BY <1>1, <1>4, <1>6, <1>8 DEF Frame, Frames
<1> QED BY <1>1, <1>2, <1>3, <1>4, <1>5, <1>7, <1>9

(* There are no windows at first.                                          *)
LEMMA WindowsInit == WsInit => WindowsInv
<1> SUFFICES ASSUME WsInit PROVE WindowsInv
  OBVIOUS
<1>1. Owned(objects, winMap, windows, doomed)
  <2>1. DOMAIN winMap = {} /\ Len(windows) = 0 /\ windows \in Seq(Status)
    BY DEF WsInit
  <2>2. winMap = [id \in DOMAIN winMap |-> winMap[id]]
    BY DEF WsInit
  <2> QED BY <2>1, <2>2, EventsAssumption DEF WsInit, Owned
<1>2. prevModMask = Mods(prevEvState)
  BY DEF WsInit, Mods
<1> QED BY <1>1, <1>2 DEF WsInit, WindowsInv

(* Every call and every event keeps the windows owned.                     *)
LEMMA WindowsNext == WindowsInv /\ [WsNext]_wsVars => WindowsInv'
<1> SUFFICES ASSUME WindowsInv, [WsNext]_wsVars PROVE WindowsInv'
  OBVIOUS
<1>1. /\ Owned(objects, winMap, windows, doomed)
      /\ Owned(objects, winMap, Synced, {}) /\ Len(Synced) = Len(windows)
      /\ Len(windows) \in Nat
  <2>1. Synced = Settled(windows, doomed)
    BY DEF Synced, Settled
  <2> QED BY <2>1, SettledOwned DEF WindowsInv, Owned
<1>2. /\ mask = fn /\ fn \subseteq Flags /\ prevModMask = Mods(prevEvState)
      /\ frames \in Seq(Frames)
  BY DEF WindowsInv
<1> USE DEF platformVars, delegateVars, objectVars, serverVars, keyVars
<1>3. ASSUME UNCHANGED <<delegateVars, keyVars, frames>>,
             Owned(objects', winMap', windows', doomed')
      PROVE  WindowsInv'
  BY <1>2, <1>3 DEF WindowsInv
<1>4. CASE InitXCBThrows
  BY <1>1, <1>3, <1>4 DEF InitXCBThrows
<1>5. CASE Dispatch
  <2>1. Frame("dispatch", Null, {}) \in Frames
    BY DEF Frame, Frames, Kinds
  <2>2. frames' \in Seq(Frames)
    BY <1>2, <1>5, <2>1 DEF Dispatch
  <2> QED BY <1>1, <1>2, <1>5, <2>2 DEF Dispatch, WindowsInv
<1>6. ASSUME NEW a \in Addresses, NEW shown \in BOOLEAN, CreateWindow(a, shown)
      PROVE  WindowsInv'
  <2>1. PICK id, object : id = Len(Synced) + 1
                          /\ object = [window |-> id, mapped |-> shown]
    OBVIOUS
  <2>2. /\ Len(Synced) < MaxWindows /\ objects[a] = Null
        /\ windows' = Append(Synced, Shown(shown))
        /\ objects' = [objects EXCEPT ![a] = object]
        /\ winMap' = Added(winMap, id, a)
        /\ doomed' = {} /\ UNCHANGED <<delegateVars, keyVars, frames>>
    BY <1>1, <1>6, <2>1 DEF CreateWindow, MayCreate
  <2>3. PICK newObjs, newMap, new :
          /\ newObjs = [objects EXCEPT ![a] = object]
          /\ newMap = Added(winMap, id, a)
          /\ new = Append(Synced, Shown(shown))
    OBVIOUS
  <2>4. Owned(newObjs, newMap, new, {})
    <3>1. PICK wins : wins = Synced
      OBVIOUS
    <3>2. /\ Owned(objects, winMap, wins, {}) /\ Len(wins) < MaxWindows
          /\ objects[a] = Null /\ id = Len(wins) + 1
      BY <1>1, <2>1, <2>2, <2>3, <3>1
    <3>5. object \in Object /\ object.window = id /\ object.mapped = shown
      BY <1>1, <2>1, <2>2, EventsAssumption DEF Object
    <3>6. new = Append(wins, Shown(object.mapped))
      BY <2>3, <3>1, <3>5
    <3>3. newObjs = [objects EXCEPT ![a] = object]
      BY <2>3
    <3>4. newMap = Added(winMap, id, a)
      BY <2>3
    <3> QED BY <3>2, <3>3, <3>4, <3>5, <3>6, ObjectAdded
  <2> QED BY <1>3, <2>2, <2>3, <2>4
<1>7. ASSUME NEW status \in Status, windows' = Append(Synced, status), MayCreate,
             status = "shown" => doomed' = {Len(windows) + 1},
             doomed' \subseteq {Len(windows) + 1}, UNCHANGED objectVars
      PROVE  WindowsInv'
  <2>1. Len(Synced) < MaxWindows /\ UNCHANGED <<delegateVars, keyVars, frames>>
    BY <1>1, <1>7 DEF MayCreate
  <2>2. Owned(objects, winMap, windows', doomed')
    BY <1>1, <1>7, <2>1, UnownedAdded
  <2> QED BY <1>3, <1>7, <2>1, <2>2
<1>8. ASSUME NEW shown \in BOOLEAN, CreateUndone(shown) PROVE WindowsInv'
  BY <1>7, <1>8 DEF CreateUndone, Undone, Shown, Status
<1>9. CASE CreateLeaks
  BY <1>7, <1>9 DEF CreateLeaks, Status
<1>10. CASE CreateRefused
  BY <1>7, <1>10 DEF CreateRefused, Status
<1>11. ASSUME NEW a \in Addresses, DestroyWindow(a) PROVE WindowsInv'
  <2>1. PICK id : id = objects[a].window
    OBVIOUS
  <2>2. /\ objects[a] # Null /\ windows' = windows
        /\ winMap' = [other \in DOMAIN winMap \ {id} |-> winMap[other]]
        /\ objects' = [objects EXCEPT ![a] = Null]
        /\ doomed' = doomed \cup {id}
        /\ UNCHANGED <<delegateVars, keyVars, frames>>
    BY <1>11, <2>1 DEF DestroyWindow, Erased
  <2>3. Owned(objects', winMap', windows, doomed')
    BY <1>1, <2>1, <2>2, ObjectRemoved
  <2> QED BY <1>3, <2>2, <2>3
<1>12. ASSUME NEW a \in Addresses, NEW shown \in BOOLEAN, Show(a, shown)
       PROVE  WindowsInv'
  <2>1. /\ objects[a] # Null /\ winMap' = winMap /\ doomed' = {}
        /\ objects' = [objects EXCEPT ![a].mapped = shown]
        /\ windows' = [Synced EXCEPT ![objects[a].window] = Shown(shown)]
        /\ UNCHANGED <<delegateVars, keyVars, frames>>
    BY <1>12 DEF Show, Requests
  <2>2. Owned(objects', winMap, windows', {})
    BY <1>1, <2>1, ObjectShown
  <2> QED BY <1>3, <2>1, <2>2
<1>13. ASSUME NEW a \in Addresses, SetTitle(a) \/ Resize(a) PROVE WindowsInv'
  <2>1. /\ objects' = objects /\ winMap' = winMap /\ windows' = Synced
        /\ doomed' = {} /\ UNCHANGED <<delegateVars, keyVars, frames>>
    BY <1>13 DEF SetTitle, Resize, Requests
  <2> QED BY <1>1, <1>3, <2>1
<1>14. ASSUME NEW kind \in Flags, NEW given \in BOOLEAN, On(kind, given)
       PROVE  WindowsInv'
  <2>1. mask' = fn' /\ fn' \subseteq Flags
    BY <1>2, <1>14 DEF On, Masked
  <2> QED BY <1>1, <1>2, <1>14, <2>1 DEF On, WindowsInv
<1>15. ASSUME UNCHANGED <<delegateVars, objectVars, serverVars, keyVars>>,
              frames' \in Seq(Frames)
       PROVE  WindowsInv'
  BY <1>1, <1>2, <1>15 DEF WindowsInv
<1>16. CASE DispatchReturns
  <2>1. frames' \in Seq(Frames)
    BY <1>2, <1>16 DEF DispatchReturns, Front
  <2> QED BY <1>15, <1>16, <2>1 DEF DispatchReturns
<1>17. CASE Discard
  BY <1>2, <1>15, <1>17 DEF Discard
<1>18. CASE CallHandler
  <2>1. /\ UNCHANGED <<delegateVars, objectVars, serverVars>>
    BY <1>18 DEF CallHandler
  <2>2. /\ frames' \in Seq(Frames)
        /\ prevModMask' = Mods(prevEvState')
    BY <1>2, <1>18, CallGiven
  <2> QED BY <1>1, <1>2, <2>1, <2>2 DEF WindowsInv
<1>19. CASE HandlerReturns
  <2>1. frames' \in Seq(Frames)
    BY <1>2, <1>19 DEF HandlerReturns, Front
  <2> QED BY <1>15, <1>19, <2>1 DEF HandlerReturns
<1>20. CASE HandlerThrows
  <2>1. PICK front : front = Front(frames)
    OBVIOUS
  <2>2. front \in Seq(Frames)
    BY <1>2, <1>20, <2>1 DEF HandlerThrows, Front
  <2>3. Front(front) \in Seq(Frames)
    <3>1. CASE front = <<>>
      BY <3>1 DEF Front
    <3>2. CASE front # <<>>
      BY <2>2, <3>2 DEF Front
    <3> QED BY <3>1, <3>2
  <2> QED BY <1>15, <1>20, <2>1, <2>3 DEF HandlerThrows
<1>21. CASE CarryOut
  BY <1>1, <1>3, <1>21 DEF CarryOut, Sync
<1>22. ASSUME NEW type, NEW id, NEW state, NEW deletes, Arrive(type, id, state, deletes)
       PROVE  WindowsInv'
  BY <1>1, <1>3, <1>22 DEF Arrive
<1>23. CASE UNCHANGED wsVars
  BY <1>2, <1>15, <1>23 DEF wsVars
<1>24. CASE ClientCalls
  BY <1>4, <1>5, <1>6, <1>8, <1>9, <1>10, <1>11, <1>12, <1>13, <1>14, <1>24
     DEF ClientCalls, Open, Close
<1> QED BY <1>16, <1>17, <1>18, <1>19, <1>20, <1>21, <1>22, <1>23, <1>24 DEF WsNext

(* Whatever constructors threw and handlers did, the ids of windows belong *)
(* to the objects that have them, and a window that is shown can be        *)
(* closed.                                                                 *)
THEOREM WindowsHaveOwners == WsSpec => []WindowsOwned
<1>1. WsSpec => []WindowsInv
  BY WindowsInit, WindowsNext, PTL DEF WsSpec
<1>2. WindowsInv => WindowsOwned
  <2> SUFFICES ASSUME WindowsInv PROVE WindowsOwned
    OBVIOUS
  <2>1. Owned(objects, winMap, windows, doomed)
    BY DEF WindowsInv
  <2>2. DOMAIN windows = 1..Len(windows)
    BY <2>1 DEF Owned
  <2>3. \A id \in DOMAIN windows : FromId(id) = OwnerOf(id)
    BY <2>1, OwnerFound
  <2>4. ASSUME NEW id \in DOMAIN windows, windows[id] = "shown"
        PROVE  id \in doomed \/ OwnerOf(id) # Null
    <3>1. CASE id \in DOMAIN winMap
      <4>1. FromId(id) \in Addresses
        BY <2>1, <3>1 DEF Owned, FromId
      <4> QED BY <2>3, <4>1, EventsAssumption
    <3>2. CASE id \notin DOMAIN winMap
      BY <2>1, <2>2, <2>4, <3>2 DEF Owned
    <3> QED BY <3>1, <3>2
  <2> QED BY <2>1, <2>3, <2>4 DEF WindowsOwned, Owned
<1> QED BY <1>1, <1>2, PTL

(* Every call of a handler is one that the client asked for, with the      *)
(* window and the modifiers of its event, at any depth of dispatching.     *)
THEOREM CallsAsGiven == WsSpec => CallsRight
<1>1. WsSpec => []WindowsInv
  BY WindowsInit, WindowsNext, PTL DEF WsSpec
<1> DEFINE Right == LET event == Head(queue)
                        call == Last(frames')
                    IN  /\ call.kind = HandlerOf[event.type] /\ call.kind \in fn
                        /\ call.kind \in GivenWindow =>
                             call.window = OwnerOf(event.window)
                        /\ call.kind = "KbKey" => call.mods = Mods(event.state)
<1>2. WindowsInv /\ [WsNext]_wsVars => [Called => Right]_wsVars
  <2> SUFFICES ASSUME WindowsInv, WsNext, Called PROVE Right
    OBVIOUS
  <2>1. frames \in Seq(Frames)
    BY DEF WindowsInv
  <2>2. CASE CallHandler
    <3>1. PICK event, call :
            /\ event = Head(queue) /\ frames' = Append(frames, call)
            /\ call \in Frames
            /\ call.kind = HandlerOf[event.type] /\ call.kind \in fn
            /\ call.kind \in GivenWindow => call.window = OwnerOf(event.window)
            /\ call.kind = "KbKey" => call.mods = Mods(event.state)
      BY <2>2, CallGiven
    <3>2. Last(frames') = call
      BY <2>1, <3>1 DEF Last
    <3> QED BY <3>1, <3>2
  <2>3. ASSUME UNCHANGED frames PROVE FALSE
    BY <2>1, <2>3 DEF Called
  <2>4. CASE Dispatch
    <3>1. PICK call : call = Frame("dispatch", Null, {})
      OBVIOUS
    <3>2. call \in Frames /\ call.kind = "dispatch"
      BY <3>1 DEF Frame, Frames, Kinds
    <3>3. frames' = Append(frames, call)
      BY <2>4, <3>1 DEF Dispatch
    <3>4. Last(frames') = call
      BY <2>1, <3>2, <3>3 DEF Last
    <3> QED BY <3>2, <3>4 DEF Called
  <2>5. ASSUME NEW a \in Addresses PROVE ~ Show(a, TRUE) /\ ~ Show(a, FALSE)
    BY <2>3 DEF Show, Requests
  <2>6. CASE ClientCalls
    BY <2>3, <2>4, <2>5, <2>6
       DEF ClientCalls, InitXCBThrows, CreateWindow, MayCreate, CreateUndone,
           CreateLeaks, CreateRefused, DestroyWindow, Open, Close, SetTitle,
           Resize, Requests, On
  <2>7. CASE DispatchReturns \/ HandlerReturns
    <3>1. frames # <<>> /\ frames' = Front(frames)
      BY <2>7 DEF DispatchReturns, HandlerReturns, Dispatching
    <3> QED BY <2>1, <3>1 DEF Called, Front
  <2>8. CASE HandlerThrows
    <3>1. PICK front : front = Front(frames)
      OBVIOUS
    <3>2. frames # <<>> /\ frames' = Front(front)
      BY <2>8, <3>1 DEF HandlerThrows
    <3>3. front \in Seq(Frames) /\ Len(front) = Len(frames) - 1
      <4>1. front = SubSeq(frames, 1, Len(frames) - 1)
        BY <3>1 DEF Front
      <4>2. PICK n : n = Len(frames) - 1
        OBVIOUS
      <4>3. n \in 0..Len(frames)
        BY <2>1, <3>2, <4>2
      <4> QED BY <2>1, <4>1, <4>2, <4>3
    <3>4. Len(frames') <= Len(front)
      <4>1. CASE front = <<>>
        BY <3>2, <4>1 DEF Front
      <4>2. CASE front # <<>>
        BY <3>2, <3>3, <4>2 DEF Front
      <4> QED BY <4>1, <4>2
    <3> QED BY <2>1, <3>3, <3>4 DEF Called
  <2> QED BY <2>2, <2>3, <2>6, <2>7, <2>8 DEF WsNext, Discard, CarryOut, Arrive
<1>3. WsSpec => [][Called => Right]_wsVars
  BY <1>1, <1>2, PTL DEF WsSpec
<1> QED BY <1>3 DEF CallsRight
=============================================================================
