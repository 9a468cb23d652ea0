----------------------------- MODULE Swapchain -----------------------------
(***************************************************************************)
(* The presentable surface of the Vulkan back end (cg/src/vk/WsiVK.cxx),   *)
(* composed with the images and the queue of ImageLayout: images are       *)
(* acquired from the presentation engine, drawn to by command buffers that *)
(* wait for the acquisition's semaphore, and presented.                    *)
(*                                                                         *)
(* An image of the swapchain is its index, one based.  The client is any   *)
(* program that submits the work of the images it presents beforehand, as  *)
(* View::render does and WsiVK::present assumes ("all work has been        *)
(* submitted for execution"), and that goes on after an exception, unless  *)
(* it tells that the swapchain is broken.                                  *)
(***************************************************************************)
EXTENDS ImageLayout, Naturals, Sequences

CONSTANT
  MinImages  \* WsiVK::minImgN_, the minimum that the surface asks for

VARIABLES
  acquisitions,   \* WsiVK::acquisitions_
  acqSemaphores,  \* WsiVK::acqSemaphores_
  semaphores,     \* QueueVK::semaphores_, what the next submission waits for
  signaled,       \* semaphores that an acquisition signals and nobody waited for
  held,           \* images that the engine gave away and did not get back
  broken,         \* was the swapchain reported to be broken?
  unwaited,       \* semaphores whose wait was dropped by a failed submission
  misplaced       \* was an image presented in another layout than "present"?

wsiVars == <<acquisitions, acqSemaphores, semaphores, signaled, held, broken,
             unwaited, misplaced>>
allVars == <<vars, wsiVars>>

N == Cardinality(Images)
Indices == 1..N

(* All the images are the swapchain's, and it has as many as it needs.     *)
ASSUME SwapchainAssumption ==
  /\ IsFiniteSet(Images) /\ Images = Indices
  /\ Presentable = Images
  /\ Attachments = Images
  /\ MinImages \in Indices

(* WsiVK::acqLimit_                                                        *)
Limit == 1 + N - MinImages

WsiTypeOK ==
  /\ TypeOK
  /\ acquisitions \subseteq Indices
  /\ acqSemaphores \in [Indices -> Indices]
  /\ semaphores \in Seq(Indices)
  /\ signaled \subseteq Indices
  /\ held \subseteq Indices
  /\ broken \in BOOLEAN
  /\ unwaited \subseteq Indices
  /\ misplaced \in BOOLEAN

(* The state after WsiVK::createSwapchain, with one semaphore per image.   *)
WsiInit ==
  /\ Init
  /\ acquisitions = {}
  /\ acqSemaphores = [i \in Indices |-> i]
  /\ semaphores = <<>>
  /\ signaled = {}
  /\ held = {}
  /\ broken = FALSE
  /\ unwaited = {}
  /\ misplaced = FALSE

-----------------------------------------------------------------------------
(* WsiVK::nextImage.                                                       *)

(* The slot of the semaphore given to vkAcquireNextImageKHR: the first one *)
(* that is not an acquired image's.                                        *)
IsFirstFree(k) ==
  /\ k \notin acquisitions
  /\ \A j \in 1..(k - 1) : j \in acquisitions

(* Mutant of MayAcquire: one acquisition too many.                         *)
MayAcquireOneMore == ~broken /\ Cardinality(acquisitions) <= Limit

MayAcquire == ~broken /\ Cardinality(acquisitions) < Limit

(* Mutant of Swapped: the semaphores stay where they are.                  *)
NotSwapped(k, i) == acqSemaphores

(* The semaphore moves to the slot of the image that it was used for.      *)
Swapped(k, i) == [acqSemaphores EXCEPT ![k] = acqSemaphores[i],
                                       ![i] = acqSemaphores[k]]

(* Mutant of NextImage: the queue is told after the semaphores changed     *)
(* their slots, and waits for the other one.                               *)
NextImageSwapFirst(i) ==
  /\ MayAcquire
  /\ i \notin held
  /\ \E k \in Indices :
       /\ IsFirstFree(k)
       /\ acqSemaphores' = Swapped(k, i)
       /\ semaphores' = Append(semaphores, Swapped(k, i)[k])
       /\ signaled' = signaled \cup {acqSemaphores[k]}
  /\ acquisitions' = acquisitions \cup {i}
  /\ held' = held \cup {i}
  /\ UNCHANGED <<vars, broken, unwaited, misplaced>>

(* The engine gives image i.  (A time-out or an error changes nothing.)    *)
NextImage(i) ==
  /\ MayAcquire
  /\ i \notin held
  /\ \E k \in Indices :
       /\ IsFirstFree(k)
       /\ acqSemaphores' = Swapped(k, i)
       /\ semaphores' = Append(semaphores, acqSemaphores[k])
       /\ signaled' = signaled \cup {acqSemaphores[k]}
  /\ acquisitions' = acquisitions \cup {i}
  /\ held' = held \cup {i}
  /\ UNCHANGED <<vars, broken, unwaited, misplaced>>

(* VK_SUBOPTIMAL_KHR gives an image that is not recorded as acquired,      *)
(* VK_ERROR_OUT_OF_DATE_KHR gives none; both throw.                        *)
NextImageBroken ==
  /\ MayAcquire
  /\ broken' = TRUE
  /\ \/ \E i \in Indices \ held, k \in Indices :
          /\ IsFirstFree(k)
          /\ held' = held \cup {i}
          /\ signaled' = signaled \cup {acqSemaphores[k]}
     \/ UNCHANGED <<held, signaled>>
  /\ UNCHANGED <<vars, acquisitions, acqSemaphores, semaphores, unwaited,
                 misplaced>>

-----------------------------------------------------------------------------
(* The queue, with the semaphores.                                         *)

SemaphoreSet == {semaphores[n] : n \in DOMAIN semaphores}

(* Mutant of ClearSemaphores: the next submission waits for them again.    *)
KeepSemaphores(outcome) ==
  /\ semaphores' = semaphores
  /\ \/ /\ outcome \in {"complete", "waitIdle"}
        /\ signaled' = signaled \ SemaphoreSet
        /\ UNCHANGED unwaited
     \/ /\ outcome # "complete"
        /\ unwaited' = unwaited \cup SemaphoreSet
        /\ UNCHANGED signaled

(* notifyAndClear drops the semaphores; the device waited for them if the  *)
(* submission got there.                                                   *)
ClearSemaphores(outcome) ==
  /\ semaphores' = <<>>
  /\ \/ /\ outcome \in {"complete", "waitIdle"}
        /\ signaled' = signaled \ SemaphoreSet
        /\ UNCHANGED unwaited
     \/ /\ outcome # "complete"
        /\ unwaited' = unwaited \cup SemaphoreSet
        /\ UNCHANGED signaled

WsiSubmit(outcome) ==
  /\ Submit(outcome)
  /\ ClearSemaphores(outcome)
  /\ UNCHANGED <<acquisitions, acqSemaphores, held, broken, misplaced>>

(* The client draws to images that it acquired.                            *)
Draw(c, i) ==
  /\ i \in acquisitions
  /\ EncodeDraw(c, i)
  /\ UNCHANGED wsiVars

-----------------------------------------------------------------------------
(* WsiVK::present.                                                         *)

(* The client's part: everything was submitted.                            *)
AllSubmitted == pending = {} /\ semaphores = <<>>

(* The image is no longer an acquisition, whatever comes next.             *)
MayPresent(i) ==
  /\ ~broken
  /\ i \in acquisitions
  /\ AllSubmitted
  /\ acquisitions' = acquisitions \ {i}

(* vkQueuePresentKHR takes the image, in the layout that it is in then,    *)
(* possibly telling that the swapchain is broken, or fails.                *)
QueuePresent(i) ==
  \/ /\ held' = held \ {i}
     /\ broken' \in BOOLEAN
     /\ misplaced' = (misplaced \/ devLayout'[i] # "present")
  \/ UNCHANGED <<held, broken, misplaced>>

(* changeLayout returns at once: the layout that was tracked is "present". *)
PresentAsIs(i) ==
  /\ MayPresent(i)
  /\ layout[i] = nextLayout[i]
  /\ Satisfied(i, "present")
  /\ UNCHANGED vars
  /\ QueuePresent(i)
  /\ UNCHANGED <<acqSemaphores, semaphores, signaled, unwaited>>

PresentChanged(i, outcome) ==
  /\ MayPresent(i)
  /\ ChangeNow(i, "present", outcome)
  /\ IF outcome = "complete" THEN QueuePresent(i)
                             ELSE UNCHANGED <<held, broken, misplaced>>
  /\ ClearSemaphores(outcome)
  /\ UNCHANGED acqSemaphores

(* A transition is pending, or changeLayout cannot begin one.              *)
PresentThrows(i) ==
  /\ MayPresent(i)
  /\ \/ layout[i] # nextLayout[i] /\ UNCHANGED vars
     \/ ChangeThrows(i, "present")
  /\ UNCHANGED <<acqSemaphores, semaphores, signaled, held, broken, unwaited,
                 misplaced>>

-----------------------------------------------------------------------------

WsiNext ==
  \/ \E i \in Indices : NextImage(i)
  \/ NextImageBroken
  \/ QueueStep /\ UNCHANGED <<imageVars, wsiVars>>
  \/ \E c \in CmdBufs, i \in Indices : Draw(c, i)
  \/ \E outcome \in SubmitOutcomes(pendPrio) : WsiSubmit(outcome)
  \/ \E i \in Indices :
        \/ PresentAsIs(i)
        \/ PresentThrows(i)
        \/ \E outcome \in SubmitOutcomes(TRUE) : PresentChanged(i, outcome)

WsiSpec == WsiInit /\ [][WsiNext]_allVars

-----------------------------------------------------------------------------
(* Properties.                                                             *)

(* What the surface counts as acquired was acquired and is not given back, *)
(* and every semaphore has exactly one slot.                               *)
AcquisitionsHeld ==
  /\ WsiTypeOK
  /\ acquisitions \subseteq held
  /\ Cardinality(acquisitions) <= Limit
  /\ \A i, j \in Indices : acqSemaphores[i] = acqSemaphores[j] => i = j

(* A submission waits once, for semaphores that acquisitions signal and    *)
(* that stay in the slots of these acquisitions: it cannot wait forever.   *)
WaitsEnd ==
  /\ \A m, n \in DOMAIN semaphores : semaphores[m] = semaphores[n] => m = n
  /\ SemaphoreSet \subseteq signaled
  /\ broken \/ \A s \in SemaphoreSet :
                 \E i \in acquisitions : acqSemaphores[i] = s

(* The semaphores that nextImage may pick are idle: nothing signals them,  *)
(* and no submission is going to wait for them.  (A failed submission      *)
(* leaves the semaphores it did not wait for signaled.)                    *)
FreeSemaphoresIdle ==
  broken \/ \A i \in Indices \ acquisitions :
              acqSemaphores[i] \in signaled => acqSemaphores[i] \in unwaited

(* Neither a submission nor an acquisition hangs or signals what is        *)
(* signaled already.                                                       *)
SemaphoresSound == WaitsEnd /\ FreeSemaphoresIdle

(* WsiVK::nextImage and QueueVK::submit: the device draws to an image that *)
(* was acquired only once the engine is done with it.  When command        *)
(* buffers leave the queue, they or a submission before them have waited   *)
(* for the semaphores of the acquired images that they draw to, unless the *)
(* submission that was to wait failed.                                     *)
DrawsAwaitImages ==
  [][\A i \in acquisitions :
        (\E c \in pending \ pending' : i \in touches[c]) =>
          acqSemaphores[i] \notin signaled' \ unwaited']_allVars

(* Stated by the comment "Change layout for presentation (expects general  *)
(* layout as the current one)": an image is presented in the layout made   *)
(* for it.  Passes leave images in the general layout but layoutChanged is *)
(* never called, so the second presentation of an image changes nothing.   *)
PresentedInLayout == ~misplaced
=============================================================================
