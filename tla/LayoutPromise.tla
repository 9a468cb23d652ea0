--------------------------- MODULE LayoutPromise ---------------------------
(***************************************************************************)
(* What layout transitions promise to the rest of the library, without the *)
(* queue, the command buffers or the device (ImageVK.h: "Performs a layout *)
(* transition"): an image is in one layout and may be on its way to        *)
(* another; all the transitions on their way are committed together or     *)
(* dropped together.                                                       *)
(***************************************************************************)
CONSTANT Images

VARIABLES
  cur,   \* the layout that each image is in
  goal   \* the layout that it goes to; cur[i] when it is not on its way

Layouts == {"fresh", "general", "present"}

Init ==
  /\ cur = [i \in Images |-> "fresh"]
  /\ goal = cur

Idle(i) == goal[i] = cur[i]

(* Transitions to one layout begin, of images that are not on their way.   *)
Request(S, l) ==
  /\ \A i \in S : Idle(i) /\ cur[i] # l
  /\ goal' = [i \in Images |-> IF i \in S THEN l ELSE goal[i]]
  /\ UNCHANGED cur

Commit ==
  /\ cur' = goal
  /\ UNCHANGED goal

Drop ==
  /\ goal' = cur
  /\ UNCHANGED cur

(* One more transition begins and all are committed at once.  (When they   *)
(* are dropped instead, the step is a Drop.)                               *)
RequestAndCommit(i, l) ==
  /\ Idle(i) /\ cur[i] # l
  /\ goal' = [goal EXCEPT ![i] = l]
  /\ cur' = goal'

Next ==
  \/ \E S \in SUBSET Images, l \in Layouts : Request(S, l)
  \/ Commit
  \/ Drop
  \/ \E i \in Images, l \in Layouts : RequestAndCommit(i, l)

Spec == Init /\ [][Next]_<<cur, goal>>
=============================================================================
